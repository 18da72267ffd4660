---------------------------- MODULE EvidenceProofs ----------------------------
(***************************************************************************)
(* Proofs about what is said of a managed run's environment and model, in  *)
(* the composition that TLC checks.                                        *)
(*                                                                         *)
(* Packages: for any history of commits and any tier.  The bytes that      *)
(* others write are each time new ones, so that an inventory that agrees   *)
(* with an earlier one means that nothing changed in between; a package    *)
(* that went stays away.                                                   *)
(*                                                                         *)
(* Probes: for any recipes, any number of faults and readings of any size. *)
(* What a probe knows at each place of what it has done is carried until   *)
(* it ends and its result is recorded; the result of an nf4 probe is a     *)
(* pass only if its process is as it was found.                            *)
(*                                                                         *)
(* Model: for any snapshot that files can hold.  What was read agrees with *)
(* what was hashed wherever it was verified, and no report counts more.    *)
(***************************************************************************)
EXTENDS EnvironmentsProofs

-----------------------------------------------------------------------------
(* Packages: their bytes tell those that others wrote later as newer *)

Age(x) ==
  IF x = Packages!Altered[1] THEN 1 ELSE IF x = Packages!Altered[2] THEN 2
  ELSE IF x = Packages!Altered[3] THEN 3 ELSE 0

\* A package that went stays away.
Stamp(v) == IF v = None THEN 4 ELSE Age(v.bytes)

\* The second inventory is the first, or others were at work in between.
Since(v, w) == w = v \/ Stamp(v) < Stamp(w)
Later(i, j) == \A p \in Packages!Names : Since(i[p], j[p])

-----------------------------------------------------------------------------
(* Packages: the invariants *)

\* The checkout and the wheel; the manager; the environment; what the manager saw of it.
WheelTyped ==
  /\ Packages!WheelTypeOK /\ meddling \in 0..MaxMeddling
  /\ wheel = None \/ wheel \in Packages!WheelOf(Packages!FileBytes)
  /\ wheel = None \/ Age(wheel.payload) <= meddling

ManagerTyped ==
  /\ phase \in Packages!Phases /\ tier \in Packages!Tiers /\ plan \in Packages!Plans \cup {None}
  /\ \A p \in Packages!Names : reported[p] = None \/ reported[p].version \in {"pinned", "other"}
  /\ state \in {"planned", "installing", "unsealed", "broken", "drifted", "degraded", "verified"}
  /\ purpose \in {"first", "second", "live", "health", "afterHealth", "snapshot"}

SiteTyped ==
  /\ site \in Packages!Sites /\ litter \in BOOLEAN
  /\ \A p \in Packages!Names : site[p] = None \/ Age(site[p].bytes) <= meddling

SeenTyped ==
  /\ {inventory, before, probed} \subseteq Packages!Sites \cup {None}
  /\ lock = None \/ lock.packages \in Packages!Sites
  /\ bound = None \/ \A p \in Packages!Profiled : bound[p] = None \/ bound[p] \in Packages!Installed

PackagesTyped == WheelTyped /\ ManagerTyped /\ SiteTyped /\ SeenTyped

\* What the builder leaves for the review: a wheel that names a commit names one it checked.
BuilderInv ==
  phase = "review" =>
    /\ building \in {"resolve", "validate", "prepare", "build"} =>
         wheel = None \/ wheel.provenance = None
    /\ building = "recheck" => built \in Packages!Sources
    /\ building \in {"stamp", "copy"} =>
         wheel \in Packages!WheelOf(Packages!FileBytes) /\ Age(wheel.payload) <= meddling
    /\ building \in {"prepare", "build", "recheck", "stamp", "copy", "admit", "built"} =>
         Packages!DescendsFrom(claimed, floor)
    /\ wheel = None \/ wheel.provenance = None \/ Packages!DescendsFrom(claimed, floor)

\* What the review and the confirmation saw of the wheel.
ReviewedInv ==
  /\ phase # "review" =>
       /\ plan \in Packages!Plans
       /\ \/ plan.worker = None \/ plan.worker.provenance = None
          \/ Packages!DescendsFrom(claimed, floor)
  /\ phase \notin {"review", "confirm", "over"} /\ Packages!PinsWheel =>
       /\ plan.worker # None /\ plan.worker.provenance # None
       /\ plan.worker.provenance.floor = plan.floor
       /\ plan.commit \in {None, plan.worker.provenance.commit}

Creating == {"review", "confirm", "torch", "dep", "recheck", "worker"}

\* Where the manager is with an inventory of each purpose.
PhaseInv ==
  /\ purpose = "first" => phase \in Creating \cup {"inventory", "framework", "complete", "probe",
                                                   "over"}
  /\ purpose = "second" => phase \in {"inventory", "framework", "compare", "seal", "over"}
  /\ purpose \in {"live", "afterHealth"} => phase \in {"inventory", "framework", "settle", "rest",
                                                       "over"}
  /\ purpose = "health" => phase \in {"inventory", "framework", "health", "rest", "over"}
  /\ purpose = "snapshot" => phase \in {"inventory", "framework", "bind", "over"}
  /\ purpose \in {"first", "second"} => lock = None /\ bound = None

\* The worker of the inventory holds the files of the reviewed wheel.
WorkerSeen(i) ==
  Packages!PinsWheel /\ i["worker"] # None => i["worker"].bytes = plan.worker.payload

\* The inventories of a creation, in the order they are taken in.
CreationInv ==
  /\ purpose = "first" /\ phase \in {"framework", "complete"} =>
       inventory \in Packages!Sites /\ Later(inventory, site)
  /\ phase = "probe" => before \in Packages!Sites /\ Later(before, site)
  /\ purpose = "second" /\ phase # "over" =>
       {before, probed} \subseteq Packages!Sites /\ Later(before, probed)
  /\ purpose = "second" /\ phase = "inventory" => Later(probed, site)
  /\ purpose = "second" /\ phase \in {"framework", "compare", "seal"} =>
       /\ inventory \in Packages!Sites /\ Later(probed, inventory) /\ Later(inventory, site)
       /\ WorkerSeen(inventory)
  /\ phase = "seal" => inventory = probed

\* What SealIsTrue says of the lock of a sealed recipe.
LockTrue ==
  /\ \A p \in Packages!Names : lock.packages[p] # None /\ lock.packages[p].version = "pinned"
  /\ lock.packages["worker"].bytes = lock.worker.payload
  /\ lock.worker.provenance.floor = lock.floor
  /\ lock.commit \in {None, lock.worker.provenance.commit}
  /\ lock.worker.provenance = [commit |-> claimed, floor |-> floor] =>
       lock.floor \in History[claimed]

\* What is sealed, and what is probed and bound later.
LockInv ==
  /\ purpose \notin {"first", "second"} =>
       /\ lock.packages \in Packages!Sites /\ Later(lock.packages, site)
       /\ tier = "sealed" => LockTrue
  /\ purpose = "live" => lock.packages = probed
  /\ purpose = "snapshot" /\ phase # "over" =>
       probed \in Packages!Sites /\ Later(lock.packages, probed)
  /\ purpose = "snapshot" /\ phase = "inventory" => Later(probed, site)
  /\ purpose = "snapshot" /\ phase \in {"framework", "bind"} =>
       inventory \in Packages!Sites /\ Later(probed, inventory)
  /\ bound # None => \A p \in Packages!Profiled : bound[p] = probed[p]

PackagesInv ==
  PackagesTyped /\ BuilderInv /\ ReviewedInv /\ PhaseInv /\ CreationInv /\ LockInv

-----------------------------------------------------------------------------
(* Packages: bytes and inventories *)

\* The bytes that others write are told apart, by their number, from each other and from those
\* that come from the checkout, the index or the local source.
LEMMA Ages ==
  /\ \A x : Age(x) \in 0..3
  /\ \A n \in 1..3 : Age(Packages!Altered[n]) = n
  /\ \A x \in Packages!Sources : Age(x) = 0
  /\ Age(Packages!Of("artifact")) = 0 /\ Age(Packages!Of("local")) = 0
<1> DEFINE A == Packages!Altered
<1>1. /\ A[1].tracked = "altered" /\ A[2].tracked = "altered again"
      /\ A[3].tracked = "altered once more"
  BY DEF Packages!Altered, Packages!Of
<1>2. \A x : Age(x) \in 0..3
  BY DEF Age
<1>3. Age(A[1]) = 1 /\ Age(A[2]) = 2 /\ Age(A[3]) = 3
  BY <1>1 DEF Age
<1>4. \A n \in 1..3 : n = 1 \/ n = 2 \/ n = 3
  OBVIOUS
<1>5. \A x \in Packages!Sources : x.tracked \notin {A[1].tracked, A[2].tracked, A[3].tracked}
  BY <1>1, MCPackages DEF Packages!PackagesAssumption, Packages!Sources
<1>6. Packages!Of("artifact").tracked = "artifact" /\ Packages!Of("local").tracked = "local"
  BY DEF Packages!Of
<1>7. \A x \in Packages!Sources : Age(x) = 0
  BY <1>5 DEF Age
<1>8. Age(Packages!Of("artifact")) = 0 /\ Age(Packages!Of("local")) = 0
  BY <1>1, <1>6 DEF Age
<1> QED BY <1>2, <1>3, <1>4, <1>7, <1>8

\* Others make few enough changes for their bytes to differ.
LEMMA FewChanges ==
  /\ MaxMeddling \in 0..3
  /\ \A n \in 1..MaxMeddling : n \in 1..3 /\ Packages!Altered[n] \in Packages!FileBytes
  /\ Packages!Sources \subseteq Packages!FileBytes
  /\ {Packages!Of("artifact"), Packages!Of("local")} \subseteq Packages!FileBytes
<1>1. Len(Packages!Altered) = 3
  BY DEF Packages!Altered
<1>2. MaxMeddling \in 0..3
  BY <1>1, MCPackages DEF Packages!PackagesAssumption
<1> QED BY <1>2 DEF Packages!FileBytes

\* One inventory after the other: the order is that of time.
LEMMA LaterOrders ==
  /\ \A i : Later(i, i)
  /\ \A i, j, k : Later(i, j) /\ Later(j, k) => Later(i, k)
  /\ \A i \in Packages!Sites, j \in Packages!Sites : Later(i, j) /\ Later(j, i) => i = j
<1>1. \A v : Stamp(v) \in 0..4
  BY Ages DEF Stamp
<1>2. \A v : Since(v, v)
  BY DEF Since
<1>3. \A u, v, w : Since(u, v) /\ Since(v, w) => Since(u, w)
  <2> SUFFICES ASSUME NEW u, NEW v, NEW w, Since(u, v), Since(v, w) PROVE Since(u, w)
    OBVIOUS
  <2>1. Stamp(u) \in Int /\ Stamp(v) \in Int /\ Stamp(w) \in Int
    BY <1>1
  <2> QED BY <2>1 DEF Since
<1>4. \A u, v : Since(u, v) /\ Since(v, u) => u = v
  <2> SUFFICES ASSUME NEW u, NEW v, Since(u, v), Since(v, u) PROVE u = v
    OBVIOUS
  <2>1. Stamp(u) \in Int /\ Stamp(v) \in Int
    BY <1>1
  <2> QED BY <2>1 DEF Since
<1>5. \A i \in Packages!Sites, j \in Packages!Sites :
        (\A p \in Packages!Names : i[p] = j[p]) => i = j
  BY DEF Packages!Sites
<1> QED BY <1>2, <1>3, <1>4, <1>5 DEF Later

\* An installed package is altered: the site is a later one.
LEMMA AlteredLater ==
  ASSUME WheelTyped, SiteTyped, NEW p \in Packages!Names, Packages!Alter(p)
  PROVE  SiteTyped' /\ Later(site, site')
<1> DEFINE new == Packages!Altered[meddling + 1]
<1>1. /\ meddling \in 0..MaxMeddling /\ meddling < MaxMeddling /\ meddling' = meddling + 1
      /\ litter' = litter
  BY DEF Packages!Alter, Packages!Meddle, WheelTyped
<1>2. meddling + 1 \in 1..MaxMeddling
  BY <1>1, FewChanges
<1>3. new \in Packages!FileBytes /\ Age(new) = meddling + 1
  BY <1>2, FewChanges, Ages
<1>4. site[p] # None /\ site[p] \in Packages!Installed /\ Age(site[p].bytes) <= meddling
  BY DEF SiteTyped, Packages!Alter, Packages!Sites
<1>5. PICK v \in Packages!Installed \cup {None} :
        site' = [site EXCEPT ![p] = v] /\ (v = None \/ v.bytes = new)
  <2> HIDE DEF new
  <2>1. PICK v : /\ site' = [site EXCEPT ![p] = v]
                 /\ v \in {[site[p] EXCEPT !.bytes = new], Packages!Intact(new, site[p].version),
                           Packages!Intact(new, "other"), None}
    BY DEF Packages!Alter, new
  <2>2. [site[p] EXCEPT !.bytes = new] \in Packages!Installed
        /\ [site[p] EXCEPT !.bytes = new].bytes = new
    BY <1>3, <1>4 DEF Packages!Installed
  <2>3. \A x \in {"pinned", "other"} : /\ Packages!Intact(new, x) \in Packages!Installed
                                       /\ Packages!Intact(new, x).bytes = new
    BY <1>3 DEF Packages!Installed, Packages!Intact
  <2>4. site[p].version \in {"pinned", "other"}
    BY <1>4 DEF Packages!Installed
  <2> QED BY <2>1, <2>2, <2>3, <2>4
<1>6. site' \in Packages!Sites
  BY <1>5 DEF SiteTyped, Packages!Sites
<1>7. site'[p] = v /\ \A q \in Packages!Names \ {p} : site'[q] = site[q]
  BY <1>5 DEF SiteTyped, Packages!Sites
<1>8. Stamp(v) > Stamp(site[p])
  BY <1>1, <1>3, <1>4, <1>5, FewChanges, Ages DEF Stamp
<1>9. \A q \in Packages!Names : site'[q] = None \/ Age(site'[q].bytes) <= meddling'
  <2> SUFFICES ASSUME NEW q \in Packages!Names, site'[q] # None
               PROVE  Age(site'[q].bytes) <= meddling'
    OBVIOUS
  <2>1. CASE q = p
    BY <2>1, <1>1, <1>3, <1>5, <1>7
  <2>2. CASE q # p
    <3>1. Age(site[q].bytes) <= meddling /\ site'[q] = site[q]
      BY <2>2, <1>7 DEF SiteTyped
    <3> QED BY <3>1, <1>1, Ages, FewChanges
  <2> QED BY <2>1, <2>2
<1>10. Later(site, site')
  BY <1>7, <1>8 DEF Later, Since
<1> QED BY <1>1, <1>6, <1>9, <1>10 DEF SiteTyped

-----------------------------------------------------------------------------
(* Packages: the builder and the checkout *)

\* What the builder and the others do to the checkout changes nothing of the environment's.
LEMMA BuilderKeeps ==
  ASSUME PackagesTyped, BuilderInv, phase = "review", Packages!Building,
         UNCHANGED Packages!packageVars
  PROVE  WheelTyped' /\ BuilderInv'
<1>1. /\ Packages!WheelTypeOK /\ WheelTyped /\ meddling' = meddling /\ phase' = phase
      /\ meddling \in 0..MaxMeddling
  BY DEF PackagesTyped, WheelTyped, Packages!packageVars
<1>2. CASE Packages!ResolveHead
  BY <1>1, <1>2 DEF Packages!ResolveHead, Packages!Next_, Packages!checkout, WheelTyped,
     Packages!WheelTypeOK, BuilderInv
<1>3. CASE Packages!ValidateSource
  BY <1>1, <1>3 DEF Packages!ValidateSource, Packages!Next_, Packages!Refuse, Packages!checkout,
     WheelTyped, Packages!WheelTypeOK, BuilderInv
<1>4. CASE Packages!PrepareDestination
  BY <1>1, <1>4 DEF Packages!PrepareDestination, Packages!Next_, Packages!Refuse,
     Packages!checkout, WheelTyped, Packages!WheelTypeOK, BuilderInv
<1>5. CASE Packages!BuildWheel
  <2>1. [tracked |-> tree, extra |-> untracked] \in Packages!Sources
    BY <1>1 DEF Packages!WheelTypeOK, Packages!Sources
  <2> QED BY <1>1, <1>5, <2>1 DEF Packages!BuildWheel, Packages!Next_, Packages!Refuse,
          Packages!checkout, WheelTyped, Packages!WheelTypeOK, BuilderInv
<1>6. CASE Packages!RecheckSource
  <2>1. built \in Packages!FileBytes /\ Age(built) = 0
    BY <1>6, FewChanges, Ages DEF Packages!RecheckSource, BuilderInv
  <2>2. PICK w : w = [payload |-> built, provenance |-> None, sealed |-> FALSE]
    OBVIOUS
  <2>3. w \in Packages!WheelOf(Packages!FileBytes) /\ w.payload = built /\ w.provenance = None
        /\ w.sealed \in BOOLEAN
    BY <2>1, <2>2 DEF Packages!WheelOf
  <2>4. \/ wheel' = w /\ building' = "stamp"
        \/ wheel' = wheel /\ building' = "refused"
    BY <1>6, <2>2 DEF Packages!RecheckSource, Packages!Next_, Packages!Refuse
  <2>5. UNCHANGED <<head, tree, untracked, moves, floor, claimed, built, beside>>
    BY <1>6 DEF Packages!RecheckSource, Packages!Refuse, Packages!checkout
  <2>6. Age(w.payload) <= meddling
    BY <2>1, <2>3, <1>1, FewChanges
  <2>7. WheelTyped'
    BY <1>1, <2>3, <2>4, <2>5, <2>6 DEF WheelTyped, Packages!WheelTypeOK
  <2>8. BuilderInv'
    BY <1>1, <1>6, <2>3, <2>4, <2>5, <2>6 DEF BuilderInv, Packages!RecheckSource
  <2> QED BY <2>7, <2>8
<1>7. CASE Packages!StampWheel
  <2>1. wheel \in Packages!WheelOf(Packages!FileBytes)
    BY <1>7 DEF Packages!StampWheel, BuilderInv
  <2>2. PICK w : w = [payload |-> wheel.payload, sealed |-> TRUE,
                      provenance |-> [commit |-> claimed, floor |-> floor]]
    OBVIOUS
  <2>3. [commit |-> claimed, floor |-> floor] \in Packages!Provenances
    BY <1>1 DEF Packages!WheelTypeOK, Packages!Provenances
  <2>4. w \in Packages!WheelOf(Packages!FileBytes) /\ w.payload = wheel.payload
        /\ w.sealed \in BOOLEAN
    BY <2>1, <2>2, <2>3 DEF Packages!WheelOf
  <2>5. /\ wheel' = w /\ building' = "copy" /\ building = "stamp"
        /\ UNCHANGED <<head, tree, untracked, moves, floor, claimed, built, beside>>
    BY <1>7, <2>2 DEF Packages!StampWheel, Packages!Next_, Packages!checkout
  <2>6. Age(w.payload) <= meddling
    BY <2>4, <2>5 DEF BuilderInv
  <2>7. WheelTyped'
    BY <1>1, <2>4, <2>5, <2>6 DEF WheelTyped, Packages!WheelTypeOK
  <2>8. BuilderInv'
    BY <1>1, <2>4, <2>5, <2>6 DEF BuilderInv
  <2> QED BY <2>7, <2>8
<1>8. CASE Packages!CopyProvenance
  <2>1. wheel \in Packages!WheelOf(Packages!FileBytes)
    BY <1>8 DEF Packages!CopyProvenance, BuilderInv
  <2>2. beside' \in Packages!Provenances \cup {None}
    BY <1>8, <2>1 DEF Packages!CopyProvenance, Packages!WheelOf
  <2> QED BY <1>1, <1>8, <2>2 DEF Packages!CopyProvenance, Packages!Next_, Packages!checkout,
          WheelTyped, Packages!WheelTypeOK, BuilderInv
<1>9. CASE Packages!AdmitBuilt
  BY <1>1, <1>9 DEF Packages!AdmitBuilt, Packages!Next_, Packages!Refuse, Packages!checkout,
     WheelTyped, Packages!WheelTypeOK, BuilderInv
<1> QED BY <1>2, <1>3, <1>4, <1>5, <1>6, <1>7, <1>8, <1>9 DEF Packages!Building

\* The checkout moves under the builder.
LEMMA CheckoutKeeps ==
  ASSUME PackagesTyped, BuilderInv, phase = "review", Packages!Elsewhere,
         UNCHANGED Packages!packageVars
  PROVE  WheelTyped' /\ BuilderInv'
<1>1. UNCHANGED <<building, floor, claimed, built, wheel, beside, phase, meddling>>
  BY DEF Packages!Elsewhere, Packages!Move, Packages!EditTracked, Packages!CheckOut,
         Packages!LeaveUntracked, Packages!builderVars, Packages!packageVars
<1>2. /\ head' \in Packages!Commits /\ tree' \in Packages!Commits \cup {"edited"}
      /\ untracked' \in BOOLEAN /\ moves' \in 0..MaxMoves
  <2>1. /\ head \in Packages!Commits /\ tree \in Packages!Commits \cup {"edited"}
        /\ untracked \in BOOLEAN /\ moves \in 0..MaxMoves /\ MaxMoves \in Nat
    BY MCPackages DEF Packages!PackagesAssumption, Packages!WheelAssumption, PackagesTyped,
       WheelTyped, Packages!WheelTypeOK
  <2>2. moves' \in 0..MaxMoves
    BY <2>1 DEF Packages!Elsewhere, Packages!Move, Packages!EditTracked, Packages!CheckOut,
         Packages!LeaveUntracked
  <2>3. CASE Packages!EditTracked
    BY <2>1, <2>2, <2>3 DEF Packages!EditTracked
  <2>4. CASE Packages!LeaveUntracked
    BY <2>1, <2>2, <2>4 DEF Packages!LeaveUntracked
  <2>5. CASE \E c \in Packages!Commits : Packages!CheckOut(c)
    BY <2>1, <2>2, <2>5 DEF Packages!CheckOut
  <2> QED BY <2>3, <2>4, <2>5 DEF Packages!Elsewhere
<1>3. WheelTyped'
  BY <1>1, <1>2 DEF PackagesTyped, WheelTyped, Packages!WheelTypeOK
<1>4. BuilderInv'
  BY <1>1 DEF BuilderInv
<1> QED BY <1>3, <1>4

\* Another wheel in the place of the one there was.
LEMMA SwapKeeps ==
  ASSUME WheelTyped, Packages!SwapWheel
  PROVE  WheelTyped'
<1> DEFINE new == Packages!Altered[meddling + 1]
<1>1. /\ meddling \in 0..MaxMeddling /\ meddling < MaxMeddling /\ meddling' = meddling + 1
  BY DEF Packages!SwapWheel, Packages!Meddle, WheelTyped
<1>2. meddling + 1 \in 1..MaxMeddling
  BY <1>1, FewChanges
<1>3. new \in Packages!FileBytes /\ Age(new) = meddling + 1
  BY <1>2, FewChanges, Ages
<1>4. CASE wheel = None
  <2>1. wheel' = None
    BY <1>4 DEF Packages!SwapWheel, Packages!OtherWheels
  <2> QED BY <2>1, <1>1, <1>2 DEF Packages!SwapWheel, Packages!Meddle, WheelTyped,
                                     Packages!WheelTypeOK
<1>5. CASE wheel # None
  <2>1. wheel \in Packages!WheelOf(Packages!FileBytes) /\ Age(wheel.payload) <= meddling
    BY <1>5 DEF WheelTyped
  <2>2. PICK w : w = wheel'
    OBVIOUS
  <2>3. \/ w = None \/ w = [wheel EXCEPT !.payload = new]
        \/ w = [wheel EXCEPT !.provenance = None, !.sealed = FALSE]
        \/ \E c \in Packages!Commits, f \in Packages!Commits, x \in BOOLEAN :
             w = Packages!Claiming(c, f, x)
    BY <2>2, <1>5 DEF Packages!SwapWheel, Packages!OtherWheels
  <2>4. \A c \in Packages!Commits, f \in Packages!Commits :
          [commit |-> c, floor |-> f] \in Packages!Provenances
    BY DEF Packages!Provenances
  <2> HIDE DEF new
  <2>5. w = None \/ w \in Packages!WheelOf(Packages!FileBytes)
    BY <1>3, <2>1, <2>3, <2>4 DEF Packages!WheelOf, Packages!Claiming
  <2>6. w = None \/ w.payload \in {new, wheel.payload}
    BY <2>1, <2>3 DEF Packages!WheelOf, Packages!Claiming
  <2>7. w = None \/ Age(w.payload) <= meddling'
    BY <2>6, <2>1, <1>1, <1>3, Ages, FewChanges
  <2>8. w = None \/ w.sealed \in BOOLEAN
    BY <2>5 DEF Packages!WheelOf
  <2>9. Packages!WheelTypeOK'
    BY <2>2, <2>8 DEF Packages!SwapWheel, Packages!Meddle, WheelTyped,
                                     Packages!WheelTypeOK
  <2> QED BY <2>2, <2>5, <2>7, <2>9, <1>1, <1>2 DEF WheelTyped
<1> QED BY <1>4, <1>5

-----------------------------------------------------------------------------
(* Packages: the manager creates an environment *)

\* What the manager's steps leave alone.
LEMMA ManagingRests ==
  ASSUME PackagesInv, UNCHANGED Packages!wheelVars, meddling' = meddling, phase' # "review"
  PROVE  /\ WheelTyped' /\ BuilderInv'
         /\ UNCHANGED <<site, litter>> => SiteTyped'
         /\ UNCHANGED <<plan, tier>> /\ phase \notin {"review", "confirm", "over"} => ReviewedInv'
<1>1. UNCHANGED <<head, tree, untracked, moves, building, floor, claimed, built, wheel, beside>>
  BY DEF Packages!wheelVars
<1>2. WheelTyped'
  BY <1>1 DEF PackagesInv, PackagesTyped, WheelTyped, Packages!WheelTypeOK
<1>3. BuilderInv'
  BY DEF BuilderInv
<1>4. UNCHANGED <<site, litter>> => SiteTyped'
  BY DEF PackagesInv, PackagesTyped, SiteTyped
<1>5. UNCHANGED <<plan, tier>> /\ phase \notin {"review", "confirm", "over"} => ReviewedInv'
  BY <1>1 DEF PackagesInv, ReviewedInv, Packages!PinsWheel, Packages!DescendsFrom
<1> QED BY <1>2, <1>3, <1>4, <1>5

\* Up to the first inventory nothing is known and nothing is sealed.
LEMMA CreatingRests ==
  ASSUME PackagesInv, phase \in Creating, phase' \in Creating \cup {"inventory", "over"},
         UNCHANGED <<purpose, lock, bound, inventory, before, probed>>
  PROVE  SeenTyped' /\ PhaseInv' /\ CreationInv' /\ LockInv'
<1>1. purpose = "first"
  BY DEF PackagesInv, PhaseInv, PackagesTyped, ManagerTyped, Creating
<1>2. SeenTyped'
  BY DEF PackagesInv, PackagesTyped, SeenTyped
<1>3. PhaseInv'
  BY <1>1 DEF PackagesInv, PhaseInv
<1>4. CreationInv'
  BY <1>1 DEF CreationInv, Creating
<1>5. LockInv'
  BY <1>1 DEF LockInv, PackagesInv, PhaseInv
<1> QED BY <1>2, <1>3, <1>4, <1>5

\* The review of a recipe and of the wheel.
LEMMA ReviewKeeps == ASSUME PackagesInv, Packages!Review PROVE PackagesInv'
<1>1. /\ phase = "review" /\ phase' = "confirm" /\ UNCHANGED Packages!wheelVars
      /\ UNCHANGED <<tier, site, litter, reported, inventory, before, lock, state, probed, purpose,
                     bound, meddling>>
      /\ Packages!PinsWheel => building \in {"built", "refused"}
  BY DEF Packages!Review, Packages!To
<1> DEFINE worker == IF Packages!PinsWheel THEN Packages!Identity(wheel) ELSE None
<1>2. PICK f \in Packages!Commits \cup {None}, c \in Packages!Commits \cup {None},
           fits \in BOOLEAN :
        plan' = Packages!Resolution(worker, f, c, fits)
  BY DEF Packages!Review
<1>3. worker = None \/ (worker = wheel /\ Packages!PinsWheel)
  BY DEF Packages!Identity
<1> HIDE DEF worker
<1>4. worker \in Packages!WheelOf(Packages!FileBytes) \cup {None}
  BY <1>3 DEF PackagesInv, PackagesTyped, WheelTyped
<1>5. plan' \in Packages!Plans /\ plan'.worker = worker
  <2>1. PICK r \in BOOLEAN : r = (/\ fits
                                  /\ (f # None) = (tier = "sealed")
                                  /\ c # None => tier = "sealed"
                                  /\ Packages!PinsWheel => worker # None)
    BY Zenon
  <2>2. plan' = [worker |-> worker, floor |-> IF tier = "sealed" THEN f ELSE None,
                 commit |-> IF tier = "sealed" THEN c ELSE None, resolvable |-> r]
    BY <1>2, <2>1, Zenon DEF Packages!Resolution
  <2> QED BY <1>4, <2>2 DEF Packages!Plans
<1>6. worker = None \/ worker.provenance = None \/ Packages!DescendsFrom(claimed, floor)
  BY <1>1, <1>3 DEF PackagesInv, BuilderInv
<1>7. WheelTyped' /\ BuilderInv' /\ SiteTyped'
  BY <1>1, ManagingRests
<1>8. ReviewedInv'
  BY <1>1, <1>5, <1>6 DEF ReviewedInv, Packages!DescendsFrom, Packages!wheelVars
<1>9. SeenTyped' /\ PhaseInv' /\ CreationInv' /\ LockInv'
  BY <1>1, CreatingRests DEF Creating
<1>10. ManagerTyped'
  BY <1>1, <1>5 DEF PackagesInv, PackagesTyped, ManagerTyped, Packages!Phases
<1> QED BY <1>7, <1>8, <1>9, <1>10 DEF PackagesInv, PackagesTyped

\* The confirmation of a reviewed plan.
LEMMA ConfirmKeeps == ASSUME PackagesInv, Packages!Confirm PROVE PackagesInv'
<1>1. /\ phase = "confirm" /\ phase' \in {"torch", "over", "rest"}
      /\ state' \in {"installing", "planned"} /\ UNCHANGED Packages!wheelVars
      /\ UNCHANGED <<tier, plan, site, litter, reported, inventory, before, lock, probed, purpose,
                     bound, meddling>>
  BY DEF Packages!Confirm, Packages!To, Packages!Ends
<1>2. lock = None /\ purpose = "first"
  BY <1>1 DEF PackagesInv, PhaseInv, PackagesTyped, ManagerTyped
<1>3. phase' \in {"torch", "over"}
  BY <1>1, <1>2 DEF Packages!Confirm, Packages!To, Packages!Ends
<1>4. WheelTyped' /\ BuilderInv' /\ SiteTyped'
  BY <1>1, <1>3, ManagingRests
<1>5. SeenTyped' /\ PhaseInv' /\ CreationInv' /\ LockInv'
  BY <1>1, <1>3, CreatingRests DEF Creating
<1>6. ManagerTyped'
  BY <1>1, <1>3 DEF PackagesInv, PackagesTyped, ManagerTyped, Packages!Phases
<1>7. ASSUME phase' = "torch", Packages!PinsWheel
      PROVE  /\ plan.worker # None /\ plan.worker.provenance # None
             /\ plan.worker.provenance.floor = plan.floor
             /\ plan.commit \in {None, plan.worker.provenance.commit}
  <2>1. /\ Packages!Identity(wheel) = plan.worker /\ plan.floor # None
        /\ Packages!Admissible(wheel, beside, plan.floor, plan.commit)
    BY <1>2, <1>7 DEF Packages!Confirm, Packages!Ends, Packages!To
  <2> QED BY <2>1 DEF Packages!Admissible, Packages!Identity
<1>8. ReviewedInv'
  BY <1>1, <1>3, <1>7 DEF PackagesInv, ReviewedInv, Packages!DescendsFrom, Packages!wheelVars,
     Packages!PinsWheel
<1> QED BY <1>4, <1>5, <1>6, <1>8 DEF PackagesInv, PackagesTyped

\* pip installs packages: what it writes is older than what others write there.
LEMMA InstallKeeps ==
  ASSUME PackagesInv, NEW packages \in SUBSET Packages!Names, NEW contents,
         \A p \in packages : contents[p] \in Packages!FileBytes /\ Age(contents[p]) <= meddling,
         NEW version \in {"pinned", "other"}, NEW hasReport,
         NEW next \in Creating \cup {"inventory"},
         next \notin {"review", "confirm"},
         phase \in Creating \ {"review", "confirm"},
         Packages!InstallPackages(packages, contents, version, hasReport, next),
         UNCHANGED Packages!wheelVars,
         UNCHANGED <<tier, plan, litter, inventory, before, lock, probed, purpose, bound, meddling>>
  PROVE  PackagesInv'
<1>1. purpose = "first" /\ lock = None
  BY DEF PackagesInv, PhaseInv, PackagesTyped, ManagerTyped, Creating
<1>2. /\ phase' \in {next, "over"} /\ state' \in {state, "broken"}
      /\ site' = [p \in Packages!Names |->
                    IF p \in packages THEN Packages!Intact(contents[p], version) ELSE site[p]]
  BY <1>1 DEF Packages!InstallPackages, Packages!Ends, Packages!To
<1>3. \A p \in Packages!Names : \/ reported'[p] = None \/ reported'[p] = reported[p]
                                \/ reported'[p].version = version
  BY DEF Packages!InstallPackages
<1>4. \A p \in packages : /\ Packages!Intact(contents[p], version) \in Packages!Installed
                          /\ Packages!Intact(contents[p], version).bytes = contents[p]
  BY DEF Packages!Intact, Packages!Installed
<1>5. SiteTyped'
  BY <1>2, <1>4 DEF PackagesInv, PackagesTyped, SiteTyped, Packages!Sites
<1>6. /\ phase' \in Packages!Phases /\ phase' # "review"
      /\ phase' \in Creating \cup {"inventory", "over"}
  BY <1>2 DEF Creating, Packages!Phases
<1>7. ManagerTyped'
  BY <1>2, <1>3, <1>6 DEF PackagesInv, PackagesTyped, ManagerTyped
<1>8. WheelTyped' /\ BuilderInv' /\ ReviewedInv'
  BY <1>6, ManagingRests DEF Creating
<1>9. SeenTyped' /\ PhaseInv' /\ CreationInv' /\ LockInv'
  BY <1>6, CreatingRests
<1> QED BY <1>5, <1>7, <1>8, <1>9 DEF PackagesInv, PackagesTyped

\* An install step that fails for another reason.
LEMMA BrokenKeeps ==
  ASSUME PackagesInv, phase \in Creating \ {"review", "confirm"}, Packages!Broken,
         UNCHANGED Packages!wheelVars
  PROVE  PackagesInv'
<1>1. purpose = "first" /\ lock = None
  BY DEF PackagesInv, PhaseInv, PackagesTyped, ManagerTyped, Creating
<1>2. /\ phase' = "over" /\ state' = "broken"
      /\ UNCHANGED <<tier, plan, site, litter, reported, inventory, before, lock, probed, purpose,
                     bound, meddling>>
  BY <1>1 DEF Packages!Broken, Packages!Ends, Packages!To
<1>3. ManagerTyped'
  BY <1>2 DEF PackagesInv, PackagesTyped, ManagerTyped, Packages!Phases
<1>4. WheelTyped' /\ BuilderInv' /\ SiteTyped' /\ ReviewedInv'
  BY <1>2, ManagingRests DEF Creating
<1>5. SeenTyped' /\ PhaseInv' /\ CreationInv' /\ LockInv'
  BY <1>2, CreatingRests DEF Creating
<1> QED BY <1>3, <1>4, <1>5 DEF PackagesInv, PackagesTyped

\* torch, then what else is needed, from the index.
LEMMA FromIndexKeeps ==
  ASSUME PackagesInv, Packages!InstallTorch \/ Packages!InstallDependencies
  PROVE  PackagesInv'
<1>1. \A packages \in SUBSET Packages!Names : \A p \in packages :
        /\ Packages!FromIndex[p] \in Packages!FileBytes
        /\ Age(Packages!FromIndex[p]) <= meddling
  BY Ages, FewChanges DEF Packages!FromIndex, PackagesInv, PackagesTyped, WheelTyped
<1>2. Packages!Choosable \subseteq {"pinned", "other"}
  BY DEF Packages!Choosable
<1>3. CASE Packages!InstallTorch
  <2>1. CASE Packages!Broken
    BY <1>3, <2>1, BrokenKeeps DEF Packages!InstallTorch, Creating
  <2>2. CASE ~Packages!Broken
    <3>1. PICK v \in Packages!Choosable, hasReport \in BOOLEAN :
            Packages!InstallPackages({"torch"}, Packages!FromIndex, v, hasReport, "dep")
      BY <1>3, <2>2 DEF Packages!InstallTorch
    <3>2. /\ phase = "torch" /\ UNCHANGED Packages!wheelVars
          /\ UNCHANGED <<tier, plan, litter, inventory, before, lock, probed, purpose, bound,
                         meddling>>
      BY <1>3, <2>2 DEF Packages!InstallTorch
    <3>3. {"torch"} \in SUBSET Packages!Names /\ v \in {"pinned", "other"}
      BY <1>2 DEF Packages!Names
    <3>4. "torch" \in Creating \ {"review", "confirm"} /\ "dep" \in Creating \ {"review", "confirm"}
      BY DEF Creating
    <3> QED BY <3>1, <3>2, <3>3, <3>4, <1>1, InstallKeeps
  <2> QED BY <2>1, <2>2
<1>4. CASE Packages!InstallDependencies
  <2>1. PICK again \in {{}, {"torch"}}, v \in Packages!Choosable, hasReport \in BOOLEAN :
          Packages!InstallPackages({"dep"} \cup again, Packages!FromIndex, v, hasReport, "recheck")
    BY <1>4 DEF Packages!InstallDependencies
  <2>2. /\ phase = "dep" /\ UNCHANGED Packages!wheelVars
        /\ UNCHANGED <<tier, plan, litter, inventory, before, lock, probed, purpose, bound,
                       meddling>>
    BY <1>4 DEF Packages!InstallDependencies
  <2>3. {"dep"} \cup again \in SUBSET Packages!Names /\ v \in {"pinned", "other"}
    BY <1>2 DEF Packages!Names
  <2>4. "dep" \in Creating \ {"review", "confirm"} /\ "recheck" \in Creating \ {"review", "confirm"}
    BY DEF Creating
  <2> QED BY <2>1, <2>2, <2>3, <2>4, <1>1, InstallKeeps
<1> QED BY <1>3, <1>4

\* The wheel is looked at once more.
LEMMA RecheckKeeps == ASSUME PackagesInv, Packages!RecheckWheel PROVE PackagesInv'
<1>1. CASE Packages!Broken
  BY <1>1, BrokenKeeps DEF Packages!RecheckWheel, Creating
<1>2. CASE ~Packages!Broken
  <2>1. /\ phase = "recheck" /\ phase' = "worker" /\ UNCHANGED Packages!wheelVars
        /\ UNCHANGED <<tier, plan, site, litter, reported, inventory, before, lock, state, probed,
                       purpose, bound, meddling>>
    BY <1>2 DEF Packages!RecheckWheel, Packages!To, Packages!Keep
  <2>2. ManagerTyped'
    BY <2>1 DEF PackagesInv, PackagesTyped, ManagerTyped, Packages!Phases
  <2>3. WheelTyped' /\ BuilderInv' /\ SiteTyped' /\ ReviewedInv'
    BY <2>1, ManagingRests
  <2>4. SeenTyped' /\ PhaseInv' /\ CreationInv' /\ LockInv'
    BY <2>1, CreatingRests DEF Creating
  <2> QED BY <2>2, <2>3, <2>4 DEF PackagesInv, PackagesTyped
<1> QED BY <1>1, <1>2

\* pip installs the worker, from the wheel or from the local source.
LEMMA WorkerKeeps == ASSUME PackagesInv, Packages!InstallWorker PROVE PackagesInv'
<1>1. phase = "worker" /\ UNCHANGED Packages!wheelVars
      /\ {"worker"} \in SUBSET Packages!Names
      /\ "worker" \in Creating \ {"review", "confirm"}
  BY DEF Packages!InstallWorker, Packages!Names, Creating
<1>2. CASE Packages!Broken
  BY <1>1, <1>2, BrokenKeeps
<1>3. CASE ~Packages!Broken /\ ~Packages!PinsWheel
  <2>1. PICK hasReport \in BOOLEAN :
          Packages!InstallPackages({"worker"}, [p \in Packages!Names |-> Packages!Of("local")],
                                   "pinned", hasReport, "inventory")
    BY <1>3 DEF Packages!InstallWorker
  <2>2. UNCHANGED <<tier, plan, litter, inventory, before, lock, probed, purpose, bound, meddling>>
    BY <1>3 DEF Packages!InstallWorker
  <2>3. \A p \in {"worker"} :
          /\ [q \in Packages!Names |-> Packages!Of("local")][p] \in Packages!FileBytes
          /\ Age([q \in Packages!Names |-> Packages!Of("local")][p]) <= meddling
    BY Ages, FewChanges DEF Packages!Names, PackagesInv, PackagesTyped, WheelTyped
  <2> QED BY <1>1, <2>1, <2>2, <2>3, InstallKeeps
<1>4. CASE ~Packages!Broken /\ Packages!PinsWheel
  <2>1. /\ wheel # None
        /\ Packages!InstallPackages({"worker"}, [p \in Packages!Names |-> wheel.payload],
                                    "pinned", TRUE, "inventory")
        /\ UNCHANGED <<tier, plan, litter, inventory, before, lock, probed, purpose, bound,
                       meddling>>
    BY <1>4 DEF Packages!InstallWorker, Packages!WorkerEvidence
  <2>2. \A p \in {"worker"} :
          /\ [q \in Packages!Names |-> wheel.payload][p] \in Packages!FileBytes
          /\ Age([q \in Packages!Names |-> wheel.payload][p]) <= meddling
    BY <2>1 DEF Packages!Names, PackagesInv, PackagesTyped, WheelTyped, Packages!WheelOf
  <2> QED BY <1>1, <2>1, <2>2, InstallKeeps
<1> QED BY <1>2, <1>3, <1>4

-----------------------------------------------------------------------------
(* Packages: inventories, the seal and later checks *)

Resting == UNCHANGED <<Packages!wheelVars, tier, plan, site, litter, reported, meddling>>

\* An operation ends: what was never sealed is left, what is sealed can be checked again.
LEMMA EndedKeeps ==
  ASSUME PackagesInv, Resting, phase \notin {"review", "confirm", "over"},
         phase' = IF lock = None THEN "over" ELSE "rest",
         state' \in {"unsealed", "broken", "drifted", state},
         purpose' = IF lock = None THEN purpose ELSE "health",
         UNCHANGED <<inventory, before, lock, probed, bound>>
  PROVE  PackagesInv'
<1>1. WheelTyped' /\ BuilderInv' /\ SiteTyped' /\ ReviewedInv'
  BY ManagingRests DEF Resting
<1>2. ManagerTyped' /\ SeenTyped'
  BY DEF PackagesInv, PackagesTyped, ManagerTyped, SeenTyped, Resting, Packages!Phases
<1>3. PhaseInv'
  BY DEF PackagesInv, PhaseInv
<1>4. CreationInv'
  BY DEF PackagesInv, PhaseInv, CreationInv
<1>5. LockInv'
  BY DEF PackagesInv, PhaseInv, LockInv, LockTrue, Resting, Packages!wheelVars
<1> QED BY <1>1, <1>2, <1>3, <1>4, <1>5 DEF PackagesInv, PackagesTyped

\* An inventory is taken, or the environment cannot be read.
LEMMA InventoryKeeps == ASSUME PackagesInv, Packages!TakeInventory PROVE PackagesInv'
<1>1. phase = "inventory" /\ UNCHANGED Packages!wheelVars
  BY DEF Packages!TakeInventory
<1>2. CASE Packages!Unreadable
  BY <1>1, <1>2, EndedKeeps DEF Packages!Unreadable, Packages!Ends, Packages!To, Resting
<1>3. CASE ~Packages!Unreadable
  <2>1. /\ phase' = "framework" /\ inventory' = site /\ Packages!WorkerMatches(site) /\ Resting
        /\ UNCHANGED <<before, lock, state, probed, purpose, bound>>
    BY <1>1, <1>3 DEF Packages!TakeInventory, Packages!To, Resting
  <2>2. WheelTyped' /\ BuilderInv' /\ SiteTyped' /\ ReviewedInv'
    BY <1>1, <2>1, ManagingRests DEF Resting
  <2>3. ManagerTyped' /\ SeenTyped'
    BY <2>1 DEF PackagesInv, PackagesTyped, ManagerTyped, SiteTyped, SeenTyped, Resting,
       Packages!Phases
  <2>4. PhaseInv'
    BY <1>1, <2>1 DEF PackagesInv, PhaseInv
  <2>5. Later(site, site) /\ site \in Packages!Sites
    BY LaterOrders DEF PackagesInv, PackagesTyped, SiteTyped
  <2>6. purpose = "second" => WorkerSeen(site)
    BY <2>1 DEF Packages!WorkerMatches, WorkerSeen
  <2>7. CreationInv'
    BY <1>1, <2>1, <2>5, <2>6 DEF PackagesInv, CreationInv, Resting, WorkerSeen, Packages!PinsWheel
  <2>8. LockInv'
    BY <1>1, <2>1, <2>5 DEF PackagesInv, LockInv, LockTrue, Resting, Packages!wheelVars
  <2> QED BY <2>2, <2>3, <2>4, <2>7, <2>8 DEF PackagesInv, PackagesTyped
<1> QED BY <1>2, <1>3

\* torch is imported in a process of its own.
LEMMA FrameworkKeeps == ASSUME PackagesInv, Packages!ReadFramework PROVE PackagesInv'
<1>1. phase = "framework" /\ Resting /\ UNCHANGED <<inventory, before, lock, probed, bound>>
  BY DEF Packages!ReadFramework, Resting
<1>2. CASE /\ phase' = IF lock = None THEN "over" ELSE "rest"
           /\ state' \in {"broken", state} /\ purpose' = IF lock = None THEN purpose ELSE "health"
  BY <1>1, <1>2, EndedKeeps
<1>3. CASE phase' = Packages!After /\ UNCHANGED <<state, purpose>>
  <2>1. WheelTyped' /\ BuilderInv' /\ SiteTyped' /\ ReviewedInv'
    <3>1. phase' # "review"
      BY <1>3 DEF Packages!After, PackagesInv, PackagesTyped, ManagerTyped
    <3> QED BY <1>1, <3>1, ManagingRests DEF Resting
  <2>2. ManagerTyped' /\ SeenTyped'
    BY <1>1, <1>3 DEF PackagesInv, PackagesTyped, ManagerTyped, SeenTyped, Resting,
       Packages!Phases, Packages!After
  <2>3. PhaseInv'
    BY <1>1, <1>3 DEF PackagesInv, PackagesTyped, ManagerTyped, PhaseInv, Packages!After
  <2>4. CreationInv'
    BY <1>1, <1>3 DEF PackagesInv, PackagesTyped, ManagerTyped, CreationInv, Resting, WorkerSeen,
       Packages!PinsWheel, Packages!After
  <2>5. LockInv'
    BY <1>1, <1>3 DEF PackagesInv, PackagesTyped, ManagerTyped, LockInv, LockTrue, Resting,
       Packages!wheelVars, Packages!After
  <2> QED BY <2>1, <2>2, <2>3, <2>4, <2>5 DEF PackagesInv, PackagesTyped
<1> QED BY <1>2, <1>3 DEF Packages!ReadFramework, Packages!Ends, Packages!To

\* Each package verifies before anything else is imported.
LEMMA CompleteKeeps == ASSUME PackagesInv, Packages!CheckComplete PROVE PackagesInv'
<1>1. phase = "complete" /\ UNCHANGED Packages!wheelVars
  BY DEF Packages!CheckComplete
<1>2. purpose = "first" /\ lock = None
  BY <1>1 DEF PackagesInv, PackagesTyped, ManagerTyped, PhaseInv, Creating
<1>3. CASE Packages!Broken
  BY <1>1, <1>2, <1>3, EndedKeeps DEF Packages!Broken, Packages!Ends, Packages!To, Resting
<1>4. CASE ~Packages!Broken
  <2>1. /\ phase' = "probe" /\ before' = inventory /\ Resting
        /\ UNCHANGED <<inventory, lock, state, probed, purpose, bound>>
    BY <1>1, <1>4 DEF Packages!CheckComplete, Packages!To, Resting
  <2>2. WheelTyped' /\ BuilderInv' /\ SiteTyped' /\ ReviewedInv'
    BY <1>1, <2>1, ManagingRests DEF Resting
  <2>3. ManagerTyped' /\ SeenTyped'
    BY <2>1 DEF PackagesInv, PackagesTyped, ManagerTyped, SeenTyped, Resting, Packages!Phases
  <2>4. PhaseInv' /\ LockInv'
    BY <1>1, <1>2, <2>1 DEF PackagesInv, PhaseInv, LockInv
  <2>5. CreationInv'
    BY <1>1, <1>2, <2>1 DEF PackagesInv, CreationInv, Resting
  <2> QED BY <2>2, <2>3, <2>4, <2>5 DEF PackagesInv, PackagesTyped
<1> QED BY <1>3, <1>4

\* The creation probes import what is there.
LEMMA CreationProbesKeep == ASSUME PackagesInv, Packages!ProbeCreated PROVE PackagesInv'
<1>1. /\ phase = "probe" /\ probed' = site /\ Resting
      /\ UNCHANGED <<inventory, before, lock, bound>>
  BY DEF Packages!ProbeCreated, Resting
<1>2. purpose = "first" /\ lock = None /\ bound = None
  BY <1>1 DEF PackagesInv, PackagesTyped, ManagerTyped, PhaseInv, Creating
<1>3. \/ phase' = "inventory" /\ purpose' = "second" /\ state' = state
      \/ phase' = "over" /\ purpose' = "first" /\ state' = "unsealed"
  BY <1>2 DEF Packages!ProbeCreated, Packages!Ends, Packages!To
<1>4. WheelTyped' /\ BuilderInv' /\ SiteTyped' /\ ReviewedInv'
  BY <1>1, <1>3, ManagingRests DEF Resting
<1>5. ManagerTyped' /\ SeenTyped'
  BY <1>1, <1>3 DEF PackagesInv, PackagesTyped, ManagerTyped, SiteTyped, SeenTyped, Resting,
     Packages!Phases
<1>6. PhaseInv' /\ LockInv'
  BY <1>1, <1>2, <1>3 DEF PhaseInv, LockInv
<1>7. CreationInv'
  <2>1. Later(site, site) /\ site \in Packages!Sites
    BY LaterOrders DEF PackagesInv, PackagesTyped, SiteTyped
  <2> QED BY <1>1, <1>2, <1>3, <2>1 DEF PackagesInv, CreationInv, Resting
<1> QED BY <1>4, <1>5, <1>6, <1>7 DEF PackagesInv, PackagesTyped

\* The inventories before and after the probes are the same: so is what was probed in between.
LEMMA CompareKeeps == ASSUME PackagesInv, Packages!ComparePackages PROVE PackagesInv'
<1>1. phase = "compare" /\ Resting /\ UNCHANGED <<inventory, before, lock, probed, purpose, bound>>
  BY DEF Packages!ComparePackages, Packages!Keep, Resting
<1>2. purpose = "second" /\ lock = None /\ bound = None
  BY <1>1 DEF PackagesInv, PackagesTyped, ManagerTyped, PhaseInv, Creating
<1>3. CASE before # inventory
  BY <1>1, <1>2, <1>3, EndedKeeps DEF Packages!ComparePackages, Packages!SamePackages,
     Packages!Ends, Packages!To
<1>4. CASE before = inventory
  <2>1. phase' = "seal" /\ state' = state
    BY <1>4 DEF Packages!ComparePackages, Packages!SamePackages, Packages!To, Packages!Keep
  <2>2. WheelTyped' /\ BuilderInv' /\ SiteTyped' /\ ReviewedInv'
    BY <1>1, <2>1, ManagingRests DEF Resting
  <2>3. ManagerTyped' /\ SeenTyped'
    BY <1>1, <2>1 DEF PackagesInv, PackagesTyped, ManagerTyped, SeenTyped, Resting, Packages!Phases
  <2>4. PhaseInv' /\ LockInv'
    BY <1>1, <1>2, <2>1 DEF PhaseInv, LockInv
  <2>5. inventory = probed
    BY <1>1, <1>2, <1>4, LaterOrders DEF PackagesInv, CreationInv
  <2>6. CreationInv'
    BY <1>1, <1>2, <2>1, <2>5 DEF PackagesInv, CreationInv, Resting, WorkerSeen, Packages!PinsWheel
  <2> QED BY <2>2, <2>3, <2>4, <2>6 DEF PackagesInv, PackagesTyped
<1> QED BY <1>3, <1>4

\* The lock is sealed: it holds what was probed, and what was reviewed.
LEMMA SealKeeps == ASSUME PackagesInv, Packages!SealLock PROVE PackagesInv'
<1>1. phase = "seal" /\ UNCHANGED Packages!wheelVars
  BY DEF Packages!SealLock
<1>2. purpose = "second" /\ lock = None /\ bound = None
  BY <1>1 DEF PackagesInv, PackagesTyped, ManagerTyped, PhaseInv, Creating
<1>3. CASE ~Packages!Finalizable
  BY <1>1, <1>2, <1>3, EndedKeeps DEF Packages!SealLock, Packages!Broken, Packages!Ends,
     Packages!To, Resting
<1>4. CASE Packages!Finalizable
  <2>1. /\ phase' = "inventory" /\ purpose' = "live" /\ Resting
        /\ UNCHANGED <<inventory, before, state, probed, bound>>
    BY <1>1, <1>4 DEF Packages!SealLock, Packages!To, Resting
  <2>2. /\ lock'.packages = inventory /\ lock'.worker = plan.worker /\ lock'.floor = plan.floor
        /\ lock'.commit = plan.commit
    BY <1>4 DEF Packages!SealLock
  <2>3. /\ inventory \in Packages!Sites /\ Later(inventory, site) /\ WorkerSeen(inventory)
        /\ inventory = probed
    BY <1>1, <1>2 DEF PackagesInv, CreationInv
  <2>4. WheelTyped' /\ BuilderInv' /\ SiteTyped' /\ ReviewedInv'
    BY <1>1, <2>1, ManagingRests DEF Resting
  <2>5. ManagerTyped' /\ SeenTyped'
    BY <2>1, <2>2, <2>3 DEF PackagesInv, PackagesTyped, ManagerTyped, SeenTyped, Resting,
       Packages!Phases
  <2>6. PhaseInv' /\ CreationInv'
    BY <2>1 DEF PhaseInv, CreationInv
  <2>7. ASSUME tier = "sealed" PROVE LockTrue'
    <3>1. \A p \in Packages!Names : inventory[p] # None /\ inventory[p].version = "pinned"
      BY <1>4, <2>7 DEF Packages!Finalizable
    <3>2. Packages!PinsWheel /\ "worker" \in Packages!Names
      BY <2>7 DEF Packages!PinsWheel, Packages!Names
    <3>3. inventory["worker"].bytes = plan.worker.payload
      BY <2>3, <3>1, <3>2 DEF WorkerSeen
    <3>4. /\ plan.worker # None /\ plan.worker.provenance # None
          /\ plan.worker.provenance.floor = plan.floor
          /\ plan.commit \in {None, plan.worker.provenance.commit}
          /\ Packages!DescendsFrom(claimed, floor)
      BY <1>1, <3>2 DEF PackagesInv, ReviewedInv
    <3>5. plan.worker.provenance = [commit |-> claimed, floor |-> floor] =>
            plan.floor \in History[claimed]
      BY <3>4 DEF Packages!DescendsFrom
    <3> QED BY <2>1, <2>2, <3>1, <3>3, <3>4, <3>5 DEF LockTrue, Resting, Packages!wheelVars
  <2>8. LockInv'
    BY <1>2, <2>1, <2>2, <2>3, <2>7 DEF LockInv, Resting
  <2> QED BY <2>4, <2>5, <2>6, <2>8 DEF PackagesInv, PackagesTyped
<1> QED BY <1>3, <1>4

\* The verdict of a live inventory.
LEMMA SettleKeeps == ASSUME PackagesInv, Packages!Settle PROVE PackagesInv'
<1>1. /\ phase = "settle" /\ phase' = "rest" /\ Resting
      /\ state' \in {"drifted", "verified", "degraded"}
      /\ UNCHANGED <<inventory, before, lock, probed, purpose, bound>>
  BY DEF Packages!Settle, Packages!To, Resting
<1>2. purpose \in {"live", "afterHealth"}
  BY <1>1 DEF PackagesInv, PackagesTyped, ManagerTyped, PhaseInv, Creating
<1>3. WheelTyped' /\ BuilderInv' /\ SiteTyped' /\ ReviewedInv'
  BY <1>1, ManagingRests DEF Resting
<1>4. ManagerTyped' /\ SeenTyped'
  BY <1>1 DEF PackagesInv, PackagesTyped, ManagerTyped, SeenTyped, Resting, Packages!Phases
<1>5. PhaseInv' /\ CreationInv'
  BY <1>1, <1>2 DEF PhaseInv, CreationInv
<1>6. LockInv'
  BY <1>1, <1>2 DEF PackagesInv, LockInv, LockTrue, Resting, Packages!wheelVars
<1> QED BY <1>3, <1>4, <1>5, <1>6 DEF PackagesInv, PackagesTyped

\* A later check begins.
LEMMA StartKeeps == ASSUME PackagesInv, Packages!StartHealth PROVE PackagesInv'
<1>1. /\ phase = "rest" /\ phase' = "inventory" /\ purpose' = "health" /\ Resting
      /\ UNCHANGED <<inventory, before, lock, state, probed, bound>>
  BY DEF Packages!StartHealth, Packages!To, Resting
<1>2. purpose \notin {"first", "second"}
  BY <1>1 DEF PackagesInv, PhaseInv, Creating
<1>3. WheelTyped' /\ BuilderInv' /\ SiteTyped' /\ ReviewedInv'
  BY <1>1, ManagingRests DEF Resting
<1>4. ManagerTyped' /\ SeenTyped'
  BY <1>1 DEF PackagesInv, PackagesTyped, ManagerTyped, SeenTyped, Resting, Packages!Phases
<1>5. PhaseInv' /\ CreationInv'
  BY <1>1 DEF PhaseInv, CreationInv
<1>6. LockInv'
  BY <1>1, <1>2 DEF PackagesInv, LockInv, LockTrue, Resting, Packages!wheelVars
<1> QED BY <1>3, <1>4, <1>5, <1>6 DEF PackagesInv, PackagesTyped

\* The probes of a later check, unless the environment has drifted.
LEMMA HealthKeeps == ASSUME PackagesInv, Packages!HealthProbes PROVE PackagesInv'
<1>1. phase = "health" /\ Resting /\ bound' = None /\ UNCHANGED <<inventory, before, lock>>
  BY DEF Packages!HealthProbes, Resting
<1>2. purpose = "health"
  BY <1>1 DEF PackagesInv, PackagesTyped, ManagerTyped, PhaseInv, Creating
<1>3. \/ phase' = "rest" /\ state' = "drifted" /\ UNCHANGED <<probed, purpose>>
      \/ phase' = "inventory" /\ purpose' = "afterHealth" /\ probed' = site /\ state' = state
  BY DEF Packages!HealthProbes, Packages!To
<1>4. WheelTyped' /\ BuilderInv' /\ SiteTyped' /\ ReviewedInv'
  BY <1>1, <1>3, ManagingRests DEF Resting
<1>5. ManagerTyped' /\ SeenTyped'
  BY <1>1, <1>2, <1>3 DEF PackagesInv, PackagesTyped, ManagerTyped, SiteTyped, SeenTyped, Resting,
     Packages!Phases
<1>6. PhaseInv' /\ CreationInv'
  BY <1>1, <1>2, <1>3 DEF PhaseInv, CreationInv
<1>7. LockInv'
  BY <1>1, <1>2, <1>3 DEF PackagesInv, LockInv, LockTrue, Resting, Packages!wheelVars
<1> QED BY <1>4, <1>5, <1>6, <1>7 DEF PackagesInv, PackagesTyped

\* The capability probes import what is there.
LEMMA SnapshotKeeps == ASSUME PackagesInv, Packages!Snapshot PROVE PackagesInv'
<1>1. /\ phase = "rest" /\ purpose = "afterHealth" /\ phase' = "inventory" /\ purpose' = "snapshot"
      /\ probed' = site /\ Resting /\ bound' = None /\ UNCHANGED <<inventory, before, lock, state>>
  BY DEF Packages!Snapshot, Packages!To, Resting
<1>2. WheelTyped' /\ BuilderInv' /\ SiteTyped' /\ ReviewedInv'
  BY <1>1, ManagingRests DEF Resting
<1>3. ManagerTyped' /\ SeenTyped'
  BY <1>1 DEF PackagesInv, PackagesTyped, ManagerTyped, SiteTyped, SeenTyped, Resting,
     Packages!Phases
<1>4. PhaseInv' /\ CreationInv'
  BY <1>1 DEF PhaseInv, CreationInv
<1>5. Later(site, site) /\ site \in Packages!Sites
  BY LaterOrders DEF PackagesInv, PackagesTyped, SiteTyped
<1>6. LockInv'
  BY <1>1, <1>5 DEF PackagesInv, LockInv, LockTrue, Resting, Packages!wheelVars
<1> QED BY <1>2, <1>3, <1>4, <1>6 DEF PackagesInv, PackagesTyped

\* A report is bound to the locked packages: those are what the capability probes imported, for
\* the lock is older than that, and the inventory that agrees with it is newer.
LEMMA BindKeeps == ASSUME PackagesInv, Packages!Bind PROVE PackagesInv'
<1>1. /\ phase = "bind" /\ phase' = "rest" /\ purpose' = "health" /\ Resting
      /\ UNCHANGED <<inventory, before, lock, state, probed>>
  BY DEF Packages!Bind, Packages!To, Resting
<1>2. purpose = "snapshot"
  BY <1>1 DEF PackagesInv, PackagesTyped, ManagerTyped, PhaseInv, Creating
<1>3. /\ lock.packages \in Packages!Sites /\ probed \in Packages!Sites
      /\ inventory \in Packages!Sites /\ Later(lock.packages, probed) /\ Later(probed, inventory)
  BY <1>1, <1>2 DEF PackagesInv, LockInv
<1>4. \/ bound' = None
      \/ /\ inventory = lock.packages
         /\ bound' = [p \in Packages!Profiled |->
                        IF probed[p] # None THEN lock.packages[p] ELSE None]
  BY DEF Packages!Bind, Packages!Drift
<1>5. inventory = lock.packages => probed = lock.packages
  BY <1>3, LaterOrders
<1>6. bound' = None \/ \A p \in Packages!Profiled : bound'[p] = probed[p]
  BY <1>4, <1>5
<1>7. \A p \in Packages!Profiled : probed[p] \in Packages!Installed \cup {None}
  BY <1>3 DEF Packages!Sites, Packages!Profiled, Packages!Names
<1>8. WheelTyped' /\ BuilderInv' /\ SiteTyped' /\ ReviewedInv'
  BY <1>1, ManagingRests DEF Resting
<1>9. ManagerTyped' /\ SeenTyped'
  BY <1>1, <1>6, <1>7 DEF PackagesInv, PackagesTyped, ManagerTyped, SeenTyped, Resting,
     Packages!Phases
<1>10. PhaseInv' /\ CreationInv'
  BY <1>1 DEF PhaseInv, CreationInv
<1>11. LockInv'
  BY <1>1, <1>2, <1>6 DEF PackagesInv, LockInv, LockTrue, Resting, Packages!wheelVars
<1> QED BY <1>8, <1>9, <1>10, <1>11 DEF PackagesInv, PackagesTyped

\* Others at work in the environment: what was seen before stays older than what is there.
LEMMA MeddlingKeeps == ASSUME PackagesInv, Packages!Meddling PROVE PackagesInv'
<1>1. /\ phase \notin {"review", "over"} /\ UNCHANGED <<head, tree, untracked, building, floor,
         claimed, built, beside, moves, phase, tier, plan, reported, inventory, before, lock, state,
         probed, purpose, bound>>
      /\ meddling' = meddling + 1 /\ meddling < MaxMeddling
  BY DEF Packages!Meddling, Packages!SwapWheel, Packages!Litter, Packages!Alter, Packages!Meddle
<1>2. WheelTyped /\ SiteTyped /\ meddling \in 0..MaxMeddling
  BY DEF PackagesInv, PackagesTyped, WheelTyped
<1>3. ASSUME wheel' = wheel PROVE WheelTyped'
  <2>1. wheel = None \/ Age(wheel.payload) <= meddling'
    BY <1>1, <1>2, Ages, FewChanges DEF WheelTyped
  <2> QED BY <1>1, <1>2, <1>3, <2>1, FewChanges DEF WheelTyped, Packages!WheelTypeOK
<1>4. ASSUME site' = site, litter' \in BOOLEAN PROVE SiteTyped' /\ Later(site, site')
  <2>1. \A p \in Packages!Names : site[p] = None \/ Age(site[p].bytes) <= meddling'
    BY <1>1, <1>2, Ages, FewChanges DEF SiteTyped
  <2> QED BY <1>2, <1>4, <2>1, LaterOrders DEF SiteTyped
<1>5. WheelTyped' /\ SiteTyped' /\ Later(site, site')
  <2>1. CASE Packages!SwapWheel
    BY <2>1, <1>2, <1>4, SwapKeeps DEF Packages!SwapWheel, SiteTyped
  <2>2. CASE Packages!Litter
    BY <2>2, <1>3, <1>4 DEF Packages!Litter
  <2>3. CASE \E p \in Packages!Names : Packages!Alter(p)
    BY <2>3, <1>2, <1>3, AlteredLater DEF Packages!Alter
  <2> QED BY <2>1, <2>2, <2>3 DEF Packages!Meddling
<1>6. BuilderInv'
  BY <1>1 DEF BuilderInv
<1>7. ManagerTyped' /\ SeenTyped' /\ PhaseInv' /\ ReviewedInv'
  BY <1>1 DEF PackagesInv, PackagesTyped, ManagerTyped, SeenTyped, PhaseInv, ReviewedInv,
     Packages!DescendsFrom, Packages!PinsWheel
<1>8. \A i : Later(i, site) => Later(i, site')
  BY <1>5, LaterOrders
<1>9. CreationInv'
  BY <1>1, <1>8 DEF PackagesInv, CreationInv, WorkerSeen, Packages!PinsWheel
<1>10. LockInv'
  BY <1>1, <1>8 DEF PackagesInv, LockInv, LockTrue
<1> QED BY <1>5, <1>6, <1>7, <1>9, <1>10 DEF PackagesInv, PackagesTyped

-----------------------------------------------------------------------------
(* Packages: the invariants hold *)

\* Nothing is planned, installed or sealed at first.
LEMMA PackagesInitially == Packages!PackagesInit => PackagesInv
<1> SUFFICES ASSUME Packages!PackagesInit PROVE PackagesInv
  OBVIOUS
<1>1. Packages!Of(head) \in Packages!Sources
  BY DEF Packages!PackagesInit, Packages!WheelInit, Packages!Of, Packages!Sources
<1>2. PICK w : w = [payload |-> Packages!Of(head), provenance |-> None, sealed |-> FALSE]
  OBVIOUS
<1>3. /\ w \in Packages!WheelOf(Packages!FileBytes) /\ w.provenance = None
      /\ w.sealed \in BOOLEAN /\ w.payload = Packages!Of(head)
  BY <1>1, <1>2, FewChanges DEF Packages!WheelOf
<1>4. wheel \in {None, w} /\ meddling = 0
  BY <1>2 DEF Packages!PackagesInit, Packages!WheelInit
<1>5. Age(w.payload) = 0
  BY <1>1, <1>3, Ages
<1>6. WheelTyped
  <2>1. MaxMoves \in Nat
    BY MCPackages DEF Packages!PackagesAssumption, Packages!WheelAssumption
  <2>2. Packages!WheelTypeOK
    <3>1. /\ head \in Packages!Commits /\ tree = head /\ untracked = FALSE
          /\ building = "resolve" /\ floor \in Packages!Commits \cup {None}
          /\ claimed = None /\ built = None /\ beside = None /\ moves = 0
      BY DEF Packages!PackagesInit, Packages!WheelInit
    <3>2. 0 \in 0..MaxMoves
      BY <2>1
    <3>3. wheel = None \/ wheel.sealed \in BOOLEAN
      BY <1>3, <1>4
    <3> QED BY <3>1, <3>2, <3>3, Zenon DEF Packages!WheelTypeOK
  <2>3. meddling \in 0..MaxMeddling
    BY <1>4, FewChanges
  <2> QED BY <1>3, <1>4, <1>5, <2>2, <2>3 DEF WheelTyped
<1>7. ManagerTyped /\ SeenTyped
  BY DEF Packages!PackagesInit, ManagerTyped, SeenTyped, Packages!Phases, Packages!Nothing
<1>8. SiteTyped
  BY DEF Packages!PackagesInit, SiteTyped, Packages!Sites, Packages!Nothing
<1>9. BuilderInv
  BY <1>3, <1>4 DEF Packages!PackagesInit, Packages!WheelInit, BuilderInv
<1>10. ReviewedInv /\ PhaseInv /\ CreationInv /\ LockInv
  BY DEF Packages!PackagesInit, ReviewedInv, PhaseInv, CreationInv, LockInv, Creating
<1> QED BY <1>6, <1>7, <1>8, <1>9, <1>10 DEF PackagesInv, PackagesTyped

\* During the review the builder and the others at the checkout change nothing else.
LEMMA BuildingKeeps ==
  ASSUME PackagesInv, phase = "review", Packages!Building \/ Packages!Elsewhere,
         UNCHANGED Packages!packageVars
  PROVE  PackagesInv'
<1>1. WheelTyped' /\ BuilderInv'
  BY BuilderKeeps, CheckoutKeeps DEF PackagesInv
<1>2. UNCHANGED <<phase, tier, plan, site, litter, reported, inventory, before, lock, state, probed,
                  purpose, bound, meddling>>
  BY DEF Packages!packageVars
<1>3. purpose = "first"
  BY DEF PackagesInv, PackagesTyped, ManagerTyped, PhaseInv, Creating
<1>4. ManagerTyped' /\ SiteTyped' /\ SeenTyped'
  BY <1>2 DEF PackagesInv, PackagesTyped, ManagerTyped, SiteTyped, SeenTyped
<1>5. PhaseInv' /\ CreationInv' /\ ReviewedInv'
  BY <1>2, <1>3 DEF PackagesInv, PhaseInv, CreationInv, ReviewedInv
<1>6. LockInv'
  BY <1>2, <1>3 DEF PackagesInv, PhaseInv, LockInv
<1> QED BY <1>1, <1>4, <1>5, <1>6 DEF PackagesInv, PackagesTyped

\* Every step keeps what is known.
LEMMA PackagesKept == ASSUME PackagesInv, Packages!PackagesNext PROVE PackagesInv'
BY BuildingKeeps, MeddlingKeeps, ReviewKeeps, ConfirmKeeps, FromIndexKeeps, RecheckKeeps,
   WorkerKeeps, InventoryKeeps, FrameworkKeeps, CompleteKeeps, CreationProbesKeep, CompareKeeps,
   SealKeeps, SettleKeeps, StartKeeps, HealthKeeps, SnapshotKeeps, BindKeeps
   DEF Packages!PackagesNext, Packages!Managing

\* The packages rest with their variables.
LEMMA PackagesRest == ASSUME PackagesInv, UNCHANGED packageVars PROVE PackagesInv'
<1>1. UNCHANGED <<head, tree, untracked, moves, building, floor, claimed, built, wheel, beside,
                  phase, tier, plan, site, litter, reported, inventory, before, lock, state,
                  probed, purpose, bound, meddling>>
  BY DEF packageVars
<1>2. PackagesTyped'
  BY <1>1 DEF PackagesInv, PackagesTyped, WheelTyped, ManagerTyped, SiteTyped, SeenTyped,
     Packages!WheelTypeOK
<1>3. BuilderInv' /\ ReviewedInv' /\ PhaseInv'
  BY <1>1 DEF PackagesInv, BuilderInv, ReviewedInv, PhaseInv, Packages!DescendsFrom,
     Packages!PinsWheel
<1>4. CreationInv' /\ LockInv'
  BY <1>1 DEF PackagesInv, CreationInv, LockInv, LockTrue, WorkerSeen, Packages!PinsWheel
<1> QED BY <1>2, <1>3, <1>4 DEF PackagesInv

\* What is known of a sealed lock is what is promised.
LEMMA PackagesSealed == PackagesInv => Packages!SealIsTrue
<1> SUFFICES ASSUME PackagesInv PROVE Packages!SealIsTrue
  OBVIOUS
<1>1. lock # None => purpose \notin {"first", "second"}
  BY DEF PackagesInv, PhaseInv
<1> QED BY <1>1 DEF PackagesInv, LockInv, LockTrue, Packages!SealIsTrue


-----------------------------------------------------------------------------
(* Probes: the invariants *)

Gradients == [Probes!Tensors -> {"finite", "none", "nonfinite", "recast"}]
Toggles == {"default", "math", "flash", "mixed"}

DidType ==
  [allowed : Toggles \cup {None}, placed : SUBSET {"base", "adapter"}, master : BOOLEAN,
   quantized : {"as claimed", "otherwise", "not"}, loss : BOOLEAN, gradients : Gradients,
   changed : SUBSET Probes!Tensors, file : {None, "altered", "exact"},
   reloaded : {None, "nonfinite", "misplaced", "placed"}]

MemoryType ==
  [baseline : {1}, peak : Probes!Readings \cup {None}, highest : 0..MaxReading, late : BOOLEAN]

Outcomes == {"pass", "environment_failure", "unsupported_configuration", "fail",
             "numerical_failure", "checkpoint_failure"}

ResultType ==
  [probe : STRING, outcome : Outcomes, claims : BOOLEAN, did : DidType, memory : MemoryType,
   restored : BOOLEAN]

Working == {"load", "train", "save"}
Ending == {"stop", "own", "merge", "take", "restore"}

\* The probe that runs, and the process as an nf4 probe found it and holds it.
ProcessInv ==
  /\ step \in Working \cup Ending => todo # <<>> /\ Probes!Executes
  /\ step \in Ending => Probes!Nf4 /\ taxonomy \in Outcomes
  /\ step \in Working \cup Ending /\ Probes!Nf4 => previous \in Toggles \X {"own", "seeded"}
  /\ step \in Working /\ Probes!Nf4 => toggles = Probes!Kernel

\* The step was taken, by an nf4 probe with its kernel alone allowed.
Stepped(done) == Probes!StepAccepted(done) /\ (Probes!Nf4 => done.allowed = Probes!Kernel)

Passes(done) == Probes!LoadAccepted(done) /\ Stepped(done) /\ Probes!SaveAccepted(done)

\* What the running probe has been through.
DoneInv ==
  /\ step \in {"train", "save"} => Probes!LoadAccepted(did)
  /\ step = "save" => Stepped(did)
  /\ step \in Ending /\ taxonomy = "pass" => Passes(did)

\* The shared peak is the largest reading as long as only the thread stores it, and once the
\* thread has ended; if it has not, nothing is known.
MemoryInv ==
  /\ (step \in Working /\ Probes!Nf4) \/ step \in {"stop", "own", "merge", "take"} =>
       peak \in Probes!Readings /\ (sampler = "sampling" => prior \in Probes!Readings)
  /\ (step \in Working /\ Probes!Nf4) \/ step = "stop" =>
       peak = highest /\ (sampler = "sampling" => prior = peak)
  /\ step \in {"own", "merge", "take"} \/ (step = "restore" /\ taxonomy = "pass") =>
       late \/ sampler = "ended"
  /\ step \in {"own", "take"} /\ ~late => peak = highest
  /\ step = "merge" => /\ mine \in [read : Probes!Readings, own : Probes!Readings]
                       /\ ~late => Probes!Larger(mine.read, mine.own) = highest
  /\ step = "restore" /\ taxonomy = "pass" =>
       measured \in Probes!Readings /\ (~late => measured = highest)

Earned(r) ==
  /\ r.claims <=> r.outcome = "pass" /\ r.probe \in Probes!ExecutionProbes
  /\ r.claims => Probes!Trained(r.did) /\ (r.probe \in Probes!Nf4Probes => Probes!Complete(r))

\* A result as it was printed, or as another version of the probes has changed it.
SameResult(r, s) ==
  /\ r.probe = s.probe /\ r.outcome = s.outcome /\ r.did = s.did /\ r.memory = s.memory
  /\ r.restored = s.restored
  /\ r.claims = s.claims \/ (r.claims = TRUE /\ s.probe \in Probes!ExecutionProbes)

PrintedInv ==
  printed = None \/
    /\ step = "reported" /\ "results" \in DOMAIN printed
    /\ printed.results \in Seq(ResultType) /\ Len(printed.results) = Len(results)
    /\ \A i \in 1..Len(results) : SameResult(printed.results[i], results[i])

\* What the manager has accepted.
AcceptedInv ==
  judged = "accepted" =>
    /\ step = "reported" /\ printed.results = results
    /\ \E i \in DOMAIN results : results[i].probe = needed /\ Probes!Complete(results[i])
    /\ printed.contract => Probes!Passed(results, "trainer_contract")
    /\ \A t \in printed.tuples : \E i \in DOMAIN results :
         results[i].claims /\ Probes!Claims(results[i].probe) = t

ProbesTyped ==
  Probes!TypeOK /\ todo \in Seq(STRING) /\ did \in DidType /\ results \in Seq(ResultType)

ResultsInv ==
  (\A i \in 1..Len(results) : Earned(results[i])) /\ PrintedInv /\ AcceptedInv

ProbesInv == ProbesTyped /\ ProcessInv /\ DoneInv /\ MemoryInv /\ ResultsInv

-----------------------------------------------------------------------------
(* Probes: the operators *)

\* The kernels that complete tuples force.
LEMMA Kernels == \A p \in Probes!Nf4Probes : Probes!Claims(p).kernel \in {"math", "flash"}
BY DEF Probes!Nf4Probes, Probes!Claims, Probes!Nf4Tuple, Probes!Tuple

\* A complete probe executes, and claims more than the others.
LEMMA Complete4 ==
  \A p \in Probes!Nf4Probes :
    /\ p \in Probes!ExecutionProbes /\ Probes!Claims(p).quantization = "nf4"
    /\ Probes!Claims(p) # Probes!Int8Tuple /\ Probes!Claims(p) # Probes!CpuTuple
BY DEF Probes!Nf4Probes, Probes!Claims, Probes!Nf4Tuple, Probes!Tuple, Probes!ExecutionProbes,
       Probes!Int8Tuple, Probes!CpuTuple

\* Nothing that a probe has not done yet can be wrong.
LEMMA NothingTyped == Probes!Nothing \in DidType
BY DEF Probes!Nothing, DidType, Gradients, Probes!Tensors

\* A set of tensors can be counted.
LEMMA SomeTensors ==
  ASSUME NEW S \in SUBSET Probes!Tensors
  PROVE  Probes!Cardinality(S) \in Nat
<1>1. Probes!Cardinality(S) = Cardinality(S)
  BY DEF Probes!Cardinality, Cardinality
<1>2. IsFiniteSet(Probes!Tensors)
  <2>1. IsFiniteSet({"first"})
    BY FS_Singleton
  <2>2. IsFiniteSet({"first"} \cup {"second"})
    BY <2>1, FS_AddElement
  <2>3. Probes!Tensors = {"first"} \cup {"second"}
    BY DEF Probes!Tensors
  <2> QED BY <2>2, <2>3
<1>3. IsFiniteSet(S)
  BY <1>2, FS_Subset
<1> QED BY <1>1, <1>3, FS_CardinalityType

-----------------------------------------------------------------------------
(* Probes: the end of a probe *)

\* What a fault adds up to stays within its bound.
LEMMA FaultsTyped ==
  ASSUME flaws \in 0..MaxFlaws, NEW n \in Nat, Probes!Faults(n)
  PROVE  flaws' \in 0..MaxFlaws
BY MCProbes DEF Probes!ProbesAssumption, Probes!Faults

\* A result that is recorded claims what was earned.
LEMMA RecordKeeps ==
  ASSUME ProbesInv, NEW how \in Outcomes, NEW done \in DidType, NEW intact \in BOOLEAN,
         Probes!Record(how, done, intact), todo # <<>>, step # "reported",
         UNCHANGED <<needed, printed, judged>>, toggles' \in Toggles, rng' \in {"own", "seeded"},
         flaws' \in 0..MaxFlaws,
         LET r == [probe |-> Probes!Running, outcome |-> how,
                   claims |-> how = "pass" /\ Probes!Executes, did |-> done,
                   memory |-> [baseline |-> 1, peak |-> measured, highest |-> highest,
                               late |-> late],
                   restored |-> intact]
         IN r.claims => Probes!Trained(done) /\ (Probes!Nf4 => Probes!Complete(r))
  PROVE  ProbesInv'
<1> DEFINE m == [baseline |-> 1, peak |-> measured, highest |-> highest, late |-> late]
           r == [probe |-> Probes!Running, outcome |-> how,
                 claims |-> how = "pass" /\ Probes!Executes, did |-> done, memory |-> m,
                 restored |-> intact]
<1>1. Probes!Running \in STRING /\ todo' \in Seq(STRING)
  BY DEF ProbesInv, ProbesTyped, Probes!Record, Probes!Running
<1>2. m \in MemoryType
  BY DEF ProbesInv, ProbesTyped, Probes!TypeOK, MemoryType
<1>3. (how = "pass" /\ Probes!Executes) \in BOOLEAN
  OBVIOUS
<1>4. /\ results' = Append(results, r) /\ step' = "next" /\ did' = Probes!Nothing
      /\ sampler' = None /\ peak' = 0 /\ prior' = 0 /\ measured' = None /\ highest' = 0
      /\ late' = FALSE
  BY DEF Probes!Record, Probes!Fresh
<1>5. r.probe = Probes!Running /\ r.outcome = how /\ r.did = done
      /\ (r.claims <=> how = "pass" /\ Probes!Executes)
  OBVIOUS
<1> HIDE DEF m
<1>6. r \in ResultType
  BY <1>1, <1>2, <1>3, Zenon DEF ResultType
<1>7. Earned(r)
  BY <1>5 DEF Earned, Probes!Executes, Probes!Nf4, m
<1> HIDE DEF r
<1>8. results' \in Seq(ResultType) /\ \A i \in 1..Len(results') : Earned(results'[i])
  <2>1. results \in Seq(ResultType) /\ \A i \in 1..Len(results) : Earned(results[i])
    BY DEF ProbesInv, ProbesTyped, ResultsInv
  <2>2. /\ Append(results, r) \in Seq(ResultType) /\ Len(Append(results, r)) = Len(results) + 1
        /\ \A i \in 1..Len(results) : Append(results, r)[i] = results[i]
        /\ Append(results, r)[Len(results) + 1] = r /\ Len(results) \in Nat
    BY <2>1, <1>6
  <2>3. ASSUME NEW i \in 1..(Len(results) + 1)
        PROVE  i \in 1..Len(results) \/ i = Len(results) + 1
    BY <2>2
  <2>4. \A i \in 1..(Len(results) + 1) : Earned(Append(results, r)[i])
    BY <1>7, <2>1, <2>2, <2>3
  <2> QED BY <1>4, <2>2, <2>4
<1>9. ProbesTyped'
  <2>1. Probes!TypeOK'
    <3>0. Probes!TypeOK
      BY DEF ProbesInv, ProbesTyped
    <3>1. (needed \in Probes!Nf4Probes \cup {None} /\ flaws \in 0..MaxFlaws)'
      BY <3>0 DEF Probes!TypeOK
    <3>2. (toggles \in {"default", "math", "flash", "mixed"} /\ rng \in {"own", "seeded"})'
      BY DEF Toggles
    <3>3. (sampler \in {None, "waiting", "sampling", "ended"})'
      BY <1>4
    <3>4. (peak \in 0..MaxReading /\ prior \in 0..MaxReading /\ highest \in 0..MaxReading)'
      BY <1>4, MCProbes DEF Probes!ProbesAssumption
    <3>5. (measured \in Probes!Readings \cup {None} /\ late \in BOOLEAN)'
      BY <1>4
    <3>6. (judged \in {None, "accepted", "refused"})'
      BY <3>0 DEF Probes!TypeOK
    <3> QED BY <1>4, <3>1, <3>2, <3>3, <3>4, <3>5, <3>6 DEF Probes!TypeOK
  <2>2. did' \in DidType
    BY <1>4, NothingTyped
  <2> QED BY <1>1, <1>8, <2>1, <2>2 DEF ProbesTyped
<1>10. (PrintedInv /\ AcceptedInv)'
  <2>1. printed = None /\ judged # "accepted"
    BY DEF ProbesInv, ResultsInv, PrintedInv, AcceptedInv
  <2> QED BY <2>1 DEF PrintedInv, AcceptedInv
<1>11. (ProcessInv /\ DoneInv /\ MemoryInv)'
  BY <1>4 DEF ProcessInv, DoneInv, MemoryInv, Working, Ending
<1> QED BY <1>8, <1>9, <1>10, <1>11 DEF ProbesInv, ResultsInv

\* What happens while a probe runs leaves the results and the report alone.
LEMMA ResultsRest ==
  ASSUME ResultsInv, step # "reported", UNCHANGED <<needed, results, printed, judged>>
  PROVE  ResultsInv'
<1>1. printed = None /\ judged # "accepted"
  BY DEF ResultsInv, PrintedInv, AcceptedInv
<1>2. \A i \in 1..Len(results') : Earned(results'[i])
  BY DEF ResultsInv
<1> QED BY <1>1, <1>2 DEF ResultsInv, PrintedInv, AcceptedInv

\* A running probe that ends: an nf4 probe goes on to measure, the others are recorded.
LEMMA EndKeeps ==
  ASSUME ProbesInv, step \in Working, NEW how \in Outcomes, NEW done \in DidType,
         Probes!End(how, done), how = "pass" => Passes(done),
         toggles' \in Toggles, UNCHANGED <<needed, rng, printed, judged>>, flaws' \in 0..MaxFlaws
  PROVE  ProbesInv'
<1>1. todo # <<>> /\ Probes!Executes /\ step # "reported"
  BY DEF ProbesInv, ProcessInv, Working
<1>2. CASE ~Probes!Nf4
  <2>1. Probes!Record(how, done, TRUE)
    BY <1>2 DEF Probes!End
  <2>2. how = "pass" => Probes!Trained(done)
    BY <1>2 DEF Passes, Stepped, Probes!LoadAccepted, Probes!StepAccepted, Probes!SaveAccepted,
                Probes!Trained
  <2> QED BY <1>1, <1>2, <2>1, <2>2, RecordKeeps DEF ProbesInv, ProbesTyped, Probes!TypeOK
<1>3. CASE Probes!Nf4
  <2>1. /\ step' = "stop" /\ taxonomy' = how /\ did' = done
        /\ UNCHANGED <<todo, previous, sampler, peak, prior, mine, measured, highest, late,
                       results>>
    BY <1>3 DEF Probes!End, Probes!memory
  <2>2. (Probes!Nf4 <=> Probes!Nf4') /\ Probes!Running' = Probes!Running /\ Probes!Executes'
    BY <1>1, <2>1 DEF Probes!Nf4, Probes!Running, Probes!Executes
  <2>3. ProbesTyped'
    BY <2>1 DEF ProbesInv, ProbesTyped, Probes!TypeOK, Toggles
  <2>4. ProcessInv'
    BY <1>1, <1>3, <2>1, <2>2 DEF ProbesInv, ProcessInv, Working, Ending
  <2>5. how = "pass" => Passes(done)'
    BY <2>1, <2>2 DEF Passes, Stepped, Probes!LoadAccepted, Probes!StepAccepted,
                      Probes!SaveAccepted, Probes!Nf4, Probes!Kernel, Probes!Present
  <2>6. DoneInv'
    BY <2>1, <2>5 DEF DoneInv
  <2>7. MemoryInv'
    BY <1>3, <2>1 DEF ProbesInv, MemoryInv, Working
  <2>8. ResultsInv'
    BY <1>1, <2>1, ResultsRest DEF ProbesInv
  <2> QED BY <2>3, <2>4, <2>6, <2>7, <2>8 DEF ProbesInv
<1> QED BY <1>2, <1>3

-----------------------------------------------------------------------------
(* Probes: the steps *)

\* A probe of one operation claims nothing.
LEMMA DiagnoseKeeps == ASSUME ProbesInv, Probes!Diagnose PROVE ProbesInv'
<1>1. /\ todo # <<>> /\ ~Probes!Executes /\ step # "reported"
      /\ UNCHANGED <<needed, printed, judged, toggles, rng>>
      /\ toggles \in Toggles /\ rng \in {"own", "seeded"} /\ flaws \in 0..MaxFlaws
  BY DEF Probes!Diagnose, Probes!At, Probes!process, ProbesInv, ProbesTyped, Probes!TypeOK, Toggles
<1>2. PICK how \in {"pass", "environment_failure", "unsupported_configuration", "fail",
                   "checkpoint_failure"} : Probes!Record(how, Probes!Nothing, TRUE)
  BY DEF Probes!Diagnose
<1>3. flaws' \in 0..MaxFlaws /\ how \in Outcomes
  BY <1>1, <1>2, FaultsTyped DEF Probes!Diagnose, Outcomes
<1> QED BY <1>1, <1>2, <1>3, NothingTyped, RecordKeeps

\* Nor does one that cannot begin.
LEMMA UnavailableKeeps == ASSUME ProbesInv, Probes!Unavailable PROVE ProbesInv'
<1>1. /\ todo # <<>> /\ step # "reported" /\ UNCHANGED <<needed, printed, judged, toggles, rng>>
      /\ toggles \in Toggles /\ rng \in {"own", "seeded"} /\ flaws \in 0..MaxFlaws
  BY DEF Probes!Unavailable, Probes!At, Probes!process, ProbesInv, ProbesTyped, Probes!TypeOK,
         Toggles
<1>2. PICK how \in {"environment_failure", "unsupported_configuration"} :
        Probes!Record(how, Probes!Nothing, TRUE)
  BY DEF Probes!Unavailable
<1>3. flaws' \in 0..MaxFlaws
  BY <1>1, FaultsTyped DEF Probes!Unavailable
<1>4. how \in Outcomes /\ how # "pass"
  BY <1>2 DEF Outcomes
<1> QED BY <1>1, <1>2, <1>3, <1>4, NothingTyped, RecordKeeps

\* An execution probe begins; an nf4 probe notes the process, and measures under one kernel.
LEMMA BeginKeeps == ASSUME ProbesInv, Probes!Begin PROVE ProbesInv'
<1>1. /\ step = "next" /\ todo # <<>> /\ Probes!Executes /\ rng' = "seeded"
      /\ did' = Probes!Nothing /\ UNCHANGED <<todo, results, needed, printed, judged>>
  BY DEF Probes!Begin, Probes!At
<1>2. toggles \in Toggles /\ rng \in {"own", "seeded"} /\ flaws \in 0..MaxFlaws /\ Probes!TypeOK
  BY DEF ProbesInv, ProbesTyped, Probes!TypeOK, Toggles
<1>3. (Probes!Nf4 <=> Probes!Nf4') /\ Probes!Executes' /\ Probes!Kernel' = Probes!Kernel
  BY <1>1 DEF Probes!Nf4, Probes!Executes, Probes!Running, Probes!Kernel
<1>4. flaws' \in 0..MaxFlaws
  BY <1>2, FaultsTyped DEF Probes!Begin
<1>5. ResultsInv'
  BY <1>1, ResultsRest DEF ProbesInv
<1>6. did' \in DidType
  BY <1>1, NothingTyped
<1>7. CASE ~Probes!Nf4
  <2>1. /\ step' = "load"
        /\ UNCHANGED <<toggles, previous, taxonomy, sampler, peak, prior, mine, measured, highest,
                       late>>
    BY <1>7 DEF Probes!Begin, Probes!memory
  <2>2. Probes!TypeOK'
    BY <1>1, <1>2, <1>4, <2>1 DEF Probes!TypeOK
  <2>3. (ProcessInv /\ DoneInv /\ MemoryInv)'
    BY <1>1, <1>3, <1>7, <2>1 DEF ProcessInv, DoneInv, MemoryInv, Working, Ending
  <2> QED BY <1>1, <1>5, <1>6, <2>2, <2>3 DEF ProbesInv, ProbesTyped
<1>8. CASE Probes!Nf4
  <2>1. previous' = <<toggles, rng>> /\ toggles' \in Toggles
    <3>1. Probes!Kernel \in Toggles
      BY <1>8, Kernels DEF Probes!Kernel, Probes!Nf4, Toggles
    <3> QED BY <1>2, <1>8, <3>1 DEF Probes!Begin, Probes!process
  <2>2. previous' \in Toggles \X {"own", "seeded"}
    BY <1>2, <2>1
  <2>3. CASE toggles' = Probes!Kernel
    <3>1. /\ step' = "load" /\ sampler' = "waiting" /\ peak' = 1 /\ highest' = 1
          /\ UNCHANGED <<taxonomy, prior, mine, measured, late>>
      BY <1>8, <2>3 DEF Probes!Begin
    <3>2. 1 \in Probes!Readings /\ 1 \in 0..MaxReading
      BY MCProbes DEF Probes!ProbesAssumption, Probes!Readings
    <3>3. Probes!TypeOK'
      BY <1>1, <1>2, <1>4, <2>1, <3>1, <3>2 DEF Probes!TypeOK, Toggles
    <3>4. (ProcessInv /\ DoneInv)'
      BY <1>1, <1>3, <1>8, <2>2, <2>3, <3>1 DEF ProcessInv, DoneInv, Working, Ending
    <3>5. MemoryInv'
      BY <3>1, <3>2 DEF MemoryInv
    <3> QED BY <1>1, <1>5, <1>6, <3>3, <3>4, <3>5 DEF ProbesInv, ProbesTyped
  <2>4. CASE toggles' # Probes!Kernel
    <3>1. /\ step' = "restore" /\ taxonomy' = "unsupported_configuration"
          /\ UNCHANGED <<sampler, peak, prior, mine, measured, highest, late>>
      BY <1>8, <2>4 DEF Probes!Begin, Probes!memory
    <3>2. Probes!TypeOK'
      BY <1>1, <1>2, <1>4, <2>1, <3>1 DEF Probes!TypeOK, Toggles
    <3>3. ProcessInv'
      BY <1>1, <1>3, <1>8, <2>2, <3>1 DEF ProcessInv, Working, Ending, Outcomes
    <3>4. DoneInv' /\ MemoryInv'
      BY <3>1 DEF DoneInv, MemoryInv, Working, Ending
    <3> QED BY <1>1, <1>5, <1>6, <3>2, <3>3, <3>4 DEF ProbesInv, ProbesTyped
  <2> QED BY <2>3, <2>4
<1> QED BY <1>7, <1>8

\* A working probe goes on with its next phase.
LEMMA GoOnKeeps ==
  ASSUME ProbesInv, step \in {"load", "train"}, NEW onward \in {"train", "save"},
         NEW done \in DidType,
         Probes!GoOn(onward, done), Probes!LoadAccepted(done), onward = "save" => Stepped(done),
         toggles' \in Toggles, Probes!Nf4 => toggles' = Probes!Kernel,
         UNCHANGED <<needed, rng, printed, judged>>, flaws' \in 0..MaxFlaws
  PROVE  ProbesInv'
<1>1. /\ step' = onward /\ did' = done
      /\ UNCHANGED <<todo, previous, taxonomy, sampler, peak, prior, mine, measured, highest, late,
                     results>>
  BY DEF Probes!GoOn, Probes!memory
<1>2. (Probes!Nf4 <=> Probes!Nf4') /\ Probes!Executes' /\ Probes!Kernel' = Probes!Kernel
  BY <1>1 DEF ProbesInv, ProcessInv, Working, Probes!Nf4, Probes!Executes, Probes!Running,
              Probes!Kernel
<1>3. Probes!TypeOK'
  BY <1>1 DEF ProbesInv, ProbesTyped, Probes!TypeOK, Toggles
<1>4. ProbesTyped'
  BY <1>1, <1>3 DEF ProbesInv, ProbesTyped
<1>5. ProcessInv'
  BY <1>1, <1>2 DEF ProbesInv, ProcessInv, Working, Ending
<1>6. Probes!LoadAccepted(done)' /\ (onward = "save" => Stepped(done)')
  BY <1>1, <1>2 DEF Probes!LoadAccepted, Stepped, Probes!StepAccepted, Probes!Running,
                    Probes!Present
<1>7. DoneInv'
  BY <1>1, <1>6 DEF DoneInv, Ending
<1>8. MemoryInv'
  BY <1>1, <1>2 DEF ProbesInv, MemoryInv, Working
<1>9. ResultsInv'
  BY <1>1, ResultsRest DEF ProbesInv
<1> QED BY <1>4, <1>5, <1>7, <1>8, <1>9 DEF ProbesInv

\* What the stack made of the model, as the probe looks at it.
LEMMA LoadKeeps == ASSUME ProbesInv, Probes!Load PROVE ProbesInv'
<1>1. /\ step = "load" /\ UNCHANGED <<needed, rng, printed, judged>> /\ flaws \in 0..MaxFlaws
      /\ did \in DidType /\ toggles \in Toggles
  BY DEF Probes!Load, Probes!At, ProbesInv, ProbesTyped, Probes!TypeOK, Toggles
<1>2. PICK flaw \in Probes!Flaws :
        /\ Probes!Faults(Probes!OneIf(flaw # "none"))
        /\ toggles' = IF flaw = "settings" THEN "mixed" ELSE toggles
        /\ IF Probes!LoadAccepted(Probes!Loaded(flaw)) /\ (Probes!Nf4 => toggles' = Probes!Kernel)
           THEN Probes!GoOn("train", Probes!Loaded(flaw))
           ELSE Probes!End("unsupported_configuration", Probes!Loaded(flaw))
  BY DEF Probes!Load
<1>3. flaws' \in 0..MaxFlaws
  BY <1>1, <1>2, FaultsTyped DEF Probes!OneIf
<1>4. toggles' \in Toggles
  BY <1>1, <1>2 DEF Toggles
<1>5. Probes!Loaded(flaw) \in DidType
  BY <1>1 DEF Probes!Loaded, DidType
<1>6. "unsupported_configuration" \in Outcomes
  BY DEF Outcomes
<1> QED BY <1>1, <1>2, <1>3, <1>4, <1>5, <1>6, GoOnKeeps, EndKeeps DEF Working

\* The one step.
LEMMA TrainKeeps == ASSUME ProbesInv, Probes!Train PROVE ProbesInv'
<1>1. /\ step = "train" /\ UNCHANGED <<needed, toggles, rng, printed, judged>>
      /\ flaws \in 0..MaxFlaws /\ did \in DidType /\ toggles \in Toggles
      /\ Probes!LoadAccepted(did) /\ (Probes!Nf4 => toggles = Probes!Kernel)
  BY DEF Probes!Train, Probes!At, Probes!process, ProbesInv, ProbesTyped, Probes!TypeOK, Toggles,
         DoneInv, ProcessInv, Working
<1>2. PICK l \in BOOLEAN, grads \in Gradients, changed \in SUBSET Probes!Tensors :
        LET done == [did EXCEPT !.allowed = toggles, !.loss = l, !.gradients = grads,
                                !.changed = changed]
        IN /\ Probes!Faults(Probes!OneIf(~l) + Probes!OneIf(changed # Probes!Present(done))
                      + Probes!Cardinality({n \in Probes!Tensors : grads[n] # "finite"}))
           /\ IF Probes!StepAccepted(done) THEN Probes!GoOn("save", done)
              ELSE Probes!End("numerical_failure", done)
  BY DEF Probes!Train, Gradients
<1> DEFINE done == [did EXCEPT !.allowed = toggles, !.loss = l, !.gradients = grads,
                               !.changed = changed]
<1>3. flaws' \in 0..MaxFlaws
  <2>1. Probes!Cardinality({n \in Probes!Tensors : grads[n] # "finite"}) \in Nat
    BY SomeTensors
  <2>2. Probes!OneIf(~l) \in Nat /\ Probes!OneIf(changed # Probes!Present(done)) \in Nat
    BY DEF Probes!OneIf
  <2>3. Probes!Faults(Probes!OneIf(~l) + Probes!OneIf(changed # Probes!Present(done))
                      + Probes!Cardinality({n \in Probes!Tensors : grads[n] # "finite"}))
    BY <1>2
  <2> HIDE DEF done
  <2> QED BY <1>1, <2>1, <2>2, <2>3, FaultsTyped
<1>4. done \in DidType
  BY <1>1 DEF DidType
<1>5. /\ done.master = did.master /\ done.placed = did.placed /\ done.quantized = did.quantized
      /\ done.allowed = toggles
  BY <1>1 DEF DidType
<1>6. Probes!LoadAccepted(done)
  BY <1>1, <1>5 DEF Probes!LoadAccepted
<1>7. Probes!StepAccepted(done) => Stepped(done)
  BY <1>1, <1>5 DEF Stepped
<1>8. "numerical_failure" \in Outcomes /\ "numerical_failure" # "pass"
  BY DEF Outcomes
<1>9. /\ Probes!StepAccepted(done) => Probes!GoOn("save", done)
      /\ ~Probes!StepAccepted(done) => Probes!End("numerical_failure", done)
  BY <1>2
<1> HIDE DEF done
<1> QED BY <1>1, <1>3, <1>4, <1>6, <1>7, <1>8, <1>9, GoOnKeeps, EndKeeps DEF Working

\* What was saved is read back, and ends the probe.
LEMMA SaveKeeps == ASSUME ProbesInv, Probes!Save PROVE ProbesInv'
<1>1. /\ step = "save" /\ UNCHANGED <<needed, toggles, rng, printed, judged>>
      /\ flaws \in 0..MaxFlaws /\ did \in DidType /\ toggles \in Toggles
      /\ Probes!LoadAccepted(did) /\ Stepped(did)
  BY DEF Probes!Save, Probes!At, Probes!process, ProbesInv, ProbesTyped, Probes!TypeOK, Toggles,
         DoneInv
<1>2. PICK file \in {None, "altered", "exact"}, reloaded \in {"nonfinite", "misplaced", "placed"} :
        LET done == [did EXCEPT !.file = file, !.reloaded = reloaded]
        IN /\ Probes!Faults(Probes!OneIf(file # "exact") + Probes!OneIf(reloaded # "placed"))
           /\ Probes!End(IF Probes!SaveAccepted(done) THEN "pass" ELSE "checkpoint_failure", done)
  BY DEF Probes!Save
<1> DEFINE done == [did EXCEPT !.file = file, !.reloaded = reloaded]
<1>3. flaws' \in 0..MaxFlaws
  <2>1. Probes!OneIf(file # "exact") \in Nat /\ Probes!OneIf(reloaded # "placed") \in Nat
    BY DEF Probes!OneIf
  <2>2. Probes!Faults(Probes!OneIf(file # "exact") + Probes!OneIf(reloaded # "placed"))
    BY <1>2
  <2> QED BY <1>1, <2>1, <2>2, FaultsTyped
<1>4. done \in DidType
  BY <1>1 DEF DidType
<1>5. /\ done.master = did.master /\ done.placed = did.placed /\ done.quantized = did.quantized
      /\ done.allowed = did.allowed /\ done.loss = did.loss /\ done.gradients = did.gradients
      /\ done.changed = did.changed
  BY <1>1 DEF DidType
<1>6. Probes!LoadAccepted(done) /\ Stepped(done)
  BY <1>1, <1>5 DEF Probes!LoadAccepted, Stepped, Probes!StepAccepted, Probes!Present
<1>7. PICK how \in {"pass", "checkpoint_failure"} :
        Probes!End(how, done) /\ (how = "pass" => Probes!SaveAccepted(done))
  BY <1>2
<1>8. how \in Outcomes
  BY <1>7 DEF Outcomes
<1> HIDE DEF done
<1> QED BY <1>1, <1>3, <1>4, <1>6, <1>7, <1>8, EndKeeps DEF Working, Passes

\* Anything that a library raises ends the probe.
LEMMA RaiseKeeps == ASSUME ProbesInv, Probes!Raise PROVE ProbesInv'
<1>1. /\ step \in Working /\ UNCHANGED <<needed, toggles, rng, printed, judged>>
      /\ flaws \in 0..MaxFlaws /\ did \in DidType /\ toggles \in Toggles
      /\ Probes!End("fail", did) /\ Probes!Faults(1)
  BY DEF Probes!Raise, Probes!At, Probes!process, ProbesInv, ProbesTyped, Probes!TypeOK, Toggles,
         Working
<1>2. flaws' \in 0..MaxFlaws /\ "fail" \in Outcomes
  BY <1>1, FaultsTyped DEF Outcomes
<1> QED BY <1>1, <1>2, EndKeeps

-----------------------------------------------------------------------------
(* Probes: the measurement *)

\* While memory is measured, the probe itself stays where it is or goes on ending.
LEMMA ProbeRests ==
  ASSUME ProcessInv, DoneInv, UNCHANGED <<todo, previous, did, taxonomy, toggles>>,
         step' = step \/ (step \in Ending /\ step' \in Ending)
  PROVE  /\ ProcessInv' /\ DoneInv' /\ (Probes!Nf4 <=> Probes!Nf4')
<1>1. /\ Probes!Running' = Probes!Running /\ (Probes!Nf4 <=> Probes!Nf4')
      /\ (Probes!Executes <=> Probes!Executes') /\ Probes!Kernel' = Probes!Kernel
  BY DEF Probes!Running, Probes!Nf4, Probes!Executes, Probes!Kernel
<1>2. /\ Probes!LoadAccepted(did) => Probes!LoadAccepted(did)'
      /\ Stepped(did) => Stepped(did)'
      /\ Passes(did) => Passes(did)'
  BY <1>1 DEF Probes!LoadAccepted, Stepped, Probes!StepAccepted, Probes!SaveAccepted, Passes,
              Probes!Present
<1>3. ProcessInv'
  BY <1>1 DEF ProcessInv, Working, Ending
<1>4. DoneInv'
  BY <1>2 DEF DoneInv, Ending
<1> QED BY <1>1, <1>3, <1>4

\* The sampling thread.
LEMMA SamplerKeeps ==
  ASSUME ProbesInv, Probes!SamplerReads \/ Probes!SamplerStores \/ Probes!SamplerEnds
  PROVE  ProbesInv'
<1>1. /\ UNCHANGED <<needed, todo, step, toggles, rng, previous, did, taxonomy, mine, measured,
                     late, results, printed, judged, flaws>>
      /\ sampler' \in {"waiting", "sampling", "ended"}
  BY DEF Probes!SamplerReads, Probes!SamplerStores, Probes!SamplerEnds, Probes!process,
         Probes!memory
<1>2. ProcessInv' /\ DoneInv' /\ (Probes!Nf4 <=> Probes!Nf4')
  BY <1>1, ProbeRests DEF ProbesInv
<1>3. ResultsInv'
  BY <1>1 DEF ProbesInv, ResultsInv, PrintedInv, AcceptedInv
<1>4. /\ Probes!TypeOK /\ peak \in 0..MaxReading /\ prior \in 0..MaxReading
      /\ highest \in 0..MaxReading
  BY DEF ProbesInv, ProbesTyped, Probes!TypeOK
<1>5. Probes!TypeOK' /\ MemoryInv'
  <2>1. CASE Probes!SamplerReads
    <3>1. sampler' = "sampling" /\ prior' = peak /\ peak' = peak /\ highest' = highest
            /\ step \notin Ending
      BY <2>1 DEF Probes!SamplerReads, Probes!Stopping, Ending
    <3> QED BY <1>1, <1>2, <1>4, <3>1 DEF ProbesInv, MemoryInv, Probes!TypeOK, Ending
  <2>2. CASE Probes!SamplerStores
    <3>1. PICK r \in Probes!Readings :
            peak' = Probes!Larger(prior, r) /\ highest' = Probes!Larger(highest, r)
      BY <2>2 DEF Probes!SamplerStores
    <3>2. sampler = "sampling" /\ sampler' = "waiting" /\ prior' = prior
      BY <2>2 DEF Probes!SamplerStores
    <3>3. peak' \in Probes!Readings /\ peak' \in 0..MaxReading /\ highest' \in 0..MaxReading
      <4>1. r \in 0..MaxReading
        BY MCProbes DEF Probes!ProbesAssumption, Probes!Readings
      <4>2. r >= 1 /\ r <= MaxReading
        BY DEF Probes!Readings
      <4> QED BY <1>4, <3>1, <4>1, <4>2 DEF Probes!Larger, Probes!Readings
    <3>4. Probes!TypeOK'
      BY <1>1, <1>4, <3>2, <3>3 DEF Probes!TypeOK
    <3>5. MemoryInv'
      BY <1>1, <1>2, <3>1, <3>2, <3>3 DEF ProbesInv, MemoryInv, Probes!Larger
    <3> QED BY <3>4, <3>5
  <2>3. CASE Probes!SamplerEnds
    <3>1. sampler' = "ended" /\ UNCHANGED <<peak, prior, highest>>
      BY <2>3 DEF Probes!SamplerEnds, Probes!memory
    <3> QED BY <1>1, <1>2, <1>4, <3>1 DEF ProbesInv, MemoryInv, Probes!TypeOK
  <2> QED BY <2>1, <2>2, <2>3
<1> QED BY <1>1, <1>2, <1>3, <1>5 DEF ProbesInv, ProbesTyped

\* The probe's own part of the measurement: a thread that has not ended is known to be late.
LEMMA MeasuringKeeps ==
  ASSUME ProbesInv, Probes!Stop \/ Probes!Own \/ Probes!Merge \/ Probes!Take
  PROVE  ProbesInv'
<1>1. /\ step \in Ending /\ step' \in Ending
      /\ UNCHANGED <<needed, todo, toggles, rng, previous, did, taxonomy, sampler, prior, results,
                     printed, judged>>
  BY DEF Probes!Stop, Probes!Own, Probes!Merge, Probes!Take, Probes!Measuring, Probes!At,
         Probes!process, Ending
<1>2. ProcessInv' /\ DoneInv'
  BY <1>1, ProbeRests DEF ProbesInv
<1>3. ResultsInv'
  BY <1>1, ResultsRest DEF ProbesInv, Ending
<1>4. /\ Probes!TypeOK /\ peak \in 0..MaxReading /\ prior \in 0..MaxReading
      /\ highest \in 0..MaxReading /\ flaws \in 0..MaxFlaws
  BY DEF ProbesInv, ProbesTyped, Probes!TypeOK
<1>5. \A r \in Probes!Readings : r \in 0..MaxReading
  BY MCProbes DEF Probes!ProbesAssumption, Probes!Readings
<1>6. Probes!TypeOK' /\ MemoryInv'
  <2>1. CASE Probes!Stop
    <3>1. /\ step = "stop" /\ step' = "own" /\ UNCHANGED <<peak, mine, measured, highest>>
          /\ late' \in BOOLEAN /\ (late' \/ sampler = "ended")
      BY <2>1, <1>4 DEF Probes!Stop, Probes!Measuring, Probes!At, Probes!TypeOK
    <3>2. flaws' \in 0..MaxFlaws
      BY <2>1, <1>4, FaultsTyped DEF Probes!Stop
    <3>3. Probes!TypeOK'
      BY <1>1, <1>4, <3>1, <3>2 DEF Probes!TypeOK
    <3>4. MemoryInv'
      BY <1>1, <3>1 DEF ProbesInv, MemoryInv, Working
    <3> QED BY <3>3, <3>4
  <2>2. CASE Probes!Own
    <3>1. step = "own" /\ step' = "merge" /\ UNCHANGED <<peak, measured, late, flaws>>
      BY <2>2 DEF Probes!Own, Probes!Measuring, Probes!At
    <3>2. PICK r \in Probes!Readings :
            mine' = [read |-> peak, own |-> r] /\ highest' = Probes!Larger(highest, r)
      BY <2>2 DEF Probes!Own
    <3>3. highest' \in 0..MaxReading
      BY <1>4, <1>5, <3>2 DEF Probes!Larger
    <3>4. Probes!TypeOK'
      BY <1>1, <1>4, <3>1, <3>3 DEF Probes!TypeOK
    <3>5. peak \in Probes!Readings /\ (~late => peak = highest) /\ (late \/ sampler = "ended")
            /\ (sampler = "sampling" => prior \in Probes!Readings)
      BY <3>1 DEF ProbesInv, MemoryInv
    <3>6. mine'.read = peak /\ mine'.own = r
            /\ mine' \in [read : Probes!Readings, own : Probes!Readings]
      BY <3>2, <3>5
    <3>7. MemoryInv'
      BY <1>1, <3>1, <3>2, <3>5, <3>6 DEF MemoryInv, Working, Probes!Larger
    <3> QED BY <3>4, <3>7
  <2>3. CASE Probes!Merge
    <3>1. /\ step = "merge" /\ step' = "take" /\ UNCHANGED <<mine, measured, highest, late, flaws>>
          /\ peak' = Probes!Larger(mine.read, mine.own)
      BY <2>3 DEF Probes!Merge, Probes!Measuring, Probes!At
    <3>2. mine.read \in Probes!Readings /\ mine.own \in Probes!Readings
      BY <3>1 DEF ProbesInv, MemoryInv
    <3>3. peak' \in Probes!Readings /\ peak' \in 0..MaxReading
      BY <1>5, <3>1, <3>2 DEF Probes!Larger
    <3>4. Probes!TypeOK'
      BY <1>1, <1>4, <3>1, <3>3 DEF Probes!TypeOK
    <3>5. MemoryInv'
      BY <1>1, <3>1, <3>3 DEF ProbesInv, MemoryInv, Working
    <3> QED BY <3>4, <3>5
  <2>4. CASE Probes!Take
    <3>1. /\ step = "take" /\ step' = "restore" /\ UNCHANGED <<peak, mine, highest, late, flaws>>
          /\ measured' = peak
      BY <2>4 DEF Probes!Take, Probes!Measuring, Probes!At
    <3>2. peak \in Probes!Readings
      BY <3>1 DEF ProbesInv, MemoryInv
    <3>3. Probes!TypeOK'
      BY <1>1, <1>4, <3>1, <3>2 DEF Probes!TypeOK
    <3>4. MemoryInv'
      BY <1>1, <3>1, <3>2 DEF ProbesInv, MemoryInv, Working
    <3> QED BY <3>3, <3>4
  <2> QED BY <2>1, <2>2, <2>3, <2>4
<1> QED BY <1>1, <1>2, <1>3, <1>6 DEF ProbesInv, ProbesTyped

\* What passed is recorded only with the process as it was found.
LEMMA RestoreKeeps == ASSUME ProbesInv, Probes!Restore PROVE ProbesInv'
<1>1. /\ step = "restore" /\ todo # <<>> /\ Probes!Nf4 /\ Probes!Executes /\ taxonomy \in Outcomes
      /\ previous \in Toggles \X {"own", "seeded"} /\ UNCHANGED <<needed, printed, judged>>
      /\ did \in DidType
  BY DEF Probes!Restore, Probes!At, ProbesInv, ProbesTyped, ProcessInv, Ending
<1>2. toggles \in Toggles /\ rng \in {"own", "seeded"} /\ flaws \in 0..MaxFlaws
  BY DEF ProbesInv, ProbesTyped, Probes!TypeOK, Toggles
<1>3. PICK keptToggles \in BOOLEAN, keptRng \in BOOLEAN :
        /\ toggles' = IF keptToggles THEN previous[1] ELSE toggles
        /\ rng' = IF keptRng THEN previous[2] ELSE rng
        /\ Probes!Faults(Probes!OneIf(~keptToggles) + Probes!OneIf(~keptRng))
        /\ Probes!Record(IF Probes!Restored(keptToggles /\ keptRng /\ sampler # "sampling")
                           THEN taxonomy ELSE "environment_failure", did,
                         <<toggles', rng'>> = previous /\ sampler # "sampling")
  BY DEF Probes!Restore, Probes!process
<1>4. flaws' \in 0..MaxFlaws
  <2>1. Probes!OneIf(~keptToggles) \in Nat /\ Probes!OneIf(~keptRng) \in Nat
    BY DEF Probes!OneIf
  <2> QED BY <1>2, <1>3, <2>1, FaultsTyped
<1>5. toggles' \in Toggles /\ rng' \in {"own", "seeded"}
  BY <1>1, <1>2, <1>3
<1>6. PICK how \in Outcomes, restored1 \in BOOLEAN :
        /\ Probes!Record(how, did, restored1)
        /\ how = "pass" => restored1 /\ taxonomy = "pass"
  <2> DEFINE how == IF Probes!Restored(keptToggles /\ keptRng /\ sampler # "sampling")
                    THEN taxonomy ELSE "environment_failure"
             back == <<toggles', rng'>> = previous /\ sampler # "sampling"
  <2>1. how \in Outcomes /\ back \in BOOLEAN
    BY <1>1 DEF Outcomes
  <2>2. how = "pass" => /\ taxonomy = "pass" /\ keptToggles /\ keptRng /\ sampler # "sampling"
    BY DEF Probes!Restored
  <2>3. keptToggles /\ keptRng => <<toggles', rng'>> = previous
    BY <1>1, <1>3
  <2>4. Probes!Record(how, did, back)
    BY <1>3
  <2> QED BY <2>1, <2>2, <2>3, <2>4
<1>7. ASSUME how = "pass"
      PROVE  LET r == [probe |-> Probes!Running, outcome |-> how,
                       claims |-> how = "pass" /\ Probes!Executes, did |-> did,
                       memory |-> [baseline |-> 1, peak |-> measured, highest |-> highest,
                                   late |-> late],
                       restored |-> restored1]
             IN Probes!Trained(did) /\ Probes!Complete(r)
  <2>1. Passes(did) /\ measured \in Probes!Readings /\ (~late => measured = highest) /\ restored1
    BY <1>1, <1>6, <1>7 DEF ProbesInv, DoneInv, MemoryInv, Ending
  <2>2. Probes!Trained(did)
    BY <1>1, <2>1 DEF Passes, Stepped, Probes!LoadAccepted, Probes!StepAccepted,
                      Probes!SaveAccepted, Probes!Trained
  <2>3. measured >= 1
    BY <2>1, MCProbes DEF Probes!Readings, Probes!ProbesAssumption
  <2>4. /\ did.placed = {"base", "adapter"} /\ did.quantized = "as claimed"
        /\ did.allowed = Probes!Kernel /\ \A n \in Probes!Tensors : did.gradients[n] = "finite"
        /\ did.file = "exact" /\ did.reloaded = "placed"
    BY <1>1, <2>1 DEF Passes, Stepped, Probes!LoadAccepted, Probes!StepAccepted,
                      Probes!SaveAccepted
  <2> QED BY <2>1, <2>2, <2>3, <2>4 DEF Probes!Complete, Probes!Kernel
<1> QED BY <1>1, <1>4, <1>5, <1>6, <1>7, RecordKeeps

-----------------------------------------------------------------------------
(* Probes: the report *)

\* No probe runs any more.
LEMMA ReportedRests ==
  ASSUME ProbesInv, step' = "reported", step \in {"next", "reported"},
         UNCHANGED <<needed, todo, toggles, rng, previous, did, taxonomy, sampler, peak, prior,
                     mine, measured, highest, late, results>>,
         flaws' \in 0..MaxFlaws, judged' \in {None, "accepted", "refused"},
         PrintedInv', AcceptedInv'
  PROVE  ProbesInv'
<1>1. Probes!TypeOK'
  BY DEF ProbesInv, ProbesTyped, Probes!TypeOK
<1>2. ProcessInv' /\ DoneInv' /\ MemoryInv'
  BY DEF ProcessInv, DoneInv, MemoryInv, Working, Ending
<1>3. ResultsInv'
  BY DEF ProbesInv, ResultsInv
<1> QED BY <1>1, <1>2, <1>3 DEF ProbesInv, ProbesTyped

\* The process prints what it found, or nothing.
LEMMA ReportKeeps == ASSUME ProbesInv, Probes!Report PROVE ProbesInv'
<1>1. /\ step = "next" /\ step' = "reported"
      /\ UNCHANGED <<needed, todo, toggles, rng, previous, did, taxonomy, sampler, peak, prior,
                     mine, measured, highest, late, results, judged>>
      /\ printed' \in {None, Probes!ReportOf(results)}
  BY DEF Probes!Report, Probes!process, Probes!memory
<1>2. flaws' \in 0..MaxFlaws
  <2>1. Probes!Faults(0) \/ Probes!Faults(1)
    BY DEF Probes!Report
  <2> QED BY <2>1, FaultsTyped DEF ProbesInv, ProbesTyped, Probes!TypeOK
<1>3. judged # "accepted" /\ judged \in {None, "accepted", "refused"}
  BY <1>1 DEF ProbesInv, ResultsInv, AcceptedInv, ProbesTyped, Probes!TypeOK
<1>4. PrintedInv'
  <2>1. /\ "results" \in DOMAIN Probes!ReportOf(results)
        /\ Probes!ReportOf(results).results = results
    BY DEF Probes!ReportOf
  <2>2. results \in Seq(ResultType)
    BY DEF ProbesInv, ProbesTyped
  <2>3. \A i \in 1..Len(results) : SameResult(results[i], results[i])
    BY DEF SameResult
  <2> QED BY <1>1, <2>1, <2>2, <2>3 DEF PrintedInv
<1> QED BY <1>1, <1>2, <1>3, <1>4, ReportedRests DEF AcceptedInv

\* Whatever another version makes of the report, its results stay those of the probes, but for
\* what they claim.
LEMMA GarbleKeeps == ASSUME ProbesInv, Probes!Garble PROVE ProbesInv'
<1>1. /\ step = "reported" /\ judged = None /\ printed # None
      /\ UNCHANGED <<step, needed, todo, toggles, rng, previous, did, taxonomy, sampler, peak,
                     prior, mine, measured, highest, late, results, judged>>
      /\ printed' \in Probes!Garbled
  BY DEF Probes!Garble, Probes!process, Probes!memory
<1>2. flaws' \in 0..MaxFlaws
  BY FaultsTyped DEF Probes!Garble, ProbesInv, ProbesTyped, Probes!TypeOK
<1>3. /\ "results" \in DOMAIN printed /\ printed.results \in Seq(ResultType)
      /\ Len(printed.results) = Len(results)
      /\ \A i \in 1..Len(results) : SameResult(printed.results[i], results[i])
  BY <1>1 DEF ProbesInv, ResultsInv, PrintedInv
<1>4. ASSUME printed' \in
               {[printed EXCEPT !.readiness = "ready"], [printed EXCEPT !.contract = TRUE],
                [printed EXCEPT !.tuples = @ \cup {Probes!Claims(needed)}]}
      PROVE  PrintedInv'
  <2>1. "results" \in DOMAIN printed' /\ printed'.results = printed.results
    BY <1>3, <1>4
  <2> QED BY <1>1, <1>3, <2>1 DEF PrintedInv
<1>5. ASSUME \E i \in {j \in DOMAIN printed.results :
                         printed.results[j].probe \in Probes!ExecutionProbes} :
               printed' = [printed EXCEPT !.results[i].claims = TRUE]
      PROVE  PrintedInv'
  <2>1. PICK i \in DOMAIN printed.results :
               /\ printed.results[i].probe \in Probes!ExecutionProbes
               /\ printed' = [printed EXCEPT !.results[i].claims = TRUE]
    BY <1>5
  <2>2. PICK r : r = [printed.results[i] EXCEPT !.claims = TRUE]
    OBVIOUS
  <2>3. "results" \in DOMAIN printed' /\ printed'.results = [printed.results EXCEPT ![i] = r]
    BY <1>3, <2>1, <2>2
  <2>4. i \in 1..Len(results) /\ printed.results[i] \in ResultType
    BY <1>3, <2>1
  <2>5. r \in ResultType /\ SameResult(r, results[i])
    <3>1. /\ r.probe = printed.results[i].probe /\ r.outcome = printed.results[i].outcome
          /\ r.did = printed.results[i].did /\ r.memory = printed.results[i].memory
          /\ r.restored = printed.results[i].restored /\ r.claims = TRUE
      BY <2>2, <2>4 DEF ResultType
    <3>2. r \in ResultType
      BY <2>2, <2>4 DEF ResultType
    <3> QED BY <1>3, <2>1, <2>4, <3>1, <3>2 DEF SameResult
  <2>6. /\ printed'.results \in Seq(ResultType) /\ Len(printed'.results) = Len(results)
        /\ \A j \in 1..Len(results) : SameResult(printed'.results[j], results[j])
    BY <1>3, <2>3, <2>4, <2>5
  <2> QED BY <1>1, <2>3, <2>6 DEF PrintedInv
<1>6. PrintedInv'
  BY <1>1, <1>4, <1>5 DEF Probes!Garbled
<1>7. judged' # "accepted" /\ judged' \in {None, "accepted", "refused"}
  BY <1>1, MCProbes DEF Probes!ProbesAssumption
<1> QED BY <1>1, <1>2, <1>6, <1>7, ReportedRests DEF AcceptedInv

\* A report that is valid claims what the results do.
LEMMA ValidIsTrue ==
  ASSUME ProbesInv, printed # None, Probes!ReportIsValid
  PROVE  printed.results = results
<1>1. /\ printed.results \in Seq(ResultType) /\ results \in Seq(ResultType)
      /\ Len(printed.results) = Len(results)
      /\ \A i \in 1..Len(results) : SameResult(printed.results[i], results[i])
      /\ \A i \in 1..Len(results) : Earned(results[i])
  BY DEF ProbesInv, ProbesTyped, ResultsInv, PrintedInv
<1>2. \A i \in 1..Len(results) :
        printed.results[i].claims => printed.results[i].outcome = "pass"
  BY <1>1 DEF Probes!ReportIsValid
<1>3. ASSUME NEW i \in 1..Len(results)
      PROVE  printed.results[i] = results[i]
  <2>1. printed.results[i] \in ResultType /\ results[i] \in ResultType
    BY <1>1
  <2>2. printed.results[i].claims = results[i].claims
    <3>1. SameResult(printed.results[i], results[i]) /\ Earned(results[i])
      BY <1>1
    <3>2. CASE printed.results[i].claims = TRUE /\ results[i].probe \in Probes!ExecutionProbes
      <4>1. results[i].outcome = "pass"
        BY <1>2, <3>1, <3>2 DEF SameResult
      <4>2. results[i].claims
        BY <3>1, <3>2, <4>1 DEF Earned
      <4>3. results[i].claims \in BOOLEAN
        BY <2>1 DEF ResultType
      <4> QED BY <3>2, <4>2, <4>3
    <3> QED BY <3>1, <3>2 DEF SameResult
  <2>3. \A r, s \in ResultType :
          /\ r.probe = s.probe /\ r.outcome = s.outcome /\ r.did = s.did /\ r.memory = s.memory
          /\ r.restored = s.restored /\ r.claims = s.claims
          => r = s
    BY DEF ResultType
  <2> QED BY <1>1, <2>1, <2>2, <2>3 DEF SameResult
<1> QED BY <1>1, <1>3

\* The manager accepts what was done and claimed.
LEMMA JudgeKeeps == ASSUME ProbesInv, Probes!Judge PROVE ProbesInv'
<1>1. /\ step = "reported" /\ needed # None /\ judged = None
      /\ judged' = IF Probes!EvidenceComplete THEN "accepted" ELSE "refused"
      /\ UNCHANGED <<step, needed, todo, toggles, rng, previous, did, taxonomy, sampler, peak,
                     prior, mine, measured, highest, late, results, printed, flaws>>
  BY DEF Probes!Judge, Probes!process, Probes!memory
<1>2. flaws' \in 0..MaxFlaws /\ needed \in Probes!Nf4Probes
  BY <1>1 DEF ProbesInv, ProbesTyped, Probes!TypeOK
<1>3. PrintedInv'
  BY <1>1 DEF ProbesInv, ResultsInv, PrintedInv
<1>4. ASSUME Probes!EvidenceComplete
      PROVE  AcceptedInv'
  <2>1. printed # None /\ Probes!ReportIsValid
    BY <1>4 DEF Probes!EvidenceComplete
  <2>2. printed.results = results
    BY <2>1, ValidIsTrue
  <2>3. PICK i \in DOMAIN results : /\ {j \in DOMAIN results : results[j].probe = needed} = {i}
                                    /\ results[i].claims
    BY <1>4, <2>2 DEF Probes!EvidenceComplete
  <2>4. results[i].probe = needed /\ Earned(results[i])
    <3>1. i \in 1..Len(results)
      BY <2>3 DEF ProbesInv, ProbesTyped
    <3> QED BY <2>3, <3>1 DEF ProbesInv, ResultsInv
  <2>5. Probes!Complete(results[i])
    BY <1>2, <2>3, <2>4 DEF Earned
  <2>6. printed = Probes!ReportOf(results)
    BY <2>1, <2>2 DEF Probes!ReportIsValid
  <2>7. /\ printed.contract = Probes!ContractProven(results)
        /\ printed.tuples = Probes!Claimed(results)
    BY <2>6 DEF Probes!ReportOf
  <2>8. printed.contract => Probes!Passed(results, "trainer_contract")
    BY <2>7 DEF Probes!ContractProven
  <2>9. \A t \in printed.tuples : \E j \in DOMAIN results :
          results[j].claims /\ Probes!Claims(results[j].probe) = t
    BY <2>7 DEF Probes!Claimed
  <2> QED BY <1>1, <2>2, <2>3, <2>4, <2>5, <2>8, <2>9 DEF AcceptedInv, Probes!Complete,
                                                         Probes!Trained, Probes!Passed
<1>5. AcceptedInv'
  BY <1>1, <1>4 DEF AcceptedInv
<1> QED BY <1>1, <1>2, <1>3, <1>5, ReportedRests

-----------------------------------------------------------------------------
(* Probes: the invariants hold *)

\* Nothing has been done or claimed at first.
LEMMA ProbesInitially == Probes!Init => ProbesInv
<1> SUFFICES ASSUME Probes!Init PROVE ProbesInv
  OBVIOUS
<1>1. /\ todo \in Seq(STRING) /\ step = "next" /\ results = <<>> /\ printed = None
      /\ judged = None /\ judged # "accepted" /\ did = Probes!Nothing /\ flaws = 0
      /\ needed \in Probes!Nf4Probes \cup {None}
  BY MCProbes DEF Probes!ProbesAssumption, Probes!Init
<1>2. ProbesTyped
  <2>1. Probes!TypeOK
    <3>1. flaws \in 0..MaxFlaws /\ 0 \in 0..MaxReading
      BY <1>1, MCProbes DEF Probes!ProbesAssumption
    <3>2. peak = 0 /\ prior = 0 /\ highest = 0 /\ measured = None /\ late = FALSE /\ sampler = None
            /\ toggles = "default" /\ rng = "own"
      BY DEF Probes!Init
    <3> QED BY <1>1, <3>1, <3>2 DEF Probes!TypeOK
  <2> QED BY <1>1, <2>1, NothingTyped DEF ProbesTyped
<1>3. ProcessInv /\ DoneInv /\ MemoryInv
  BY <1>1 DEF ProcessInv, DoneInv, MemoryInv, Working, Ending
<1>4. ResultsInv
  BY <1>1 DEF ResultsInv, PrintedInv, AcceptedInv
<1> QED BY <1>2, <1>3, <1>4 DEF ProbesInv

\* Every step keeps what is known.
LEMMA ProbesKept == ASSUME ProbesInv, Probes!Next PROVE ProbesInv'
BY DiagnoseKeeps, UnavailableKeeps, BeginKeeps, LoadKeeps, TrainKeeps, SaveKeeps, RaiseKeeps,
   SamplerKeeps, MeasuringKeeps, RestoreKeeps, ReportKeeps, GarbleKeeps, JudgeKeeps
   DEF Probes!Next

\* The probes rest with their variables.
LEMMA ProbesRest == ASSUME ProbesInv, UNCHANGED probeVars PROVE ProbesInv'
<1>1. UNCHANGED <<needed, todo, step, toggles, rng, previous, did, taxonomy, sampler, peak, prior,
                  mine, measured, highest, late, results, printed, judged, flaws>>
  BY DEF probeVars
<1>2. ProcessInv' /\ DoneInv' /\ (Probes!Nf4 <=> Probes!Nf4')
  BY <1>1, ProbeRests DEF ProbesInv
<1>3. MemoryInv'
  BY <1>1, <1>2 DEF ProbesInv, MemoryInv
<1>4. ProbesTyped' /\ ResultsInv'
  BY <1>1 DEF ProbesInv, ProbesTyped, Probes!TypeOK, ResultsInv, PrintedInv, AcceptedInv
<1> QED BY <1>1, <1>2, <1>3, <1>4 DEF ProbesInv



-----------------------------------------------------------------------------
(* Model: what inspection and accounting know *)

SnapshotTyped ==
  /\ DOMAIN snapshot = Model!Files /\ edits \in 0..MaxEdits
  /\ \A f \in Model!Files : Model!Holdable(f, snapshot[f])

FilesTyped ==
  /\ DOMAIN files = Model!Files /\ listing \subseteq Model!Files
  /\ complete \in BOOLEAN /\ hashWeights \in BOOLEAN
  /\ \A f \in Model!Files :
        \/ files[f] = None
        \/ files[f].status \in {"verified", "not_requested", "unreadable", "skipped_unsafe"}

Unread == {"list", "inventory", "config"}
Told == {"described", "tokenizer", "paired", "headers", "report", "reported", "reconciled"}

\* The commands take one step after the other, and know nothing before its step.
StageInv ==
  /\ stage \in Unread \cup Told \cup {"refused"}
  /\ stage \in Unread => config = None
  /\ stage \in Told => Model!Describes(config)
  /\ config # None => DOMAIN config = DOMAIN Model!NoConfig
  /\ topology = None \/ topology.status \in {"not_checked", "no_recognized_moe_evidence",
                                             "unsupported_family", "incomplete", "detected"}
  /\ fit # None =>
       stage = "paired" /\ fit.status \in {"resize_required", "unverified", "compatible"}
  /\ stage \in Unread \cup {"described"} => \A f \in Model!Shards : headers[f] = None
  /\ report # None => stage \in {"reported", "reconciled", "refused"}
  /\ runtime # None => stage = "reconciled"

\* A header that was read from a verified file is that file's.
HeadersInv ==
  /\ DOMAIN headers = Model!Shards
  /\ \A f \in Model!Shards : headers[f] \notin {None, Model!Gap} =>
        /\ headers[f].tensors # None /\ IsFiniteSet(headers[f].tensors)
        /\ Model!Verified(f) => headers[f] = Model!Digest(f)
  /\ \A c \in claims : c.value \in Nat

\* A report of the model, and one of a run that is made from it.
ReportsInv ==
  /\ stage \in {"reported", "reconciled"} =>
       /\ report.status \in Model!Statuses
       /\ report.status = "conflicting" => Model!Conflicting(report.observations)
       /\ \A o \in report.observations : o.value \in Nat
  /\ report # None => report.status \in Model!Statuses
  /\ runtime # None => runtime.status \in Model!Statuses

ModelInv ==
  /\ SnapshotTyped /\ FilesTyped /\ StageInv /\ HeadersInv /\ ReportsInv
  /\ Model!ConfigIsPinned /\ Model!FitIsSound /\ Model!CountIsPinned /\ Model!RunIsConsistent

-----------------------------------------------------------------------------
(* Model: sets, counts and ids *)

\* The instance counts as everybody does.
LEMMA SameCounts ==
  /\ \A S : Model!IsFiniteSet(S) = IsFiniteSet(S)
  /\ \A S : Model!Cardinality(S) = Cardinality(S)
<1>1. \A S : Model!IsFiniteSet(S) = IsFiniteSet(S)
  BY DEF Model!IsFiniteSet, IsFiniteSet
<1>2. \A S : Model!Cardinality(S) = Cardinality(S)
  BY DEF Model!Cardinality, Cardinality
<1> QED BY <1>1, <1>2

\* The largest of the ids of a tokenizer.
LEMMA LargestId ==
  ASSUME NEW ids, Model!Numbers(ids), ids # {}
  PROVE  Model!Max(ids) \in ids /\ Model!Max(ids) \in Int /\ \A id \in ids : id <= Model!Max(ids)
<1>1. PICK top \in ids : \A id \in ids : id <= top
  BY DEF Model!Numbers
<1>2. \A id \in ids : id \in Int
  BY DEF Model!Numbers
<1>3. \A id \in ids : top >= id
  BY <1>1, <1>2
<1>4. Model!Max(ids) \in ids /\ \A id \in ids : Model!Max(ids) >= id
  BY <1>1, <1>3 DEF Model!Max
<1> QED BY <1>2, <1>4

\* The larger of two numbers.
LEMMA LargerOf ==
  ASSUME NEW x \in Nat, NEW y \in Nat
  PROVE  Model!Max({x, y}) \in Nat /\ x <= Model!Max({x, y}) /\ y <= Model!Max({x, y})
<1>1. Model!Numbers({x, y})
  BY DEF Model!Numbers
<1> QED BY <1>1, LargestId

\* The numbers that a complete topology is made from.
LEMMA CompleteNumbers ==
  ASSUME NEW c, Model!Describes(c), c.family \in Model!Families, Model!Complete(c.family, c.moe)
  PROVE  /\ Model!ExpertLayers(c.family, c.moe) \subseteq 0..c.moe.layers - 1
         /\ Model!ExpertLayers(c.family, c.moe) # {}
         /\ c.moe.layers \in Nat /\ c.moe.routed \in Nat /\ c.moe.topk \in 1..c.moe.routed
         /\ Model!SharedExperts(c.family, c.moe) \in Nat
<1>1. {c.moe.layers, c.moe.routed, c.moe.topk, c.moe.freq} \subseteq Nat
  BY DEF Model!Describes, Model!Complete
<1>0. c.family = "deepseek_v3" => c.moe.shared \in Nat /\ c.moe.prefix \in Nat
  BY DEF Model!Describes, Model!Complete
<1>2. Model!SharedExperts(c.family, c.moe) \in Nat
  BY <1>0 DEF Model!SharedExperts, Model!Families
<1>3. Model!ExpertLayers(c.family, c.moe) \subseteq 0..c.moe.layers - 1
  <2>1. CASE c.family = "mixtral"
    BY <2>1 DEF Model!ExpertLayers
  <2>2. CASE c.family = "qwen2_moe"
    BY <2>2 DEF Model!ExpertLayers
  <2>3. CASE c.family = "deepseek_v3"
    <3>1. c.moe.prefix..c.moe.layers - 1 \subseteq 0..c.moe.layers - 1
      BY <1>0, <1>1, <2>3
    <3> QED BY <2>3, <3>1 DEF Model!ExpertLayers
  <2> QED BY <2>1, <2>2, <2>3 DEF Model!Families
<1> QED BY <1>1, <1>2, <1>3 DEF Model!Complete

\* Products of numbers keep their order.
LEMMA TimesMore ==
  ASSUME NEW n \in Nat, NEW x \in Nat, NEW y \in Nat, x <= y
  PROVE  n * x \in Nat /\ n * y \in Nat /\ n * x <= n * y
<1>1. n * x \in Nat /\ n * y \in Nat
  OBVIOUS
<1>2. PICK d \in Nat : y = x + d
  <2>1. y - x \in Nat /\ y = x + (y - x)
    OBVIOUS
  <2> QED BY <2>1
<1>3. n * y = n * x + n * d /\ n * d \in Nat
  BY <1>2
<1> QED BY <1>1, <1>3

\* What a topology counts, one by one.
Counts(c, t) ==
  LET layers == Model!ExpertLayers(c.family, c.moe)
      shared == {"shared"} \X (1..Model!SharedExperts(c.family, c.moe))
      routed == {"routed"} \X (1..c.moe.routed)
  IN /\ layers \subseteq 0..c.moe.layers - 1 /\ layers # {}
     /\ t.logical = Model!Cardinality(layers \X (routed \cup shared))
     /\ t.active \in Model!Cardinality(layers)..t.logical

\* A detected topology counts its experts one by one.
LEMMA DetectedCounts ==
  ASSUME NEW c, Model!Describes(c), c.family \in Model!Families, Model!Complete(c.family, c.moe)
  PROVE  Counts(c, Model!Detected(c.family, c.moe))
<1> DEFINE layers == Model!ExpertLayers(c.family, c.moe)
           shared == {"shared"} \X (1..Model!SharedExperts(c.family, c.moe))
           routed == {"routed"} \X (1..c.moe.routed)
           t == Model!Detected(c.family, c.moe)
           n == Cardinality(layers)
           r == c.moe.routed
           k == c.moe.topk
           s == Model!SharedExperts(c.family, c.moe)
<1>1. layers \subseteq 0..c.moe.layers - 1 /\ layers # {} /\ c.moe.layers \in Nat
      /\ r \in Nat /\ k \in 1..r /\ s \in Nat
  BY CompleteNumbers
<1>2. IsFiniteSet(layers) /\ n \in Nat /\ n # 0
  <2>0. 0 \in Int /\ c.moe.layers - 1 \in Int
    BY <1>1
  <2>1. IsFiniteSet(0..c.moe.layers - 1)
    BY <2>0, FS_Interval
  <2> QED BY <1>1, <2>1, FS_Subset, FS_CardinalityType, FS_EmptySet
<1>3. IsFiniteSet(shared) /\ Cardinality(shared) = s
  <2>0. 1 \in Int /\ s \in Int /\ s \in Nat
    BY <1>1
  <2> HIDE DEF s
  <2>1. IsFiniteSet(1..s) /\ Cardinality(1..s) = s
    BY <2>0, FS_Interval
  <2>2. IsFiniteSet({"shared"}) /\ Cardinality({"shared"}) = 1
    BY FS_Singleton
  <2>3. IsFiniteSet({"shared"} \X (1..s)) /\ Cardinality({"shared"} \X (1..s)) = 1 * s
    BY <2>1, <2>2, FS_Product
  <2> QED BY <2>3, <2>0 DEF s
<1>4. IsFiniteSet(routed) /\ Cardinality(routed) = r
  <2>0. 1 \in Int /\ r \in Int /\ r \in Nat
    BY <1>1
  <2> HIDE DEF r
  <2>1. IsFiniteSet(1..r) /\ Cardinality(1..r) = r
    BY <2>0, FS_Interval
  <2>2. IsFiniteSet({"routed"}) /\ Cardinality({"routed"}) = 1
    BY FS_Singleton
  <2>3. IsFiniteSet({"routed"} \X (1..r)) /\ Cardinality({"routed"} \X (1..r)) = 1 * r
    BY <2>1, <2>2, FS_Product
  <2> QED BY <2>3, <2>0 DEF r
<1>5. routed \cap shared = {}
  OBVIOUS
<1>6. IsFiniteSet(routed \cup shared) /\ Cardinality(routed \cup shared) = r + s
  <2>1. Cardinality(routed \cap shared) = 0
    BY <1>5, FS_EmptySet
  <2>2. /\ IsFiniteSet(routed \cup shared)
        /\ Cardinality(routed \cup shared) =
             Cardinality(routed) + Cardinality(shared) - Cardinality(routed \cap shared)
    BY <1>3, <1>4, FS_Union
  <2> QED BY <2>1, <2>2, <1>1, <1>3, <1>4
<1>7. Cardinality(layers \X (routed \cup shared)) = n * (r + s)
  <2> HIDE DEF layers, routed, shared, r, s
  <2> QED BY <1>2, <1>6, FS_Product
<1>8. t.logical = n * r + n * s /\ t.active = n * k + n * s
  BY SameCounts DEF Model!Detected
<1> HIDE DEF n, r, k, s, t, layers, shared, routed
<1>9. n * (r + s) = n * r + n * s
  BY <1>1, <1>2
<1>10. n * k \in Nat /\ n * k <= n * r /\ n * s \in Nat /\ n <= n * k /\ n * r \in Nat
  <2>1. n * k \in Nat /\ n * k <= n * r /\ n * r \in Nat
    BY <1>1, <1>2, TimesMore
  <2>2. n * 1 <= n * k /\ n * 1 = n
    BY <1>1, <1>2, TimesMore
  <2> QED BY <2>1, <2>2, <1>1, <1>2
<1>11. t.active \in n..t.logical
  BY <1>2, <1>8, <1>10
<1>12. /\ t.logical = Cardinality(layers \X (routed \cup shared))
       /\ t.active \in Cardinality(layers)..t.logical
  BY <1>1, <1>7, <1>8, <1>9, <1>11 DEF n
<1> QED BY <1>1, <1>12, SameCounts DEF Counts, t, layers, shared, routed

\* The entries of a header that was read, and those of both shards.
Entries(g) == IF g \in Model!Read THEN {g} \X Model!Tensors(g) ELSE {}
AllEntries == Entries("s1") \cup Entries("s2")

\* The entries of all headers can be counted; no name twice, they are as many as the names.
LEMMA EntriesCounted ==
  ASSUME HeadersInv
  PROVE  /\ Model!Total \in Nat
         /\ ~Model!Repeated => Model!Total = Model!Cardinality(Model!Names)
<1>1. Model!Read \subseteq {"s1", "s2"}
  BY DEF Model!Read, Model!Shards
<1>2. UNION {{f} \X Model!Tensors(f) : f \in Model!Read} = AllEntries
  BY <1>1 DEF AllEntries, Entries
<1>3. \A f : IsFiniteSet(Entries(f))
  <2> SUFFICES ASSUME NEW f PROVE IsFiniteSet(Entries(f))
    OBVIOUS
  <2>1. CASE f \in Model!Read
    <3>1. IsFiniteSet(Model!Tensors(f))
      BY <2>1 DEF HeadersInv, Model!Read, Model!Tensors
    <3>2. IsFiniteSet({f} \X Model!Tensors(f))
      BY <3>1, FS_Singleton, FS_Product
    <3> QED BY <2>1, <3>2 DEF Entries
  <2>2. CASE f \notin Model!Read
    BY <2>2, FS_EmptySet DEF Entries
  <2> QED BY <2>1, <2>2
<1>4. IsFiniteSet(AllEntries) /\ Cardinality(AllEntries) \in Nat
  BY <1>3, FS_Union, FS_CardinalityType DEF AllEntries
<1>5. Model!Total = Cardinality(AllEntries)
  BY <1>2, SameCounts DEF Model!Total
<1>6. ASSUME ~Model!Repeated PROVE Cardinality(Model!Names) = Cardinality(AllEntries)
  <2> DEFINE name == [x \in AllEntries |-> x[2]]
  <2>1. \A x \in AllEntries : \E f \in Model!Read : \E t \in Model!Tensors(f) : x = <<f, t>>
    BY DEF AllEntries, Entries
  <2>2. \A f \in Model!Read : \A t \in Model!Tensors(f) : <<f, t>> \in AllEntries
    BY <1>1 DEF AllEntries, Entries
  <2>3. name \in [AllEntries -> Model!Names]
    BY <2>1 DEF Model!Names
  <2>4. \A x \in AllEntries, y \in AllEntries : name[x] = name[y] => x = y
    <3> SUFFICES ASSUME NEW x \in AllEntries, NEW y \in AllEntries, name[x] = name[y] PROVE x = y
      OBVIOUS
    <3>1. PICK f \in Model!Read : \E t \in Model!Tensors(f) : x = <<f, t>>
      BY <2>1
    <3>2. PICK t \in Model!Tensors(f) : x = <<f, t>>
      BY <3>1
    <3>3. PICK g \in Model!Read : \E v \in Model!Tensors(g) : y = <<g, v>>
      BY <2>1
    <3>4. PICK v \in Model!Tensors(g) : y = <<g, v>>
      BY <3>3
    <3>5. t = v
      BY <3>2, <3>4
    <3>6. f = g
      BY <1>6, <3>5 DEF Model!Repeated
    <3> QED BY <3>2, <3>4, <3>5, <3>6
  <2>5. \A n \in Model!Names : \E x \in AllEntries : name[x] = n
    <3> SUFFICES ASSUME NEW n \in Model!Names PROVE \E x \in AllEntries : name[x] = n
      OBVIOUS
    <3>1. PICK f \in Model!Read : n \in Model!Tensors(f)
      BY DEF Model!Names
    <3>2. <<f, n>> \in AllEntries /\ name[<<f, n>>] = n
      BY <2>2, <3>1
    <3> QED BY <3>2
  <2>6. name \in Bijection(AllEntries, Model!Names)
    BY <2>3, <2>4, <2>5 DEF Bijection, Injection, Surjection, IsInjective
  <2>7. ExistsBijection(AllEntries, Model!Names)
    BY <2>6 DEF ExistsBijection
  <2> QED BY <1>4, <2>7, FS_Bijection
<1> QED BY <1>4, <1>5, <1>6, SameCounts

-----------------------------------------------------------------------------
(* Model: the inventory *)

\* What a step of inspection leaves alone.
LEMMA SnapshotKept ==
  ASSUME SnapshotTyped, UNCHANGED <<snapshot, edits>>
  PROVE  SnapshotTyped'
BY DEF SnapshotTyped

\* What accounting has said stays said.
LEMMA AccountsKept ==
  ASSUME ModelInv, UNCHANGED <<files, complete, headers, claims, indexed, report, runtime, stage>>
  PROVE  HeadersInv' /\ ReportsInv' /\ Model!CountIsPinned' /\ Model!RunIsConsistent'
BY DEF ModelInv, HeadersInv, ReportsInv, Model!CountIsPinned, Model!RunIsConsistent,
       Model!Verified, Model!Digest, Model!Conflicting, Model!Contradict, Model!Authoritative,
       Model!Inventoried, Model!ShardFiles, Model!Pinned

\* Nothing is reported before there is a report.
LEMMA NothingReported ==
  ASSUME ModelInv, stage \notin {"reported", "reconciled", "refused"},
         UNCHANGED <<report, runtime>>, stage' \notin {"reported", "reconciled"}
  PROVE  ReportsInv' /\ Model!CountIsPinned' /\ Model!RunIsConsistent'
<1>1. report = None /\ runtime = None
  BY DEF ModelInv, StageInv
<1> QED BY <1>1 DEF ReportsInv, Model!CountIsPinned, Model!RunIsConsistent

\* The walk begins.
LEMMA ListFilesKeeps ==
  ASSUME ModelInv, Model!ListFiles, UNCHANGED Model!accountingVars
  PROVE  ModelInv'
<1> USE DEF Model!ListFiles, Model!GoTo, Model!accountingVars
<1>1. SnapshotTyped'
  BY SnapshotKept DEF ModelInv
<1>2. FilesTyped'
  BY DEF ModelInv, FilesTyped
<1>3. StageInv' /\ config' = None /\ fit' = None
  BY DEF ModelInv, StageInv, Unread, Told
<1>4. HeadersInv'
  BY DEF ModelInv, HeadersInv, Model!Verified, Model!Digest
<1>5. ReportsInv' /\ Model!CountIsPinned' /\ Model!RunIsConsistent'
  BY NothingReported
<1>6. Model!ConfigIsPinned' /\ Model!FitIsSound'
  BY <1>3 DEF Model!ConfigIsPinned, Model!FitIsSound
<1> QED BY <1>1, <1>2, <1>3, <1>4, <1>5, <1>6 DEF ModelInv

\* One file of the walk.
LEMMA RecordFileKeeps ==
  ASSUME ModelInv, Model!RecordFile, UNCHANGED Model!accountingVars
  PROVE  ModelInv'
<1> USE DEF Model!RecordFile, Model!GoTo, Model!accountingVars
<1>1. SnapshotTyped'
  BY SnapshotKept DEF ModelInv
<1>2. FilesTyped'
  <2> DEFINE g == Model!First(listing)
  <2>1. listing' \subseteq Model!Files /\ complete' \in BOOLEAN /\ hashWeights' \in BOOLEAN
    BY DEF ModelInv, FilesTyped
  <2>2. CASE files' = files
    BY <2>1, <2>2 DEF ModelInv, FilesTyped
  <2>3. CASE \E status \in Model!Outcomes(g) :
               files' = [files EXCEPT ![g] = Model!Recorded(g, status)]
    <3>1. PICK status \in Model!Outcomes(g) :
               files' = [files EXCEPT ![g] = Model!Recorded(g, status)]
      BY <2>3
    <3>2. status \in {"verified", "not_requested", "unreadable", "skipped_unsafe"}
      BY <3>1 DEF Model!Outcomes
    <3>3. Model!Recorded(g, status).status = status
      BY DEF Model!Recorded
    <3> QED BY <2>1, <3>1, <3>2, <3>3 DEF ModelInv, FilesTyped
  <2> QED BY <2>2, <2>3
<1>3. StageInv' /\ config' = None /\ fit' = None /\ \A f \in Model!Shards : headers[f] = None
  BY DEF ModelInv, StageInv, Unread, Told
<1>4. HeadersInv'
  BY <1>3 DEF ModelInv, HeadersInv
<1>5. ReportsInv' /\ Model!CountIsPinned' /\ Model!RunIsConsistent'
  BY NothingReported
<1>6. Model!ConfigIsPinned' /\ Model!FitIsSound'
  BY <1>3 DEF Model!ConfigIsPinned, Model!FitIsSound
<1> QED BY <1>1, <1>2, <1>3, <1>4, <1>5, <1>6 DEF ModelInv

\* The end of the walk.
LEMMA InventoryDoneKeeps ==
  ASSUME ModelInv, Model!InventoryDone, UNCHANGED Model!accountingVars
  PROVE  ModelInv'
<1> USE DEF Model!InventoryDone, Model!GoTo, Model!accountingVars
<1>1. SnapshotTyped'
  BY SnapshotKept DEF ModelInv
<1>2. FilesTyped'
  BY DEF ModelInv, FilesTyped
<1>3. StageInv' /\ config' = None /\ fit' = None
  BY DEF ModelInv, StageInv, Unread, Told
<1>4. HeadersInv'
  BY DEF ModelInv, HeadersInv, Model!Verified, Model!Digest
<1>5. ReportsInv' /\ Model!CountIsPinned' /\ Model!RunIsConsistent'
  BY NothingReported
<1>6. Model!ConfigIsPinned' /\ Model!FitIsSound'
  BY <1>3 DEF Model!ConfigIsPinned, Model!FitIsSound
<1> QED BY <1>1, <1>2, <1>3, <1>4, <1>5, <1>6 DEF ModelInv

-----------------------------------------------------------------------------
(* Model: the descriptors *)

\* A topology has one of its statuses; a detected one counts the layers of a complete family.
LEMMA TopologyTyped ==
  ASSUME NEW c, NEW digest
  PROVE  /\ Model!Topology(c, digest).status \in
              {"not_checked", "no_recognized_moe_evidence", "unsupported_family", "incomplete",
               "detected"}
         /\ Model!Topology(c, digest).status = "detected" =>
              /\ c.family \in Model!Families /\ Model!Complete(c.family, c.moe)
              /\ Model!Topology(c, digest) = Model!Detected(c.family, c.moe)
<1>1. CASE digest = None
  BY <1>1 DEF Model!Topology, Model!Undetected
<1>2. CASE digest # None /\ c.family \in Model!Families
  <2>1. CASE Model!Complete(c.family, c.moe)
    <3>1. Model!Topology(c, digest) = Model!Detected(c.family, c.moe)
      BY <1>2, <2>1 DEF Model!Topology
    <3>2. Model!Detected(c.family, c.moe).status = "detected"
      BY DEF Model!Detected
    <3> QED BY <1>2, <2>1, <3>1, <3>2
  <2>2. CASE ~Model!Complete(c.family, c.moe)
    BY <1>2, <2>2 DEF Model!Topology, Model!Undetected
  <2> QED BY <2>1, <2>2
<1>3. CASE digest # None /\ c.family \notin Model!Families
  BY <1>3 DEF Model!Topology, Model!Undetected
<1> QED BY <1>1, <1>2, <1>3

\* The configuration that is described is the one that was hashed.
LEMMA DescribeModelKeeps ==
  ASSUME ModelInv, Model!DescribeModel, UNCHANGED Model!accountingVars
  PROVE  ModelInv'
<1> DEFINE c == IF snapshot["config"] = None THEN Model!NoConfig ELSE snapshot["config"]
           digest == IF Model!Verified("config") THEN files["config"].digest ELSE None
<1>0. /\ stage = "config"
      /\ \/ /\ Model!Loadable("config") /\ config' = c /\ topology' = Model!Topology(c, digest)
            /\ stage' = "described"
         \/ stage' = "refused" /\ UNCHANGED <<config, topology>>
      /\ UNCHANGED <<snapshot, edits, hashWeights, listing, files, complete, tokenizer, fit>>
      /\ UNCHANGED <<claims, headers, indexed, report, runtime>>
  BY DEF Model!DescribeModel, Model!GoTo, Model!accountingVars
<1>1. SnapshotTyped'
  BY <1>0, SnapshotKept DEF ModelInv
<1>2. FilesTyped'
  BY <1>0 DEF ModelInv, FilesTyped
<1>3. HeadersInv' /\ \A f \in Model!Shards : headers'[f] = None
  BY <1>0 DEF ModelInv, StageInv, Unread, HeadersInv
<1>4. ReportsInv' /\ Model!CountIsPinned' /\ Model!RunIsConsistent'
  BY <1>0, NothingReported
<1>5. config = None /\ fit = None /\ report = None /\ runtime = None
  BY <1>0 DEF ModelInv, StageInv, Unread
<1>6. Model!FitIsSound'
  BY <1>0, <1>5 DEF Model!FitIsSound
<1>7. CASE stage' = "refused" /\ UNCHANGED <<config, topology>>
  <2>1. StageInv'
    BY <1>0, <1>5, <1>7 DEF ModelInv, StageInv, Unread, Told
  <2>2. Model!ConfigIsPinned'
    BY <1>5, <1>7 DEF Model!ConfigIsPinned
  <2> QED BY <1>1, <1>2, <1>3, <1>4, <1>6, <2>1, <2>2 DEF ModelInv
<1>8. CASE /\ Model!Loadable("config") /\ config' = c /\ topology' = Model!Topology(c, digest)
           /\ stage' = "described"
  <2>1. Model!Describes(c)
    <3>1. Model!Describes(Model!NoConfig)
      BY DEF Model!Describes, Model!NoConfig
    <3>2. CASE snapshot["config"] # None
      <4>1. "config" \in Model!Files
        BY DEF Model!Files, Model!Walk
      <4>2. Model!Holdable("config", snapshot["config"])
        BY <4>1 DEF ModelInv, SnapshotTyped
      <4> QED BY <1>8, <3>2, <4>2 DEF Model!Holdable, Model!Loadable, Model!Shards
    <3> QED BY <3>1, <3>2
  <2> DEFINE t == Model!Topology(c, digest)
  <2>2. t.status \in {"not_checked", "no_recognized_moe_evidence", "unsupported_family",
                      "incomplete", "detected"}
        /\ (t.status = "detected" =>
              /\ c.family \in Model!Families /\ Model!Complete(c.family, c.moe)
              /\ t = Model!Detected(c.family, c.moe))
    BY TopologyTyped
  <2>3. Model!Verified("config") => c \in {files["config"].digest, Model!NoConfig}
    BY <1>8 DEF Model!Loadable
  <2> HIDE DEF c
  <2>4. StageInv'
    <3>1. DOMAIN c = DOMAIN Model!NoConfig
      BY <2>1 DEF Model!Describes
    <3>2. config' = c /\ stage' = "described" /\ fit' = None /\ report' = None /\ runtime' = None
      BY <1>0, <1>5, <1>8
    <3>3. topology'.status \in {"not_checked", "no_recognized_moe_evidence", "unsupported_family",
                                "incomplete", "detected"}
      BY <1>8, <2>2
    <3> QED BY <1>3, <2>1, <3>1, <3>2, <3>3 DEF StageInv, Unread, Told
  <2>5. Model!ConfigIsPinned'
    <3>1. ASSUME Model!Verified("config")'
          PROVE  config' \in {Model!Digest("config")', Model!NoConfig}
      BY <1>0, <1>8, <2>3, <3>1 DEF Model!Verified, Model!Digest
    <3>2. ASSUME t.status = "detected" PROVE Counts(c, t)
      BY <2>1, <2>2, <3>2, DetectedCounts
    <3>3. config' = c /\ topology' = t
      BY <1>8
    <3> HIDE DEF t
    <3> QED BY <3>1, <3>2, <3>3 DEF Model!ConfigIsPinned, Counts
  <2> QED BY <1>1, <1>2, <1>3, <1>4, <1>6, <2>4, <2>5 DEF ModelInv
<1> QED BY <1>0, <1>7, <1>8

\* The tokenizer's bytes are hashed.
LEMMA HashTokenizerKeeps ==
  ASSUME ModelInv, Model!HashTokenizer, UNCHANGED Model!accountingVars
  PROVE  ModelInv'
<1> USE DEF Model!HashTokenizer, Model!GoTo, Model!accountingVars
<1>1. SnapshotTyped'
  BY SnapshotKept DEF ModelInv
<1>2. FilesTyped'
  BY DEF ModelInv, FilesTyped
<1>3. StageInv' /\ fit' = None
  BY DEF ModelInv, StageInv, Unread, Told
<1>4. HeadersInv'
  BY DEF ModelInv, HeadersInv, Model!Verified, Model!Digest
<1>5. ReportsInv' /\ Model!CountIsPinned' /\ Model!RunIsConsistent'
  BY NothingReported
<1>6. Model!ConfigIsPinned' /\ Model!FitIsSound'
  BY <1>3 DEF ModelInv, Model!ConfigIsPinned, Model!FitIsSound, Model!Verified, Model!Digest
<1> QED BY <1>1, <1>2, <1>3, <1>4, <1>5, <1>6 DEF ModelInv

\* The ids that a fit is about.
About(t) ==
  Model!Range(Model!Ids(t)) \cup Model!Known(t) \cup
  (IF Model!Countable(t) THEN Model!Producible(t) ELSE {})

\* The rows of a model and the ids of a tokenizer, compared.
Fits(t, rows, tied, f) ==
  LET ids == About(t)
  IN /\ f.status \in {"resize_required", "unverified", "compatible"}
     /\ f.status = "compatible" => \A id \in ids : id < rows
     /\ f.status = "resize_required" =>
          /\ \A id \in ids : id < f.rows
          /\ f.rows > rows /\ f.input
          /\ tied = TRUE => f.output

\* The ids that a tokenizer can produce lie below its effective vocabulary, as far as the
\* inspector sees them.
LEMMA EffectiveCovers ==
  ASSUME NEW t, Model!Tokenizes(t), Model!Describable(t), None \notin Nat
  PROVE  /\ Model!Effective(t) \in Nat \cup {None}
         /\ \A id \in About(t) : id \in Nat
         /\ \A id \in About(t) \ Model!Known(t) :
              Model!Effective(t) \in Nat /\ id < Model!Effective(t)
<1> DEFINE ids == Model!Range(Model!Ids(t))
           need == Model!Effective(t)
<1>1. ids \subseteq Model!Range(Model!Vocab(t)) \cup Model!Range(t.added) /\ ids \subseteq Nat
  <2>1. ids \subseteq Model!Range(Model!Vocab(t)) \cup Model!Range(t.added)
    BY DEF Model!Range, Model!Ids
  <2> QED BY <2>1 DEF Model!Tokenizes
<1>2. Model!Base(t) \in Nat \cup {None}
  <2>1. CASE t.vocab = None
    BY <2>1 DEF Model!Base, Model!Tokenizes
  <2>2. CASE t.vocab # None
    <3>1. IsFiniteSet(DOMAIN t.vocab)
      BY <2>2, SameCounts DEF Model!Tokenizes, Model!Vocab
    <3>2. Model!Base(t) = Cardinality(DOMAIN t.vocab)
      BY <2>2, SameCounts DEF Model!Base
    <3> QED BY <3>1, <3>2, FS_CardinalityType
  <2> QED BY <2>1, <2>2
<1>3. /\ need \in Nat \cup {None}
      /\ \A id \in ids : need \in Nat /\ id < need
  <2>1. CASE DOMAIN Model!Ids(t) # {}
    <3>1. ids # {}
      BY <2>1 DEF Model!Range
    <3>2. Model!Max(ids) \in ids /\ \A id \in ids : id <= Model!Max(ids)
      BY <3>1, LargestId DEF Model!Tokenizes
    <3>3. need = Model!Max(ids) + 1
      BY <2>1 DEF Model!Effective
    <3> QED BY <1>1, <3>2, <3>3
  <2>2. CASE DOMAIN Model!Ids(t) = {}
    <3>1. ids = {}
      BY <2>2 DEF Model!Range
    <3>2. need = Model!Base(t)
      BY <2>2 DEF Model!Effective
    <3> QED BY <1>2, <3>1, <3>2
  <2> QED BY <2>1, <2>2
<1>4. ASSUME Model!Countable(t)
      PROVE  \A id \in Model!Producible(t) : id \in Nat /\ need \in Nat /\ id < need
  <2>1. Model!Range(Model!Vocab(t)) \subseteq ids
    <3> SUFFICES ASSUME NEW token \in DOMAIN Model!Vocab(t)
                 PROVE  Model!Vocab(t)[token] \in ids
      BY DEF Model!Range
    <3>1. token \in DOMAIN Model!Ids(t)
      BY DEF Model!Ids
    <3>2. Model!Ids(t)[token] = Model!Vocab(t)[token]
      BY <1>4 DEF Model!Ids, Model!Countable
    <3> QED BY <3>1, <3>2 DEF Model!Range
  <2>2. Model!Range(t.added) \subseteq ids
    BY DEF Model!Range, Model!Ids
  <2>3. ASSUME t.vocab = None, t.declared # None, NEW id \in 0..t.declared - 1
        PROVE  id \in Nat /\ need \in Nat /\ id < need
    <3>1. t.declared \in Nat /\ Model!Base(t) = t.declared
      BY <2>3 DEF Model!Tokenizes, Model!Base
    <3>2. need # None
      <4>1. CASE DOMAIN Model!Ids(t) # {}
        <5>1. ids # {}
          BY <4>1 DEF Model!Range
        <5> HIDE DEF ids, need
        <5> QED BY <1>3, <5>1
      <4>2. CASE DOMAIN Model!Ids(t) = {}
        BY <2>3, <3>1, <4>2 DEF Model!Effective
      <4> QED BY <4>1, <4>2
    <3>3. need \in Nat /\ need >= t.declared
      BY <1>3, <2>3, <3>1, <3>2 DEF Model!Describable
    <3> HIDE DEF need
    <3> QED BY <3>1, <3>3
  <2>4. t.pieces = {}
    BY <1>4 DEF Model!Countable
  <2> HIDE DEF ids, need
  <2> QED BY <1>1, <1>3, <2>1, <2>2, <2>3, <2>4 DEF Model!Producible
<1>5. Model!Known(t) \subseteq Nat
  BY DEF Model!Describable
<1> HIDE DEF ids, need
<1>6. \A id \in About(t) : id \in ids \/ id \in Model!Known(t)
                          \/ (Model!Countable(t) /\ id \in Model!Producible(t))
  BY DEF About, ids
<1>7. \A id \in About(t) : id \in Nat
  BY <1>1, <1>4, <1>5, <1>6
<1>8. \A id \in About(t) \ Model!Known(t) : need \in Nat /\ id < need
  BY <1>3, <1>4, <1>6
<1> QED BY <1>3, <1>7, <1>8 DEF need

LEMMA CompatibilityFits ==
  ASSUME NEW c, NEW t, NEW rows, rows \in Nat \cup {None}, Model!Tokenizes(t),
         Model!Describable(t), None \notin Nat
  PROVE  Fits(t, rows, c.tied, Model!Compatibility(rows, rows, c, t))
<1> DEFINE need == Model!Effective(t)
           special == IF rows # None /\ Model!Known(t) # {} THEN Model!Max(Model!Known(t)) ELSE None
           above == special # None /\ special >= rows
           more == need # None /\ rows # None /\ need > rows
           more2 == more \/ (above /\ (c.tied = TRUE \/ (rows # None /\ special >= rows)))
           unchecked == \/ need = None \/ rows = None \/ rows = None
                        \/ special = None
                        \/ c.context = None \/ t.limit = None
                        \/ c.code \/ t.code
           rows2 == IF above THEN Model!Max({special + 1, IF need = None THEN 0 ELSE need})
                    ELSE need
           covered == About(t) \ Model!Known(t)
           f == Model!Compatibility(rows, rows, c, t)
<1>1. /\ f.status = IF more \/ above \/ more2 THEN "resize_required"
                    ELSE IF unchecked THEN "unverified" ELSE "compatible"
      /\ f.rows = rows2 /\ f.input = (more \/ above) /\ f.output = more2
  BY DEF Model!Compatibility, Model!Exceeds
<1>2. /\ need \in Nat \cup {None}
      /\ \A id \in covered : id \in Nat /\ need \in Nat /\ id < need
  BY EffectiveCovers
<1>3. /\ special \in Nat \cup {None}
      /\ rows # None => \A id \in Model!Known(t) : id \in Nat /\ special \in Nat /\ id <= special
  <2>1. CASE rows # None /\ Model!Known(t) # {}
    <3>1. /\ Model!Max(Model!Known(t)) \in Model!Known(t)
          /\ \A id \in Model!Known(t) : id <= Model!Max(Model!Known(t))
      BY <2>1, LargestId DEF Model!Tokenizes
    <3>2. \A id \in Model!Known(t) : id \in Nat
      BY DEF Model!Describable
    <3> QED BY <2>1, <3>1, <3>2
  <2>2. CASE ~(rows # None /\ Model!Known(t) # {})
    BY <2>2
  <2> QED BY <2>1, <2>2
<1>4. rows # None => rows \in Nat
  OBVIOUS
<1>5. above => /\ rows2 \in Nat /\ special + 1 <= rows2
               /\ need # None => need <= rows2
  <2>1. CASE above /\ need = None
    <3>1. special + 1 \in Nat /\ 0 \in Nat
      BY <1>3, <2>1
    <3> QED BY <1>3, <2>1, <3>1, LargerOf
  <2>2. CASE above /\ need # None
    <3>1. special + 1 \in Nat /\ need \in Nat
      BY <1>2, <1>3, <2>2
    <3> QED BY <1>2, <1>3, <2>2, <3>1, LargerOf
  <2> QED BY <2>1, <2>2
<1>6. above => rows # None /\ special \in Nat
  BY <1>3
<1>7. ~above => rows2 = need
  OBVIOUS
<1> HIDE DEF need, special, rows2, covered, f
<1>8. f.status \in {"resize_required", "unverified", "compatible"}
  BY <1>1
<1>9. ASSUME f.status = "compatible"
      PROVE  \A id \in About(t) : id < rows
  <2>1. ~more /\ ~above /\ need # None /\ rows # None /\ special # None
    BY <1>1, <1>9
  <2>2. need \in Nat /\ rows \in Nat /\ special \in Nat /\ need <= rows /\ special < rows
    BY <1>2, <1>3, <1>4, <2>1
  <2>3. \A id \in covered : id < rows
    BY <1>2, <2>2
  <2>4. \A id \in Model!Known(t) : id < rows
    BY <1>3, <2>1, <2>2
  <2> QED BY <2>3, <2>4 DEF covered
<1>10. ASSUME f.status = "resize_required"
       PROVE  /\ \A id \in About(t) : id < f.rows
              /\ f.rows > rows /\ f.input
              /\ c.tied = TRUE => f.output
  <2>1. more \/ above
    BY <1>1, <1>10
  <2>2. CASE above
    <3>1. rows \in Nat /\ special \in Nat /\ special >= rows /\ rows # None
      BY <1>4, <1>6, <2>2
    <3>2. rows2 \in Nat /\ special + 1 <= rows2 /\ (need # None => need <= rows2)
      BY <1>5, <2>2
    <3>3. \A id \in Model!Known(t) : id < rows2
      BY <1>3, <3>1, <3>2
    <3>4. \A id \in covered : id < rows2
      BY <1>2, <3>2
    <3>5. f.rows = rows2 /\ f.input /\ (c.tied = TRUE => f.output)
      <4> HIDE DEF more
      <4>1. c.tied = TRUE => more2
        BY <2>2
      <4> HIDE DEF above, more2
      <4> QED BY <1>1, <2>2, <4>1
    <3>6. rows2 > rows
      BY <3>1, <3>2
    <3> QED BY <3>3, <3>4, <3>5, <3>6 DEF covered
  <2>3. CASE ~above
    <3>1. more /\ rows2 = need
      BY <1>7, <2>1, <2>3
    <3>2. need \in Nat /\ rows \in Nat /\ need > rows
      BY <1>2, <1>4, <3>1
    <3>3. \A id \in Model!Known(t) : id < need
      <4>1. \A id \in Model!Known(t) :
              id \in Nat /\ special \in Nat /\ id <= special /\ special < rows
        BY <1>3, <2>3, <3>1, <3>2
      <4> QED BY <3>2, <4>1
    <3>4. \A id \in covered : id < need
      BY <1>2
    <3>5. f.rows = need /\ f.input /\ f.output
      <4> HIDE DEF more
      <4>1. more2
        BY <3>1
      <4> HIDE DEF above, more2
      <4> QED BY <1>1, <3>1, <4>1
    <3> QED BY <3>2, <3>3, <3>4, <3>5 DEF covered
  <2> QED BY <2>2, <2>3
<1> QED BY <1>8, <1>9, <1>10 DEF Fits, f

\* No number is absent, and what may be put into the snapshot can be held.
LEMMA ModelGiven ==
  /\ None \notin Nat /\ MaxEdits \in Nat
  /\ \A f \in Model!Files : \A content \in ModelRevisions[f] : Model!Holdable(f, content)
  /\ \A counts \in DescriptorEdits \cup RunStreams : \A c \in counts : c.value \in Nat
BY MCModel DEF Model!AccountingAssumption, Model!SnapshotAssumption

\* The tokenizer is described and compared.
LEMMA DescribeTokenizerKeeps ==
  ASSUME ModelInv, Model!DescribeTokenizer, UNCHANGED Model!accountingVars
  PROVE  ModelInv'
<1> DEFINE t == IF snapshot["tokenizer"] = None THEN Model!NoTokenizer ELSE snapshot["tokenizer"]
<1>0. /\ stage = "tokenizer"
      /\ \/ /\ t \notin {Link, Malformed} /\ Model!Describable(t)
            /\ tokenizer' = t /\ stage' = "paired"
            /\ fit' = Model!Compatibility(config.vocab, config.vocab, config, t)
         \/ stage' = "refused" /\ UNCHANGED <<tokenizer, fit>>
      /\ UNCHANGED <<snapshot, edits, hashWeights, listing, files, complete, config, topology>>
      /\ UNCHANGED <<claims, headers, indexed, report, runtime>>
  BY DEF Model!DescribeTokenizer, Model!GoTo, Model!accountingVars
<1>1. SnapshotTyped'
  BY <1>0, SnapshotKept DEF ModelInv
<1>2. FilesTyped'
  BY <1>0 DEF ModelInv, FilesTyped
<1>3. HeadersInv'
  BY <1>0 DEF ModelInv, HeadersInv, Model!Verified, Model!Digest
<1>4. ReportsInv' /\ Model!CountIsPinned' /\ Model!RunIsConsistent'
  BY <1>0, NothingReported
<1>5. Model!ConfigIsPinned'
  BY <1>0 DEF ModelInv, Model!ConfigIsPinned, Model!Verified, Model!Digest
<1>6. fit = None /\ report = None /\ runtime = None /\ Model!Describes(config)
  BY <1>0 DEF ModelInv, StageInv, Unread, Told
<1>7. CASE stage' = "refused" /\ UNCHANGED <<tokenizer, fit>>
  <2>1. StageInv'
    BY <1>0, <1>6, <1>7 DEF ModelInv, StageInv, Unread, Told
  <2>2. Model!FitIsSound'
    BY <1>6, <1>7 DEF Model!FitIsSound
  <2> QED BY <1>1, <1>2, <1>3, <1>4, <1>5, <2>1, <2>2 DEF ModelInv
<1>8. CASE /\ t \notin {Link, Malformed} /\ Model!Describable(t)
           /\ tokenizer' = t /\ stage' = "paired"
           /\ fit' = Model!Compatibility(config.vocab, config.vocab, config, t)
  <2>1. Model!Tokenizes(t)
    <3>1. Model!Tokenizes(Model!NoTokenizer)
      <4>1. /\ Model!Vocab(Model!NoTokenizer) = <<>> /\ Model!NoTokenizer.added = <<>>
            /\ Model!NoTokenizer.pieces = {} /\ Model!NoTokenizer.special = {}
            /\ Model!NoTokenizer.declared = None
        BY DEF Model!Vocab, Model!NoTokenizer
      <4>2. DOMAIN <<>> = {} /\ Model!Range(<<>>) = {} /\ IsFiniteSet({})
        BY FS_EmptySet DEF Model!Range
      <4>3. Model!Range(Model!Ids(Model!NoTokenizer)) = {}
        BY <4>1, <4>2 DEF Model!Ids, Model!Range
      <4>4. Model!Known(Model!NoTokenizer) = {}
        BY <4>1 DEF Model!Known
      <4> QED BY <4>1, <4>2, <4>3, <4>4, SameCounts DEF Model!Tokenizes, Model!Numbers
    <3>2. CASE snapshot["tokenizer"] # None
      <4>1. "tokenizer" \in Model!Files
        BY DEF Model!Files, Model!Walk
      <4>2. Model!Holdable("tokenizer", snapshot["tokenizer"])
        BY <4>1 DEF ModelInv, SnapshotTyped
      <4> QED BY <1>8, <3>2, <4>2 DEF Model!Holdable, Model!Shards
    <3> QED BY <3>1, <3>2
  <2> HIDE DEF t
  <2>2. config.vocab \in Nat \cup {None}
    BY <1>6 DEF Model!Describes
  <2>3. Fits(t, config.vocab, config.tied, fit')
    BY <1>8, <2>1, <2>2, ModelGiven, CompatibilityFits
  <2>4. Model!FitIsSound'
    <3>1. tokenizer' = t /\ config' = config
      BY <1>0, <1>8
    <3>2. Model!FitIsSound' =
            (fit' # None =>
               LET ids == About(t)
               IN /\ fit'.status = "compatible" => \A id \in ids : id < config.vocab
                  /\ fit'.status = "resize_required" =>
                       /\ \A id \in ids : id < fit'.rows
                       /\ fit'.rows > config.vocab /\ fit'.input
                       /\ config.tied = TRUE => fit'.output)
      BY <3>1 DEF Model!FitIsSound, About
    <3> QED BY <2>3, <3>2 DEF Fits
  <2>5. StageInv'
    <3>1. fit'.status \in {"resize_required", "unverified", "compatible"}
      BY <2>3 DEF Fits
    <3>2. stage' = "paired" /\ UNCHANGED <<config, topology, headers, report, runtime>>
      BY <1>0, <1>8
    <3> QED BY <1>0, <1>6, <3>1, <3>2 DEF ModelInv, StageInv, Unread, Told
  <2> QED BY <1>1, <1>2, <1>3, <1>4, <1>5, <2>4, <2>5 DEF ModelInv
<1> QED BY <1>0, <1>7, <1>8

-----------------------------------------------------------------------------
(* Model: accounting *)

\* What accounting leaves alone of inspection.
LEMMA InspectionKept ==
  ASSUME ModelInv, UNCHANGED <<snapshot, edits, hashWeights, listing, files, complete, config,
                               topology, tokenizer, fit>>
  PROVE  SnapshotTyped' /\ FilesTyped' /\ Model!ConfigIsPinned' /\ Model!FitIsSound'
<1>1. SnapshotTyped'
  BY SnapshotKept DEF ModelInv
<1>2. FilesTyped'
  BY DEF ModelInv, FilesTyped
<1>3. Model!ConfigIsPinned'
  BY DEF ModelInv, Model!ConfigIsPinned, Model!Verified, Model!Digest
<1>4. Model!FitIsSound'
  BY DEF ModelInv, Model!FitIsSound
<1> QED BY <1>1, <1>2, <1>3, <1>4

\* A descriptor is taken as it was made or as it was edited.
LEMMA StartAccountingKeeps ==
  ASSUME ModelInv, Model!StartAccounting
  PROVE  ModelInv'
<1> USE DEF Model!StartAccounting, Model!GoTo
<1>1. SnapshotTyped' /\ FilesTyped' /\ Model!ConfigIsPinned' /\ Model!FitIsSound'
  BY InspectionKept
<1>2. ReportsInv' /\ Model!CountIsPinned' /\ Model!RunIsConsistent'
  BY NothingReported
<1>3. StageInv'
  BY DEF ModelInv, StageInv, Unread, Told
<1>4. \A c \in claims' : c.value \in Nat
  <2>1. CASE claims' = Model!Declared
    BY <2>1 DEF ModelInv, StageInv, Told, Model!Describes, Model!Declared
  <2>2. CASE claims' \in DescriptorEdits
    BY <2>2, ModelGiven
  <2> QED BY <2>1, <2>2
<1>5. HeadersInv'
  BY <1>4 DEF ModelInv, HeadersInv, Model!Verified, Model!Digest
<1> QED BY <1>1, <1>2, <1>3, <1>5 DEF ModelInv

\* A header is that of the file that was verified, or none.
LEMMA ReadHeaderKeeps ==
  ASSUME ModelInv, Model!ReadHeader
  PROVE  ModelInv'
<1> DEFINE unread == {f \in Model!ShardFiles : headers[f] = None}
           g == Model!First(unread)
<1>0. /\ stage = "headers"
      /\ \/ headers' = [headers EXCEPT ![g] = Model!Gap]
         \/ Model!Readable(g) /\ headers' = [headers EXCEPT ![g] = snapshot[g]]
      /\ UNCHANGED <<snapshot, edits, hashWeights, listing, files, complete, config, topology,
                     tokenizer, fit, stage, claims, indexed, report, runtime>>
  BY DEF Model!ReadHeader, Model!inspectionVars
<1> HIDE DEF g
<1>1. SnapshotTyped' /\ FilesTyped' /\ Model!ConfigIsPinned' /\ Model!FitIsSound'
  BY <1>0, InspectionKept
<1>2. ReportsInv' /\ Model!CountIsPinned' /\ Model!RunIsConsistent'
  BY <1>0, NothingReported
<1>3. StageInv'
  BY <1>0 DEF ModelInv, StageInv, Unread, Told
<1>4. HeadersInv'
  <2>1. DOMAIN headers' = Model!Shards /\ \A c \in claims' : c.value \in Nat
    BY <1>0 DEF ModelInv, HeadersInv
  <2>2. ASSUME NEW f \in Model!Shards, headers'[f] \notin {None, Model!Gap}
        PROVE  /\ headers'[f].tensors # None /\ IsFiniteSet(headers'[f].tensors)
               /\ Model!Verified(f)' => headers'[f] = Model!Digest(f)'
    <3>1. CASE headers'[f] = headers[f]
      BY <1>0, <2>2, <3>1 DEF ModelInv, HeadersInv, Model!Verified, Model!Digest
    <3>2. CASE headers'[f] # headers[f]
      <4>1. f = g /\ headers'[f] = snapshot[f] /\ Model!Readable(f)
        BY <1>0, <2>2, <3>2 DEF ModelInv, HeadersInv
      <4>2. f \in Model!Files /\ f \notin {"config", "tokenizer", "pickle", "index"}
        BY DEF Model!Files, Model!Walk, Model!Shards
      <4>3. Model!Holdable(f, snapshot[f])
        BY <4>2 DEF ModelInv, SnapshotTyped
      <4>4. snapshot[f].tensors # None /\ Model!IsFiniteSet(snapshot[f].tensors)
        BY <4>1, <4>2, <4>3 DEF Model!Holdable, Model!Readable, Model!Present
      <4>5. Model!Verified(f)' => snapshot[f] = Model!Digest(f)'
        BY <1>0, <4>1 DEF Model!Readable, Model!Verified, Model!Digest
      <4> QED BY <4>1, <4>4, <4>5, SameCounts
    <3> QED BY <3>1, <3>2
  <2> QED BY <2>1, <2>2 DEF HeadersInv
<1> QED BY <1>1, <1>2, <1>3, <1>4 DEF ModelInv

\* The index.
LEMMA ReadIndexKeeps ==
  ASSUME ModelInv, Model!ReadIndex
  PROVE  ModelInv'
<1>0. /\ stage = "headers" /\ stage' = "report"
      /\ UNCHANGED <<snapshot, edits, hashWeights, listing, files, complete, config, topology,
                     tokenizer, fit, claims, headers, report, runtime>>
  BY DEF Model!ReadIndex, Model!GoTo
<1>1. SnapshotTyped' /\ FilesTyped' /\ Model!ConfigIsPinned' /\ Model!FitIsSound'
  BY <1>0, InspectionKept
<1>2. ReportsInv' /\ Model!CountIsPinned' /\ Model!RunIsConsistent'
  BY <1>0, NothingReported
<1>3. StageInv'
  BY <1>0 DEF ModelInv, StageInv, Unread, Told
<1>4. HeadersInv'
  BY <1>0 DEF ModelInv, HeadersInv, Model!Verified, Model!Digest
<1> QED BY <1>1, <1>2, <1>3, <1>4 DEF ModelInv

-----------------------------------------------------------------------------
(* Model: reports *)

\* A report is as its observations are.
LEMMA SealedReport ==
  ASSUME NEW profile, NEW observations, NEW gaps,
         NEW r, r = Model!Sealed(profile, observations, gaps)
  PROVE  /\ r.observations = observations /\ r.status \in Model!Statuses
         /\ r.status = "conflicting" => Model!Conflicting(observations)
         /\ Model!Conflicting(observations) => r.status = "conflicting"
         /\ r.status = "complete" =>
              /\ ~Model!Conflicting(observations) /\ gaps = {}
              /\ \A k \in Model!Required(profile) :
                   \E o \in observations : o.kind = k /\ Model!Qualifies(profile, o)
<1> DEFINE missing == {k \in Model!Required(profile) :
                         ~\E o \in observations : o.kind = k /\ Model!Qualifies(profile, o)}
<1>1. /\ r.observations = observations
      /\ r.status = IF Model!Conflicting(observations) THEN "conflicting"
                    ELSE IF gaps \cup missing # {} THEN "incomplete" ELSE "complete"
  BY DEF Model!Sealed
<1>2. CASE Model!Conflicting(observations)
  BY <1>1, <1>2 DEF Model!Statuses
<1>3. CASE ~Model!Conflicting(observations) /\ gaps \cup missing # {}
  BY <1>1, <1>3 DEF Model!Statuses
<1>4. CASE ~Model!Conflicting(observations) /\ gaps \cup missing = {}
  BY <1>1, <1>4 DEF Model!Statuses
<1> QED BY <1>2, <1>3, <1>4

\* The headers count parameters only of the files that were verified.
LEMMA HeaderCounts ==
  ASSUME ModelInv, Model!Logical
  PROVE  /\ \A f \in Model!Inventoried \cap Model!Weights : f \in Model!Shards /\ Model!Verified(f)
         /\ Model!Total =
              Model!Cardinality(UNION {Model!Digest(f).tensors : f \in Model!ShardFiles})
<1>1. /\ "pickle" \notin Model!Inventoried /\ ~Model!Repeated /\ Model!Read = Model!ShardFiles
      /\ \A f \in Model!Read : Model!Verified(f)
  BY DEF Model!Logical, Model!Enumerated, Model!AllRead
<1>2. \A f \in Model!Inventoried \cap Model!Weights : f \in Model!Shards /\ Model!Verified(f)
  BY <1>1 DEF Model!Weights, Model!ShardFiles
<1>3. \A f \in Model!Read : Model!Tensors(f) = Model!Digest(f).tensors
  BY <1>1 DEF ModelInv, HeadersInv, Model!Read, Model!Tensors
<1>4. Model!Names = UNION {Model!Digest(f).tensors : f \in Model!ShardFiles}
  BY <1>1, <1>3 DEF Model!Names
<1>5. Model!Total = Model!Cardinality(Model!Names)
  BY <1>1, EntriesCounted DEF ModelInv
<1> QED BY <1>2, <1>4, <1>5

\* The report on a model.
LEMMA SealReportKeeps ==
  ASSUME ModelInv, Model!SealReport
  PROVE  ModelInv'
<1> DEFINE claim == {Model!Claimed(c) : c \in {d \in claims : Model!Usable(d)}}
           read == IF Model!Read = {} THEN {} ELSE {Model!Header}
<1>0. /\ stage = "report" /\ stage' = "reported"
      /\ UNCHANGED <<snapshot, edits, hashWeights, listing, files, complete, config, topology,
                     tokenizer, fit, claims, headers, indexed, runtime>>
      /\ \/ report' = Model!Sealed("model_static", claim, Model!ClaimGaps)
         \/ report' = Model!Sealed("model_static", claim \cup read,
                                   Model!ClaimGaps \cup Model!HeaderGaps)
  BY DEF Model!SealReport, Model!GoTo
<1>1. SnapshotTyped' /\ FilesTyped' /\ Model!ConfigIsPinned' /\ Model!FitIsSound'
  BY <1>0, InspectionKept
<1>2. \A o \in claim : o.basis = "declared_definition" /\ o.value \in Nat
  <2> SUFFICES ASSUME NEW c \in claims
               PROVE  /\ Model!Claimed(c).basis = "declared_definition"
                      /\ Model!Claimed(c).value \in Nat
    OBVIOUS
  <2>1. c.value \in Nat
    BY DEF ModelInv, HeadersInv
  <2> QED BY <2>1 DEF Model!Claimed
<1>3. \A o \in read : /\ o.value = Model!Total /\ o.value \in Nat
                      /\ o.basis = "independent_coordinates" => Model!Logical
  <2>1. Model!Total \in Nat
    BY EntriesCounted DEF ModelInv
  <2>2. /\ Model!Header.value = Model!Total
        /\ Model!Header.basis = IF Model!Logical THEN "independent_coordinates"
                                ELSE "stored_tensor_elements"
    BY DEF Model!Header
  <2>3. Model!Header.basis = "independent_coordinates" => Model!Logical
    BY <2>2
  <2> QED BY <2>1, <2>2, <2>3
<1> HIDE DEF claim, read
<1>4. PICK observations, gaps :
         /\ observations \subseteq claim \cup read /\ Model!ClaimGaps \subseteq gaps
         /\ report' = Model!Sealed("model_static", observations, gaps)
  <2>1. CASE report' = Model!Sealed("model_static", claim, Model!ClaimGaps)
    BY <2>1
  <2>2. CASE report' = Model!Sealed("model_static", claim \cup read,
                                    Model!ClaimGaps \cup Model!HeaderGaps)
    BY <2>2
  <2> QED BY <1>0, <2>1, <2>2
<1>5. /\ report'.observations = observations /\ report'.status \in Model!Statuses
      /\ report'.status = "conflicting" => Model!Conflicting(observations)
      /\ report'.status = "complete" =>
           /\ gaps = {}
           /\ \A k \in Model!Required("model_static") :
                \E o \in observations : o.kind = k /\ Model!Qualifies("model_static", o)
  BY <1>4, SealedReport
<1>6. runtime = None /\ runtime' = None
  BY <1>0 DEF ModelInv, StageInv
<1>7. StageInv'
  BY <1>0, <1>6 DEF ModelInv, StageInv, Unread, Told
<1>8. HeadersInv'
  BY <1>0 DEF ModelInv, HeadersInv, Model!Verified, Model!Digest
<1>9. ReportsInv'
  <2>1. \A o \in observations : o.value \in Nat
    BY <1>2, <1>3, <1>4
  <2>2. (Model!Conflicting(report.observations))' = Model!Conflicting(observations)
    BY <1>5 DEF Model!Conflicting, Model!Contradict, Model!Authoritative
  <2> QED BY <1>5, <1>6, <2>1, <2>2 DEF ReportsInv
<1>10. Model!CountIsPinned'
  <2>1. ASSUME NEW o \in observations, o.basis = "independent_coordinates"
        PROVE  Model!Logical /\ o.value = Model!Total
    BY <1>2, <1>3, <1>4, <2>1
  <2>2. ASSUME NEW o \in observations, o.basis = "independent_coordinates"
        PROVE  /\ \A f \in Model!Inventoried \cap Model!Weights :
                     f \in Model!Shards /\ Model!Verified(f)
               /\ o.value =
                    Model!Cardinality(UNION {Model!Digest(f).tensors : f \in Model!ShardFiles})
    BY <2>1, <2>2, HeaderCounts
  <2>3. ASSUME report'.status = "complete"
        PROVE  Model!Pinned /\ \E o \in observations : o.evidence = "measured"
    <3>1. Model!Pinned
      BY <1>4, <1>5, <2>3 DEF Model!ClaimGaps
    <3>2. "logical" \in Model!Required("model_static")
      BY DEF Model!Required
    <3>3. PICK o \in observations : Model!Qualifies("model_static", o)
      BY <1>5, <2>3, <3>2
    <3>4. o.evidence = "measured"
      BY <3>3 DEF Model!Qualifies
    <3> QED BY <3>1, <3>4
  <2>4. /\ Model!Inventoried' = Model!Inventoried /\ Model!ShardFiles' = Model!ShardFiles
        /\ Model!Pinned' = Model!Pinned
        /\ \A f : Model!Verified(f)' = Model!Verified(f) /\ Model!Digest(f)' = Model!Digest(f)
    BY <1>0 DEF Model!Inventoried, Model!ShardFiles, Model!Pinned, Model!Verified, Model!Digest
  <2>5. (UNION {Model!Digest(f).tensors : f \in Model!ShardFiles})' =
           UNION {Model!Digest(f).tensors : f \in Model!ShardFiles}
    BY <2>4
  <2>6. \A o \in observations : o.basis = "independent_coordinates" =>
           /\ \A f \in Model!Inventoried' \cap Model!Weights :
                f \in Model!Shards /\ Model!Verified(f)'
           /\ o.value =
                Model!Cardinality((UNION {Model!Digest(f).tensors : f \in Model!ShardFiles})')
    BY <2>2, <2>4, <2>5
  <2> QED BY <1>5, <2>3, <2>4, <2>6 DEF Model!CountIsPinned
<1>11. Model!RunIsConsistent'
  BY <1>6 DEF Model!RunIsConsistent
<1> QED BY <1>1, <1>7, <1>8, <1>9, <1>10, <1>11 DEF ModelInv

\* The report on a run goes on from the model's.
LEMMA ReconcileKeeps ==
  ASSUME ModelInv, Model!Reconcile
  PROVE  ModelInv'
<1>0. /\ stage = "reported"
      /\ UNCHANGED <<snapshot, edits, hashWeights, listing, files, complete, config, topology,
                     tokenizer, fit, claims, headers, indexed, report>>
  BY DEF Model!Reconcile
<1>1. SnapshotTyped' /\ FilesTyped' /\ Model!ConfigIsPinned' /\ Model!FitIsSound'
  BY <1>0, InspectionKept
<1>2. HeadersInv'
  BY <1>0 DEF ModelInv, HeadersInv, Model!Verified, Model!Digest
<1>3. Model!CountIsPinned'
  BY <1>0 DEF ModelInv, Model!CountIsPinned, Model!Inventoried, Model!Pinned, Model!ShardFiles,
              Model!Verified, Model!Digest
<1>4. runtime = None /\ report.status \in Model!Statuses
      /\ (report.status = "conflicting" => Model!Conflicting(report.observations))
      /\ \A o \in report.observations : o.value \in Nat
  BY <1>0 DEF ModelInv, StageInv, ReportsInv
<1>5. (Model!Conflicting(report.observations))' = Model!Conflicting(report.observations)
  BY <1>0 DEF Model!Conflicting, Model!Contradict, Model!Authoritative
<1>6. PICK profile \in Model!Runtime, stream \in RunStreams :
         LET observations == report.observations \cup stream
         IN IF Model!Consistent(observations)
              THEN runtime' = Model!Sealed(profile, observations, {}) /\ stage' = "reconciled"
              ELSE stage' = "refused" /\ runtime' = runtime
  BY DEF Model!Reconcile, Model!GoTo
<1> DEFINE observations == report.observations \cup stream
<1>7. CASE stage' = "refused" /\ runtime' = runtime
  <2>1. StageInv'
    BY <1>0, <1>4, <1>7 DEF ModelInv, StageInv, Unread, Told
  <2>2. ReportsInv' /\ Model!RunIsConsistent'
    BY <1>0, <1>4, <1>7 DEF ReportsInv, Model!RunIsConsistent
  <2> QED BY <1>1, <1>2, <1>3, <2>1, <2>2 DEF ModelInv
<1>8. CASE /\ Model!Consistent(observations) /\ stage' = "reconciled"
           /\ runtime' = Model!Sealed(profile, observations, {})
  <2>1. /\ runtime'.observations = observations /\ runtime'.status \in Model!Statuses
        /\ Model!Conflicting(observations) => runtime'.status = "conflicting"
        /\ runtime'.status = "complete" => ~Model!Conflicting(observations)
    BY <1>8, SealedReport
  <2>2. \A o \in observations : o.value \in Nat
    BY <1>4, ModelGiven
  <2>3. Model!Conflicting(report.observations) => Model!Conflicting(observations)
    BY DEF Model!Conflicting
  <2> HIDE DEF observations
  <2>4. ASSUME ~Model!Conflicting(observations),
               NEW o \in observations, NEW p \in observations,
               o.scope.id = p.scope.id, o.kind \in Model!Bounded, p.kind = "logical",
               Model!Authoritative(o), Model!Authoritative(p)
        PROVE  o.value <= p.value
    <3>1. o.scope = p.scope
      BY <1>8, <2>4 DEF Model!Consistent
    <3>2. ~Model!Contradict(o, p)
      BY <2>4 DEF Model!Conflicting
    <3>3. ~(o.value > p.value)
      BY <2>4, <3>1, <3>2 DEF Model!Contradict
    <3> QED BY <2>2, <3>3
  <2>5. Model!RunIsConsistent'
    <3>1. report.status = "conflicting" => runtime'.status = "conflicting"
      BY <1>4, <2>1, <2>3
    <3> QED BY <1>0, <2>1, <2>4, <3>1 DEF Model!RunIsConsistent, Model!Authoritative
  <2>6. ReportsInv'
    BY <1>0, <1>4, <1>5, <2>1 DEF ReportsInv
  <2>7. StageInv'
    BY <1>0, <1>8 DEF ModelInv, StageInv, Unread, Told
  <2> QED BY <1>1, <1>2, <1>3, <2>5, <2>6, <2>7 DEF ModelInv
<1> QED BY <1>6, <1>7, <1>8

\* Somebody else changes a file of the snapshot.
LEMMA ChangeFileKeeps ==
  ASSUME ModelInv, NEW g \in Model!Files, Model!ChangeFile(g), UNCHANGED Model!accountingVars
  PROVE  ModelInv'
<1>0. /\ edits < MaxEdits /\ edits' = edits + 1
      /\ \E content \in ModelRevisions[g] : snapshot' = [snapshot EXCEPT ![g] = content]
      /\ UNCHANGED <<stage, hashWeights, listing, files, complete, config, topology, tokenizer, fit,
                     claims, headers, indexed, report, runtime>>
  BY DEF Model!ChangeFile, Model!accountingVars
<1>1. SnapshotTyped'
  <2>1. edits' \in 0..MaxEdits
    BY <1>0, ModelGiven DEF ModelInv, SnapshotTyped
  <2>2. PICK content \in ModelRevisions[g] : snapshot' = [snapshot EXCEPT ![g] = content]
    BY <1>0
  <2>3. Model!Holdable(g, content)
    BY ModelGiven
  <2>4. \A f \in Model!Files : Model!Holdable(f, snapshot'[f])
    BY <2>2, <2>3 DEF ModelInv, SnapshotTyped
  <2>5. DOMAIN snapshot' = Model!Files
    BY <2>2 DEF ModelInv, SnapshotTyped
  <2> QED BY <2>1, <2>4, <2>5 DEF SnapshotTyped
<1>2. FilesTyped'
  BY <1>0 DEF ModelInv, FilesTyped
<1>3. Model!ConfigIsPinned'
  BY <1>0 DEF ModelInv, Model!ConfigIsPinned, Model!Verified, Model!Digest
<1>4. Model!FitIsSound'
  BY <1>0 DEF ModelInv, Model!FitIsSound
<1>5. HeadersInv' /\ ReportsInv' /\ Model!CountIsPinned' /\ Model!RunIsConsistent'
  BY <1>0, AccountsKept
<1>6. StageInv'
  BY <1>0 DEF ModelInv, StageInv
<1> QED BY <1>1, <1>2, <1>3, <1>4, <1>5, <1>6 DEF ModelInv

-----------------------------------------------------------------------------
(* Model: the invariant holds *)

\* Nothing is known at first, of a directory that can be.
LEMMA ModelInitially == Model!AccountingInit => ModelInv
<1> SUFFICES ASSUME Model!AccountingInit PROVE ModelInv
  OBVIOUS
<1> USE DEF Model!AccountingInit, Model!InspectionInit
<1>1. SnapshotTyped
  <2>1. snapshot \in ModelSnapshots /\ edits = 0
    OBVIOUS
  <2>2. DOMAIN snapshot = Model!Files /\ \A f \in Model!Files : Model!Holdable(f, snapshot[f])
    BY <2>1, MCModel DEF Model!AccountingAssumption, Model!SnapshotAssumption
  <2> QED BY <2>1, <2>2, ModelGiven DEF SnapshotTyped
<1>2. FilesTyped
  BY DEF FilesTyped
<1>3. StageInv
  BY DEF StageInv, Unread, Told
<1>4. HeadersInv
  BY DEF HeadersInv
<1>5. ReportsInv
  BY DEF ReportsInv
<1>6. Model!ConfigIsPinned /\ Model!FitIsSound /\ Model!CountIsPinned /\ Model!RunIsConsistent
  BY DEF Model!ConfigIsPinned, Model!FitIsSound, Model!CountIsPinned, Model!RunIsConsistent
<1> QED BY <1>1, <1>2, <1>3, <1>4, <1>5, <1>6 DEF ModelInv

\* Every step keeps what is known.
LEMMA ModelKept == ASSUME ModelInv, Model!AccountingNext PROVE ModelInv'
<1>1. CASE Model!Inspecting /\ UNCHANGED Model!accountingVars
  BY <1>1, ListFilesKeeps, RecordFileKeeps, InventoryDoneKeeps, DescribeModelKeeps,
     HashTokenizerKeeps, DescribeTokenizerKeeps
     DEF Model!Inspecting
<1>2. CASE Model!Accounting
  BY <1>2, StartAccountingKeeps, ReadHeaderKeeps, ReadIndexKeeps, SealReportKeeps, ReconcileKeeps
     DEF Model!Accounting
<1>3. CASE (\E f \in Model!Files : Model!ChangeFile(f)) /\ UNCHANGED Model!accountingVars
  BY <1>3, ChangeFileKeeps
<1> QED BY <1>1, <1>2, <1>3 DEF Model!AccountingNext

\* The model rests with its variables.
LEMMA ModelRest == ASSUME ModelInv, UNCHANGED modelVars PROVE ModelInv'
<1>1. UNCHANGED <<snapshot, edits, stage, hashWeights, listing, files, complete, config, topology,
                  tokenizer, fit, claims, headers, indexed, report, runtime>>
  BY DEF modelVars
<1>2. SnapshotTyped' /\ FilesTyped' /\ Model!ConfigIsPinned' /\ Model!FitIsSound'
  BY <1>1, InspectionKept
<1>3. HeadersInv' /\ ReportsInv' /\ Model!CountIsPinned' /\ Model!RunIsConsistent'
  BY <1>1, AccountsKept
<1>4. StageInv'
  BY <1>1 DEF ModelInv, StageInv
<1> QED BY <1>2, <1>3, <1>4 DEF ModelInv

-----------------------------------------------------------------------------
(* The composition *)

Components == {"environment", "run", "packages", "model", "probes"}

EvidenceInv == component \in Components /\ InputsInv /\ PackagesInv /\ ProbesInv /\ ModelInv

\* The packages, the probes and what is known of the model move alone, or rest.
LEMMA EvidenceMoves ==
  ASSUME [RunNext]_everything
  PROVE  /\ Packages!PackagesNext \/ UNCHANGED packageVars
         /\ Probes!Next \/ UNCHANGED probeVars
         /\ Model!AccountingNext \/ UNCHANGED modelVars
<1>1. CASE EnvironmentStep
  BY <1>1 DEF EnvironmentStep
<1>2. CASE RunStep
  BY <1>2 DEF RunStep
<1>3. CASE PackagesStep
  BY <1>3 DEF PackagesStep
<1>4. CASE ModelStep
  BY <1>4 DEF ModelStep
<1>5. CASE ProbesStep
  BY <1>5 DEF ProbesStep
<1>6. CASE Over
  BY <1>6 DEF Over
<1>7. CASE UNCHANGED everything
  BY <1>7 DEF everything
<1> QED BY <1>1, <1>2, <1>3, <1>4, <1>5, <1>6, <1>7 DEF RunNext

\* The invariants of all parts hold in every behaviour of the composition.
LEMMA EvidenceInvariant == RunSpec => []EvidenceInv
<1>1. (\E part \in {"environment", "run", "packages", "model", "probes"} : InitOf(part))
        => EvidenceInv
  BY PartsBegin, PackagesInitially, ProbesInitially, ModelInitially
     DEF InitOf, EvidenceInv, Components
<1>2. EvidenceInv /\ [RunNext]_everything => EvidenceInv'
  BY PartsMove, OneMoves, EvidenceMoves, PackagesKept, PackagesRest, ProbesKept, ProbesRest, ModelKept,
     ModelRest DEF EvidenceInv
<1> QED BY <1>1, <1>2, PTL DEF RunSpec, everything

\* The type of the part that moves, in all five.
THEOREM PartsTyped == RunSpec => []RunTypeOK
<1>1. InputsInv => TypeOK /\ Run!TypeOK
  BY DEF InputsInv, IInv
<1>2. PackagesInv => Packages!TypeOK
  <2> SUFFICES ASSUME PackagesInv PROVE Packages!TypeOK
    OBVIOUS
  <2>1. WheelTyped /\ ManagerTyped /\ SiteTyped /\ SeenTyped
    BY DEF PackagesInv, PackagesTyped
  <2>2. \A i \in Packages!Sites : \A p \in Packages!Names : i[p] = None \/ i[p] \in Packages!Installed
    BY DEF Packages!Sites
  <2>3. \A i \in {inventory, before, probed} :
           i = None \/ \A p \in Packages!Names : i[p] = None \/ i[p] \in Packages!Installed
    BY <2>1, <2>2 DEF SeenTyped
  <2>4. /\ \A p \in Packages!Names : site[p] = None \/ site[p] \in Packages!Installed
        /\ \/ lock = None
           \/ \A p \in Packages!Names :
                lock.packages[p] = None \/ lock.packages[p] \in Packages!Installed
    BY <2>1, <2>2 DEF SiteTyped, SeenTyped
  <2>5. plan = None \/ plan \in Packages!Plans
    BY <2>1 DEF ManagerTyped
  <2> QED BY <2>1, <2>3, <2>4, <2>5, Zenon DEF WheelTyped, ManagerTyped, SiteTyped, SeenTyped,
                                         Packages!TypeOK
<1>3. ProbesInv => Probes!TypeOK
  BY DEF ProbesInv, ProbesTyped
<1>4. ModelInv => Model!AccountingTypeOK
  <2> SUFFICES ASSUME ModelInv PROVE Model!AccountingTypeOK
    OBVIOUS
  <2>1. Model!InspectionTypeOK
    BY DEF ModelInv, SnapshotTyped, FilesTyped, StageInv, Model!InspectionTypeOK
  <2>2. \A r \in {report, runtime} : r = None \/ r.status \in Model!Statuses
    BY DEF ModelInv, ReportsInv
  <2>3. \A f \in Model!Shards : headers[f] \in {None, Model!Gap} \/ headers[f].tensors # None
    BY DEF ModelInv, HeadersInv
  <2> QED BY <2>1, <2>2, <2>3 DEF Model!AccountingTypeOK
<1>5. EvidenceInv => RunTypeOK
  <2> SUFFICES ASSUME EvidenceInv PROVE RunTypeOK
    OBVIOUS
  <2>1. TypeOK /\ Run!TypeOK /\ Packages!TypeOK /\ Probes!TypeOK /\ Model!AccountingTypeOK
    BY <1>1, <1>2, <1>3, <1>4 DEF EvidenceInv
  <2>2. component \in Components
    BY DEF EvidenceInv
  <2> QED BY <2>1, <2>2 DEF RunTypeOK, Components
<1> QED BY <1>5, EvidenceInvariant, PTL

\* A sealed lock tells what was reviewed, and what is sealed and what a capability report is bound
\* to is what the probes imported (_validate_creation, _finalize_lock, _create_unlocked and
\* _capability_snapshot_unlocked), for any history of commits.
THEOREM SealsTrue == RunSpec => []SealIsTrue
<1>1. EvidenceInv => SealIsTrue
  BY PackagesSealed DEF EvidenceInv, SealIsTrue
<1> QED BY <1>1, EvidenceInvariant, PTL

\* A tuple that a capability report claims, and one that the manager accepts as evidence, was
\* executed as it says by a probe that left the process as it found it (run_capability_probes and
\* _complete_probe_evidence), for any recipes, readings and number of faults.
THEOREM ClaimsEarned == RunSpec => []ClaimsAreEarned
<1>1. ProbesInv => ClaimsAreEarned
  BY DEF ProbesInv, ProbesTyped, ResultsInv, AcceptedInv, Earned, ClaimsAreEarned,
         Probes!ClaimsAreEarned
<1>2. EvidenceInv => ClaimsAreEarned
  BY <1>1 DEF EvidenceInv
<1> QED BY <1>2, EvidenceInvariant, PTL

\* What inspection and accounting report is true of the contents whose digests they report
\* (inspect_model, check_model_tokenizer_compatibility, build_model_parameter_accounting and
\* reconcile_parameter_accounting_events), whatever the snapshot holds and however often others
\* change it.
THEOREM InspectionTrue == RunSpec => []InspectionIsTrue
<1>1. ModelInv => InspectionIsTrue
  BY DEF ModelInv, InspectionIsTrue, Model!InspectionIsTrue
<1>2. EvidenceInv => InspectionIsTrue
  BY <1>1 DEF EvidenceInv
<1> QED BY <1>2, EvidenceInvariant, PTL
=============================================================================
