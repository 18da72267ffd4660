----------------------------- MODULE WorkerWheel -----------------------------
(***************************************************************************)
(* build-worker-wheel (cli.py) and platform/build_provenance.py: the       *)
(* worker's wheel is built from the repository's checkout, the commit it   *)
(* was built from and the required floor are embedded in it, and the       *)
(* result is put through the check that admission makes.                   *)
(*                                                                         *)
(* The checkout stays an ordinary directory while pip builds from it:      *)
(* others edit tracked files, add untracked ones, commit and check out.    *)
(* Git objects never change, so commits form a fixed history.              *)
(***************************************************************************)
EXTENDS Naturals, FiniteSets, Sequences

CONSTANTS Ancestors,   \* commit -> the commits it descends from, itself among them
          None,
          MaxMoves     \* bound on what others do to the checkout

VARIABLES head,        \* the commit that HEAD names
          tree,        \* what the tracked files hold: a commit's content, or an edit
          untracked,   \* an untracked module lies in the checkout
          at,          \* the builder's next step
          floor,       \* the --required-ancestor asked for
          claimed,     \* source_commit, as resolved from HEAD
          built,       \* what the wheel in the private build directory was made from
          wheel,       \* the wheel in the destination
          beside,      \* the external BUILD_PROVENANCE.json next to it
          moves

checkout == <<head, tree, untracked, moves>>
builderVars == <<at, floor, claimed, built, wheel, beside>>
wheelVars == <<head, tree, untracked, moves, at, floor, claimed, built, wheel, beside>>

Commits == DOMAIN Ancestors

\* Every commit has a history, which holds it and the histories of its members.
WheelAssumption ==
  /\ IsFiniteSet(Commits) /\ None \notin Commits /\ MaxMoves \in Nat
  /\ \A c \in Commits : /\ c \in Ancestors[c] /\ Ancestors[c] \subseteq Commits
                        /\ \A a \in Ancestors[c] : Ancestors[a] \subseteq Ancestors[c]

\* What a wheel is made from: the tracked files, and whether an untracked module came along.
Of(c) == [tracked |-> c, extra |-> FALSE]
Sources == [tracked : Commits \cup {"edited"}, extra : BOOLEAN]

\* The embedded BUILD_PROVENANCE.json; a floor or a commit that is not canonical is None.
Provenances == [commit : Commits \cup {None}, floor : Commits \cup {None}]

\* A wheel: its files, the provenance embedded in it, and whether RECORD seals that provenance.
WheelOf(payloads) ==
  [payload : payloads, provenance : Provenances \cup {None}, sealed : BOOLEAN]

WheelTypeOK ==
  /\ head \in Commits /\ tree \in Commits \cup {"edited"} /\ untracked \in BOOLEAN
  /\ at \in {"resolve", "validate", "prepare", "build", "recheck", "stamp", "copy", "admit",
             "built", "refused"}
  /\ floor \in Commits \cup {None} /\ claimed \in Commits \cup {None}
  /\ built \in Sources \cup {None}
  /\ wheel = None \/ wheel.sealed \in BOOLEAN
  /\ beside \in Provenances \cup {None}
  /\ moves \in 0..MaxMoves

\* A clean checkout; the destination is fresh or holds what an interrupted build left there.
WheelInit ==
  /\ head \in Commits /\ tree = head /\ untracked = FALSE
  /\ at = "resolve" /\ floor \in Commits \cup {None}
  /\ claimed = None /\ built = None /\ beside = None /\ moves = 0
  /\ wheel \in {None, [payload |-> Of(head), provenance |-> None, sealed |-> FALSE]}

Next_(step) == at' = step
Refuse == at' = "refused" /\ UNCHANGED <<floor, claimed, built, wheel, beside>>

-----------------------------------------------------------------------------
(* The builder *)

\* git rev-parse HEAD.
ResolveHead ==
  /\ at = "resolve"
  /\ Next_("validate") /\ claimed' = head
  /\ UNCHANGED <<checkout, floor, built, wheel, beside>>

\* git status --porcelain, with or without the untracked files.
Clean == tree = head /\ ~untracked
TrackedClean == tree = head

\* validate_source_commit_against_repo: a clean checkout, and a canonical floor from which the
\* commit descends.
DescendsFrom(commit, ancestor) == ancestor # None /\ ancestor \in Ancestors[commit]

ValidateSource ==
  /\ at = "validate"
  /\ IF Clean /\ DescendsFrom(claimed, floor)
       THEN Next_("prepare") /\ UNCHANGED <<floor, claimed, built, wheel, beside>>
       ELSE Refuse
  /\ UNCHANGED checkout

\* A destination that already holds a worker wheel is refused.
PrepareDestination ==
  /\ at = "prepare"
  /\ IF wheel = None
       THEN Next_("build") /\ UNCHANGED <<floor, claimed, built, wheel, beside>>
       ELSE Refuse
  /\ UNCHANGED checkout

\* pip wheel copies the checkout as it is now into a private directory; or the build fails.
BuildWheel ==
  /\ at = "build"
  /\ \/ /\ Next_("recheck") /\ built' = [tracked |-> tree, extra |-> untracked]
        /\ UNCHANGED <<floor, claimed, wheel, beside>>
     \/ Refuse
  /\ UNCHANGED checkout

\* The tracked files must still be clean; the wheel moves to the destination.
RecheckSource ==
  /\ at = "recheck"
  /\ IF TrackedClean
       THEN /\ Next_("stamp")
            /\ wheel' = [payload |-> built, provenance |-> None, sealed |-> FALSE]
            /\ UNCHANGED <<floor, claimed, built, beside>>
       ELSE Refuse
  /\ UNCHANGED checkout

\* stamp_wheel_with_provenance: the provenance and its RECORD line, by an atomic replace.
StampWheel ==
  /\ at = "stamp"
  /\ Next_("copy")
  /\ wheel' = [payload |-> wheel.payload, sealed |-> TRUE,
               provenance |-> [commit |-> claimed, floor |-> floor]]
  /\ UNCHANGED <<checkout, floor, claimed, built, beside>>

\* The external copy is written after the wheel, or not asked for.
CopyProvenance ==
  /\ at = "copy"
  /\ Next_("admit") /\ beside' \in {None, wheel.provenance}
  /\ UNCHANGED <<checkout, floor, claimed, built, wheel>>

\* validate_wheel_provenance_for_sealed_admission: what is embedded is canonical and sealed by
\* RECORD, an external copy agrees with it, and it names what the caller reviewed, if anything.
\* What it names is not compared with any repository.
Admissible(w, copy, expectedFloor, expectedCommit) ==
  /\ w # None /\ w.provenance # None
  /\ w.provenance.commit # None /\ w.provenance.floor # None
  /\ w.sealed
  /\ copy \in {None, w.provenance}
  /\ expectedFloor \in {None, w.provenance.floor}
  /\ expectedCommit \in {None, w.provenance.commit}

AdmitBuilt ==
  /\ at = "admit"
  /\ IF Admissible(wheel, beside, None, None)
       THEN Next_("built") /\ UNCHANGED <<floor, claimed, built, wheel, beside>>
       ELSE Refuse
  /\ UNCHANGED checkout

Building ==
  \/ ResolveHead \/ ValidateSource \/ PrepareDestination \/ BuildWheel \/ RecheckSource
  \/ StampWheel \/ CopyProvenance \/ AdmitBuilt

-----------------------------------------------------------------------------
(* Others at work in the checkout *)

Move == moves < MaxMoves /\ moves' = moves + 1 /\ UNCHANGED builderVars

\* A tracked file is edited; git checkout of a commit; an untracked module appears or goes.
EditTracked == Move /\ tree' = "edited" /\ UNCHANGED <<head, untracked>>
CheckOut(c) == Move /\ head' = c /\ tree' = c /\ UNCHANGED untracked
LeaveUntracked == Move /\ untracked' = ~untracked /\ UNCHANGED <<head, tree>>

Elsewhere ==
  /\ at \notin {"built", "refused"}
  /\ EditTracked \/ LeaveUntracked \/ \E c \in Commits : CheckOut(c)

-----------------------------------------------------------------------------
(* Properties *)

\* A wheel that the builder hands out was made from exactly the commit it names
\* (build_worker_wheel: "it makes no false source claim possible").
NoFalseClaim == at = "built" => wheel.payload = Of(wheel.provenance.commit)
=============================================================================
