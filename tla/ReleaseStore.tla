---------------------------- MODULE ReleaseStore ----------------------------
(***************************************************************************)
(* The release tables of the public VPS: scripts/import_public_release.py  *)
(* stages a bundle, accepts it and promotes it over its exact parent, and  *)
(* scripts/rollback_public_release.py restores the parent.  Each command   *)
(* is one transaction that locks the pointer row or the release rows it    *)
(* decides on; anybody who may run them (the publisher on HOME, a command  *)
(* of it that was given up for lost, an operator) runs them in any order.  *)
(*                                                                         *)
(* Releases are numbered in the order in which their bundles are built.  A *)
(* bundle names as its parent the release that was live when it was built, *)
(* so a parent precedes its children.  Payloads, checksums and counts are  *)
(* left out: a bundle is immutable and its number stands for its content.  *)
(***************************************************************************)
EXTENDS Naturals, FiniteSets

CONSTANT NumReleases  \* bound: releases ever built

ASSUME ReleaseAssumption == NumReleases \in Nat

Releases == 1..NumReleases
NoRelease == 0

VARIABLES
    store,    \* public_releases: status and parent of each release
    pointer   \* public_publication_state.active_release_id

storeVars == <<store, pointer>>

ReleaseStatus == {"absent", "staged", "active", "rolled_back"}

\* stage_release of a bundle that is not stored yet.  Its parent must be the
\* active release.  A bundle that is stored already is left as it is.
Stage(r, parent) ==
    /\ store[r].status = "absent"
    /\ parent = pointer
    /\ store' = [store EXCEPT ![r] = [status |-> "staged", parent |-> parent]]
    /\ UNCHANGED pointer

\* accept_staged_release succeeds; it changes nothing.
Acceptable(r) ==
    \/ store[r].status = "active"
    \/ store[r].status = "staged" /\ store[r].parent = pointer

\* Mutant: whatever was staged is promoted, its parent is not compared.
PromotableStaged(r) == store[r].status = "staged"

\* Mutant: a release that was rolled back is promoted again.
PromotableAgain(r) ==
    store[r].status \in {"staged", "rolled_back"} /\ store[r].parent = pointer

Promotable(r) == store[r].status = "staged" /\ store[r].parent = pointer

\* promote_release.  Promoting the active release again changes nothing.
Promote(r) ==
    /\ Promotable(r)
    /\ store' = [s \in Releases |->
          IF s = r THEN [store[s] EXCEPT !.status = "active"]
          ELSE IF s = pointer THEN [store[s] EXCEPT !.status = "staged"]
          ELSE store[s]]
    /\ pointer' = r

\* rollback_release: the target must be the parent of the active release.
Rollback(target) ==
    /\ pointer # NoRelease
    /\ target = store[pointer].parent
    /\ target # NoRelease
    /\ store' = [s \in Releases |->
          IF s = pointer THEN [store[s] EXCEPT !.status = "rolled_back"]
          ELSE IF s = target THEN [store[s] EXCEPT !.status = "active"]
          ELSE store[s]]
    /\ pointer' = target

StoreInit ==
    /\ store = [r \in Releases |-> [status |-> "absent", parent |-> NoRelease]]
    /\ pointer = NoRelease

StoreNext ==
    \/ \E r \in Releases : \E parent \in 0..(r - 1) : Stage(r, parent)
    \/ \E r \in Releases : Promote(r)
    \/ \E target \in Releases : Rollback(target)

StoreSpec == StoreInit /\ [][StoreNext]_storeVars

-----------------------------------------------------------------------------
(* Properties.                                                             *)

\* The shape of the tables.
StoreTypeOK ==
    /\ store \in [Releases -> [status : ReleaseStatus, parent : 0..NumReleases]]
    /\ pointer \in 0..NumReleases

\* Readers find exactly one active release through the pointer, and the rows
\* agree with it, whatever commands raced.
PointerNamesActive ==
    \A r \in Releases : store[r].status = "active" <=> r = pointer

\* No release is lost: the pointer moves only from a release to one that was
\* built on it, or back to its parent.
MovesAlongParents ==
    [][pointer' # pointer =>
          \/ store'[pointer'].parent = pointer
          \/ pointer' = store[pointer].parent]_storeVars

\* A release that was rolled back is never served again, neither by a retried
\* promotion nor as the target of a later rollback.
RolledBackStays ==
    [][\A r \in Releases :
          store[r].status = "rolled_back" => store'[r] = store[r]]_storeVars
=============================================================================
