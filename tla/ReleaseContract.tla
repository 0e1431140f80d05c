-------------------------- MODULE ReleaseContract --------------------------
(***************************************************************************)
(* The deterministic update of scripts/release_chain/contract.py and       *)
(* automation.py: what a source tree pins, what an update, a bump and a    *)
(* rollback make of it, and which versions replace which.                  *)
(*                                                                         *)
(* A hub release is identified by its version, a positive number: event,   *)
(* manifest, image and facts are immutable and follow from it.  0 stands   *)
(* for the image from before the first manifest.  A package version is a   *)
(* number too, of which only the order matters.  A tree is what pyproject, *)
(* the runtime pin, the Dockerfile, the lock and the manifest say.         *)
(***************************************************************************)
EXTENDS Integers, FiniteSets, FiniteSetsExt

NoVersion == -1      \* no rollback target, no previous package

Trees(events, packages) ==
    [package: packages, event: events, rejected: SUBSET events,
     rollback: packages \cup {NoVersion}, previous: packages \cup {NoVersion}]

\* What main held before the chain was adopted: no lock and no manifest.
Baseline(package) ==
    [package |-> package, event |-> 0, rejected |-> {}, rollback |-> NoVersion,
     previous |-> NoVersion]

\* verify_local(): the lock, the manifest and the pins agree by construction;
\* what is left is that the installed release was not rejected.
VerifyLocal(tree) == tree.event \notin tree.rejected

\* newest_ready(): the highest stable release of the hub, 0 if there is none.
NewestReady(ready) == IF ready = {} THEN 0 ELSE Max(ready)

----------------------------------------------------------------------------
\* Wrong: a rollback keeps what was rejected before it, and does not add to it.
UpdateRejectsNothing(tree, event, rollback) ==
    [package |-> tree.package + 1, event |-> event, rejected |-> tree.rejected,
     rollback |-> rollback, previous |-> tree.package]

\* update_files(): whether the event may replace what is installed ...
Updatable(tree, event, rollback) ==
    /\ VerifyLocal(tree)
    /\ \/ event > tree.event
       \/ rollback # NoVersion /\ event < tree.event
    /\ event \notin tree.rejected
    /\ rollback # NoVersion => tree.event # 0

\* ... and the tree after it.  A rollback rejects what was installed.
UpdateFiles(tree, event, rollback) ==
    [package |-> tree.package + 1, event |-> event,
     rejected |-> tree.rejected \cup (IF rollback = NoVersion THEN {} ELSE {tree.event}),
     rollback |-> rollback, previous |-> tree.package]

\* manual_patch(): a package bump of the same release; the lock, if there is
\* one, names the package it replaces.
ManualPatch(tree) ==
    [tree EXCEPT !.package = @ + 1,
                 !.previous = IF tree.event = 0 THEN @ ELSE tree.package]
=============================================================================
