---------------------------- MODULE ReleaseChain ----------------------------
(***************************************************************************)
(* The release chain of scripts/release_chain: the adapter, which turns    *)
(* ready releases of the hub into pull requests, merges them and reports   *)
(* completed publications, and the publisher, which uploads what landed.   *)
(* The workflows run at most one of each at a time (concurrency groups).   *)
(* GitHub, PyPI, the hub, CI and people act between any two of their       *)
(* steps; a job can fail at any step and is then started again.            *)
(*                                                                         *)
(* A commit of main is its index, and a distribution is the commit it was  *)
(* built from.  A dispatch can be lost, late or repeated: every job may    *)
(* start at any time, so sending one has no effect of its own.             *)
(***************************************************************************)
EXTENDS ReleaseContract, Sequences

CONSTANTS
    Requests,     \* what operators ask for: bumps, rollbacks
    MaxHub,       \* bound: releases of the hub
    MaxPackage,   \* bound: package versions
    MaxPrs,       \* bound: pull requests of the App
    MaxPushes,    \* bound: pushes to main and edits of branches by people
    MaxFaults     \* bound: jobs and CI runs that fail

ASSUME ReleaseAssumption ==
    /\ Requests \subseteq {"bump", "rollback"}
    /\ MaxHub \in Nat \ {0} /\ MaxPackage \in Nat \ {0} /\ MaxPrs \in Nat
    /\ MaxPushes \in Nat /\ MaxFaults \in Nat

VARIABLES
    ready,     \* the hub: its ready stable releases
    main,      \* the commits of main: tree, pr (0 if people pushed it), ci
    branches,  \* by name: the head (how often it moved), onto, tree, edited
    prs,       \* the pull requests of the App
    pypi,      \* by package version: the source of each uploaded file
    releases,  \* by package version: tag, assets by source, the receipt's event
    latest,    \* the package version that GitHub calls the latest release
    job,       \* the adapter
    publisher, \* the publisher
    runs,      \* the completed runs of the publisher
    told,      \* by event: the last receipt the hub could read: nothing, progress, verified
    pushes, faults

vars == <<ready, main, branches, prs, pypi, releases, latest, job, publisher,
          runs, told, pushes, faults>>

Events == 1..MaxHub
Packages == 0..MaxPackage
Commits == 1..(2 + MaxPrs + MaxPushes)      \* of main, at most
Files == {"wheel", "sdist"}
Kinds == {"release", "rollback", "package"}
States == {"pending", "testing", "deploying", "pr_open", "merged", "verified",
           "failed", "superseded"}

Nobody == 0
NoName == [kind |-> "package", event |-> 0, package |-> 0, base |-> 0]
Idle == [pc |-> "idle", manual |-> FALSE, rollback |-> NoVersion, base |-> 0, event |-> 0,
         pr |-> 0, old |-> {}, name |-> NoName, state |-> "pending"]
Resting == [pc |-> "idle", source |-> 0, head |-> 0, published |-> FALSE]

Pushed(tree) == [tree |-> tree, pr |-> Nobody, ci |-> "success"]

\* The chain starts with a package from before manifests existed, which the first
\* adopter replaces, or with two releases published and verified.
Starting ==
    { [ready |-> {}, main |-> <<Pushed(Baseline(0))>>, packages |-> {0}],
      [ready |-> {1, 2}, packages |-> {0, 1},
       main |-> <<Pushed(UpdateFiles(Baseline(-1), 1, NoVersion)),
                  Pushed(UpdateFiles(UpdateFiles(Baseline(-1), 1, NoVersion), 2, NoVersion))>>] }

Init ==
    \E start \in Starting :
        LET source(v) == IF v \in start.packages THEN v + 1 ELSE 0 IN
        /\ ready = start.ready /\ ready \subseteq Events
        /\ main = start.main
        /\ branches = [n \in {} |-> 0]
        /\ prs = <<>>
        /\ pypi = [v \in Packages |-> [f \in Files |-> source(v)]]
        /\ releases = [v \in Packages |->
               [tag |-> source(v), assets |-> [f \in Files |-> source(v)],
                receipt |-> IF source(v) = 0 THEN 0 ELSE main[source(v)].tree.event]]
        /\ latest = Max(start.packages)
        /\ job = Idle /\ publisher = Resting
        /\ runs = {}
        /\ told = [e \in Events |-> IF e \in ready THEN "verified" ELSE "nothing"]
        /\ pushes = 0 /\ faults = 0

Tip == Len(main)
Tree(commit) == main[commit].tree

----------------------------------------------------------------------------
(* The world.                                                              *)

HubReleases(e) ==
    /\ e \notin ready
    /\ ready' = ready \cup {e}
    /\ UNCHANGED <<main, branches, prs, pypi, releases, latest, job, publisher, runs,
                   told, pushes, faults>>

\* People land something else; every commit changes a file of its own.
Push ==
    /\ pushes < MaxPushes
    /\ pushes' = pushes + 1
    /\ main' = Append(main, [tree |-> Tree(Tip), pr |-> Nobody, ci |-> "success"])
    /\ UNCHANGED <<ready, branches, prs, pypi, releases, latest, job, publisher, runs,
                   told, faults>>

\* ... or commit to the App's branch of an open pull request.
Edit(n) ==
    /\ \E p \in DOMAIN prs : prs[p].open /\ prs[p].name = n
    /\ pushes < MaxPushes
    /\ pushes' = pushes + 1
    /\ branches' = [branches EXCEPT ![n].head = @ + 1, ![n].edited = TRUE]
    /\ prs' = [p \in DOMAIN prs |->
           IF prs[p].name = n /\ prs[p].open
           THEN [prs[p] EXCEPT !.ci = [head |-> branches[n].head + 1, base |-> Tip,
                                       status |-> "running"]]
           ELSE prs[p]]
    /\ UNCHANGED <<ready, main, pypi, releases, latest, job, publisher, runs, told, faults>>

Branch(p) == branches[prs[p].name]

\* The branch protection: an up-to-date head whose required check succeeded.
Mergeable(p) ==
    /\ prs[p].open
    /\ Branch(p).onto = Tip
    /\ prs[p].ci.head = Branch(p).head
    /\ prs[p].ci.status = "success"

Landed(p) == [tree |-> Branch(p).tree, pr |-> p, ci |-> "running"]

Closed(p) == [prs EXCEPT ![p].open = FALSE, ![p].merge = Tip + 1]

\* People merge a pull request of the App themselves.
MergedByHand(p) ==
    /\ Mergeable(p)
    /\ pushes < MaxPushes
    /\ pushes' = pushes + 1
    /\ main' = Append(main, Landed(p))
    /\ prs' = Closed(p)
    /\ UNCHANGED <<ready, branches, pypi, releases, latest, job, publisher, runs, told, faults>>

\* The runs of ci.yml and ci-post.yml: a failed run can be run again.
CandidateCI(p) ==
    /\ prs[p].ci.status = "running"
    /\ \/ /\ prs' = [prs EXCEPT ![p].ci.status = "success"]
          /\ UNCHANGED faults
       \/ /\ faults < MaxFaults /\ faults' = faults + 1
          /\ prs' = [prs EXCEPT ![p].ci.status = "failure"]
    /\ UNCHANGED <<ready, main, branches, pypi, releases, latest, job, publisher, runs,
                   told, pushes>>

CandidateRerun(p) ==
    /\ prs[p].ci.status = "failure"
    /\ prs' = [prs EXCEPT ![p].ci.status = "running"]
    /\ UNCHANGED <<ready, main, branches, pypi, releases, latest, job, publisher, runs,
                   told, pushes, faults>>

MainCI(c) ==
    /\ main[c].ci = "running"
    /\ \/ /\ main' = [main EXCEPT ![c].ci = "success"]
          /\ UNCHANGED faults
       \/ /\ faults < MaxFaults /\ faults' = faults + 1
          /\ main' = [main EXCEPT ![c].ci = "failure"]
    /\ UNCHANGED <<ready, branches, prs, pypi, releases, latest, job, publisher, runs,
                   told, pushes>>

MainRerun(c) ==
    /\ main[c].ci = "failure"
    /\ main' = [main EXCEPT ![c].ci = "running"]
    /\ UNCHANGED <<ready, branches, prs, pypi, releases, latest, job, publisher, runs,
                   told, pushes, faults>>

----------------------------------------------------------------------------
(* What both programs read and require.                                    *)

\* pypi_files(): a version whose upload broke off has one file.
Published(v) == {f \in Files : pypi[v][f] # 0}

\* verified_package(): both files of PyPI, equal assets, and a tag whose source
\* has a manifest; the first adopter may follow the recorded bootstrap.
VerifiedPackage(v, adopter) ==
    /\ v \in Packages
    /\ Published(v) = Files
    /\ releases[v].assets = pypi[v]
    /\ \A f \in Files : pypi[v][f] = releases[v].tag
    /\ LET source == Tree(releases[v].tag)
       IN  \/ v = 0 /\ adopter.package = 1 /\ adopter.rollback = NoVersion
           \/ source.event # 0 /\ VerifyLocal(source) /\ source.package = v

\* gate_for_run() of the pull request's last run: this head, tested on this base.
CandidateGate(p, head, base) ==
    /\ prs[p].ci.status = "success"
    /\ prs[p].ci.head = head
    /\ prs[p].ci.base = base

\* gate_for_run() of the run of a commit of main.
MainGate(c) == main[c].ci = "success"

\* The tree that a pull request landed with, and whether it was tested for it.
Landing(p) == Tree(prs[p].merge)
Tested(p) == CandidateGate(p, prs[p].generated, prs[p].base)

Nothing == Baseline(NoVersion)       \* no adopter: no bootstrap

\* stored_receipt() and its verification.
StoredReceipt(v) == v \in Packages /\ releases[v].receipt # 0
VerifiedReceipt(v) == StoredReceipt(v) /\ VerifiedPackage(v, Nothing)

VerifyRollback(tree) ==
    /\ VerifiedReceipt(tree.rollback)
    /\ releases[tree.rollback].receipt = tree.event

\* Wrong: main is not compared with what is published.
CurrentRelease(c) ==
    /\ VerifyLocal(Tree(c))
    /\ Tree(c).event # 0 => NewestReady(ready) = Tree(c).event

\* current_intent(): main still wants this, and the hub has nothing newer but
\* what a rollback rejected.
CurrentIntent(c) ==
    LET tree == Tree(c) newest == NewestReady(ready) IN
    /\ Tree(Tip) = tree
    /\ VerifyLocal(tree)
    /\ tree.event # 0 =>
           /\ tree.rollback # NoVersion => VerifyRollback(tree)
           /\ \/ newest = tree.event
              \/ tree.rollback # NoVersion /\ newest \in tree.rejected

----------------------------------------------------------------------------
(* The publisher: release.yml and publishing.py.                           *)

Rests == publisher' = Resting

\* Of a failed run only its source is looked at.
Completed(ok) ==
    runs' = runs \cup {[source |-> publisher.source, ok |-> ok,
                        head |-> IF ok THEN publisher.head ELSE 0]}

\* Wrong: the landed pull request is taken as it is.
EligibleByEvent(c) ==
    /\ main[c].pr # Nobody
    /\ MainGate(c)
    /\ CurrentIntent(c)

\* prepare(): the landed pull request is the one that was generated, tested and
\* merged, what it replaces is published, and main still wants it.
Eligible(c) ==
    /\ main[c].pr # Nobody
    /\ LET p == main[c].pr tree == Tree(c) IN
       /\ Branch(p).head = prs[p].generated
       /\ VerifyLocal(tree)
       /\ MainGate(c)
       /\ tree.event # 0 =>
              /\ CandidateGate(p, prs[p].generated, prs[p].base)
              /\ VerifiedPackage(tree.previous, tree)
       /\ c - 1 = prs[p].base
       /\ CurrentIntent(c)
       /\ prs[p].kind # "package" => prs[p].event = tree.event
       /\ \A f \in Published(tree.package) : pypi[tree.package][f] = c
       /\ Published(tree.package) \in {{}, Files}

\* A run of main has main's tip as its head; one that repairs has the tag.
Heads(v) == {Tip, releases[v].tag} \ {0}

Prepare(c) ==
    /\ publisher = Resting
    /\ main[c].pr # Nobody
    /\ \E head \in Heads(Tree(c).package) :
           IF Eligible(c)
           THEN /\ publisher' = [pc |-> "release", source |-> c, head |-> head,
                                 published |-> Published(Tree(c).package) = Files]
                /\ UNCHANGED runs
           ELSE /\ runs' = runs \cup {[source |-> c, ok |-> FALSE, head |-> 0]}
                /\ UNCHANGED publisher
    /\ UNCHANGED <<ready, main, branches, prs, pypi, releases, latest, job, told,
                   pushes, faults>>

Version == Tree(publisher.source).package

Wanted == CurrentIntent(publisher.source)

\* A step of the publisher that only looks.
Goes(pc) ==
    /\ publisher' = [publisher EXCEPT !.pc = pc]
    /\ UNCHANGED <<ready, main, branches, prs, pypi, releases, latest, job, runs, told,
                   pushes, faults>>

\* github_release(): an existing tag has to name the source ...
GithubRelease ==
    /\ publisher.pc = "release"
    /\ Wanted
    /\ releases[Version].tag \in {0, publisher.source}
    /\ Goes("tag")

\* ... and is created, with the release, where there is none.
CreatesTag ==
    /\ publisher.pc = "tag"
    /\ releases' = [releases EXCEPT ![Version].tag = IF @ = 0 THEN publisher.source ELSE @]
    /\ publisher' = [publisher EXCEPT !.pc = "assets"]
    /\ UNCHANGED <<ready, main, branches, prs, pypi, latest, job, runs, told, pushes, faults>>

\* The files in their order; a rerun only fills absent assets.
First(files) == IF "wheel" \in files THEN "wheel" ELSE "sdist"

UploadAsset ==
    /\ publisher.pc = "assets"
    /\ LET absent == {f \in Files : releases[Version].assets[f] = 0} IN
       IF absent # {}
       THEN /\ releases' = [releases EXCEPT ![Version].assets[First(absent)] = publisher.source]
            /\ UNCHANGED publisher
       ELSE /\ \A f \in Files : releases[Version].assets[f] = publisher.source
            /\ publisher' = [publisher EXCEPT !.pc = IF publisher.published
                                                     THEN "verify" ELSE "preflight"]
            /\ UNCHANGED releases
    /\ UNCHANGED <<ready, main, branches, prs, pypi, latest, job, runs, told, pushes, faults>>

\* preflight ...
Preflight ==
    /\ publisher.pc = "preflight"
    /\ Wanted
    /\ Goes("upload")

\* ... and then the upload to PyPI, one file after the other.
Upload ==
    /\ publisher.pc = "upload"
    /\ LET absent == Files \ Published(Version) IN
       IF absent # {}
       THEN /\ pypi' = [pypi EXCEPT ![Version][First(absent)] = publisher.source]
            /\ UNCHANGED publisher
       ELSE publisher' = [publisher EXCEPT !.pc = "verify"] /\ UNCHANGED pypi
    /\ UNCHANGED <<ready, main, branches, prs, releases, latest, job, runs, told, pushes,
                   faults>>

\* verify_publication(): what PyPI serves is what was tested, and main still wants it ...
VerifyPublication ==
    /\ publisher.pc = "verify"
    /\ \A f \in Files : pypi[Version][f] = publisher.source
    /\ Wanted
    /\ Goes("latest")

\* ... before the latest pointer moves.
MovesLatest ==
    /\ publisher.pc = "latest"
    /\ latest' = Version
    /\ Completed(TRUE)
    /\ Rests
    /\ UNCHANGED <<ready, main, branches, prs, pypi, releases, job, told, pushes, faults>>

\* A check refuses, and the run has failed.
Refused ==
    /\ \/ publisher.pc \in {"release", "preflight", "verify"} /\ ~ Wanted
       \/ publisher.pc = "release" /\ releases[Version].tag \notin {0, publisher.source}
       \/ /\ publisher.pc = "assets"
          /\ \E f \in Files : releases[Version].assets[f] \notin {0, publisher.source}
    /\ Completed(FALSE)
    /\ Rests
    /\ UNCHANGED <<ready, main, branches, prs, pypi, releases, latest, job, told, pushes,
                   faults>>

\* Any step of a job can fail, and the jobs after it do not run.
PublisherFails ==
    /\ publisher # Resting
    /\ faults < MaxFaults /\ faults' = faults + 1
    /\ Completed(FALSE)
    /\ Rests
    /\ UNCHANGED <<ready, main, branches, prs, pypi, releases, latest, job, told, pushes>>

Publish ==
    \/ \E c \in 1..Tip : Prepare(c)
    \/ GithubRelease \/ CreatesTag \/ UploadAsset \/ Preflight \/ Upload
    \/ VerifyPublication \/ MovesLatest \/ Refused

----------------------------------------------------------------------------
(* The adapter: release_adapter.py, automation.py and reporting.py.        *)

World == <<ready, main, branches, prs, pypi, releases, latest, publisher, runs,
           told, pushes, faults>>

\* A receipt for an event goes on to the report job; without one there is none, and of
\* what an operator started the hub is told nothing.
Finish(event, state) ==
    job' = IF event = 0 \/ job.manual THEN Idle
           ELSE [Idle EXCEPT !.pc = "report", !.event = event, !.state = state]

GoOn(pc) == job' = [job EXCEPT !.pc = pc]

OpenPrs == {p \in DOMAIN prs : prs[p].open}
OpenOf(kind) == {p \in OpenPrs : prs[p].kind = kind}

\* Whether the patch of a pull request applies to a tree, and what it makes of it.
Applies(kind, event, target, tree) ==
    CASE kind = "package" -> VerifyLocal(tree)
      [] kind = "release" -> Updatable(tree, event, NoVersion)
      [] kind = "rollback" -> /\ VerifiedReceipt(target)
                              /\ releases[target].receipt = event
                              /\ Updatable(tree, event, target)

Patched(kind, event, target, tree) ==
    IF kind = "package" THEN ManualPatch(tree) ELSE UpdateFiles(tree, event, target)

\* The deterministic branch of what is proposed; a pull request for it is used again.
Name(kind, event) ==
    [kind |-> kind,
     event |-> event,
     package |-> IF kind = "release" THEN 0 ELSE Tree(Tip).package + 1,
     base |-> IF kind = "package" THEN Tip ELSE 0]

\* Wrong: a pull request is known by its branch name alone, with its base.
SameByBase(name) == {p \in OpenPrs : prs[p].name = name /\ prs[p].base = Tip}

Same(name) ==
    {p \in OpenPrs : \/ prs[p].name = name
                     \/ name.kind = "release" /\ prs[p].event = name.event}

\* The pull requests that a proposal supersedes, as they are listed at the start.
Listed(pending) ==
    {[pr |-> p, unedited |-> Branch(p).head = prs[p].generated] : p \in pending}

Obsolete(kind, same) == IF kind = "package" THEN {} ELSE Listed(OpenPrs \ same)

Proposes(kind, event, target) ==
    LET name == Name(kind, event)
        same == Same(name)
        proposal == [Idle EXCEPT !.name = name, !.event = event, !.rollback = target,
                                 !.manual = kind # "release", !.base = Tip,
                                 !.old = Obsolete(kind, same)]
    IN  /\ Tree(Tip).package # MaxPackage
        /\ \/ same = {} /\ Len(prs) < MaxPrs /\ job' = [proposal EXCEPT !.pc = "push"]
           \/ \E p \in same : /\ same = {p}
                              /\ job' = [proposal EXCEPT !.pc = "supersede", !.pr = p,
                                                         !.name = NoName]
           \/ /\ Cardinality(same) > 1
              /\ IF kind = "release" THEN Finish(event, "failed") ELSE job' = Idle

\* A pull request that is pending is looked at on the way.
Merging(event, pending) ==
    \E p \in pending : job' = [Idle EXCEPT !.pc = "inspect", !.event = event, !.pr = p]

DecidesRollback(target) ==
    LET tree == Tree(Tip) event == releases[target].receipt IN
    /\ tree.event # 0 /\ VerifyLocal(tree)
    /\ VerifiedReceipt(target) /\ Updatable(tree, event, target)
    /\ Proposes("rollback", event, target)

DecidesBump ==
    LET tree == Tree(Tip) newest == NewestReady(ready) IN
    /\ newest = 0 \/ newest \in tree.rejected \/ newest <= tree.event
    /\ OpenOf("release") = {}
    /\ VerifyLocal(tree)
    /\ Proposes("package", 0, NoVersion)

\* recover_applied(): a completed receipt is not told again, and a publication that
\* has not happened is dispatched again.
Recovers(event) ==
    LET v == Tree(Tip).package
        merged == {p \in DOMAIN prs : prs[p].merge # 0 /\ Landing(p).package = v} IN
    IF StoredReceipt(v)
    THEN IF releases[v].receipt = event /\ VerifiedPackage(v, Nothing)
         THEN job' = Idle ELSE Finish(event, "failed")
    ELSE IF Cardinality(merged) # 1 THEN Finish(event, "failed")
    ELSE \E p \in merged :
         LET c == prs[p].merge IN
         \/ main[c].ci = "running" /\ Finish(event, "testing")
         \/ (main[c].ci = "failure" \/ ~ Tested(p)) /\ Finish(event, "failed")
         \/ /\ MainGate(c) /\ Tested(p)
            /\ IF publisher.head # c /\ \E r \in runs : r.head = c
               THEN job' = Idle          \* its report is dispatched again
               ELSE Finish(event, "deploying")

\* The release that main already has: pending pull requests go first.
Installed(event) ==
    LET rollbacks == OpenOf("rollback") packages == OpenOf("package") IN
    \/ rollbacks # {} /\ IF Cardinality(rollbacks) = 1 THEN Merging(event, rollbacks)
                         ELSE Finish(event, "failed")
    \/ rollbacks = {} /\ packages # {} /\ Merging(event, packages)
    \/ rollbacks = {} /\ packages = {} /\ Recovers(event)

\* A release that a rollback rejected: what main has instead goes on.
Rejected(event, incoming) ==
    LET packages == OpenOf("package") IN
    \/ incoming # 0 /\ Finish(event, "superseded")
    \/ incoming = 0 /\ packages # {} /\ Merging(event, packages)
    \/ incoming = 0 /\ packages = {} /\ Recovers(Tree(Tip).event)

\* A release that main does not have, unless main has or awaits a newer one.
Offered(event) ==
    IF \/ event < Tree(Tip).event
       \/ \E p \in OpenOf("release") : prs[p].event > event
    THEN Finish(event, "superseded")
    ELSE Proposes("release", event, NoVersion)

\* reconcile() of the event that was dispatched, or else (0) of the newest one.
DecidesRelease(incoming) ==
    LET tree == Tree(Tip)
        newest == NewestReady(ready)
        event == IF incoming # 0 THEN incoming ELSE newest
    IN  \/ event = 0 /\ Merging(0, OpenOf("package"))
        \/ newest > event /\ Finish(event, "superseded")
        \/ /\ event # 0 /\ newest = event /\ VerifyLocal(tree)
           /\ \/ tree.event = event /\ Installed(event)
              \/ event \in tree.rejected /\ Rejected(event, incoming)
              \/ tree.event # event /\ event \notin tree.rejected /\ Offered(event)

\* A dispatch of the hub, in any order and any number of times, a completed run, or an
\* operator who wants a bump or a rollback: what main, the pull requests and the hub
\* are is read at the start.
Decides ==
    /\ job = Idle
    /\ \/ \E incoming \in ready \cup {0} : DecidesRelease(incoming)
       \/ "bump" \in Requests /\ DecidesBump
       \/ "rollback" \in Requests /\ \E v \in Packages : DecidesRollback(v)
    /\ UNCHANGED World

\* assert_patch(): the branch is what the update makes of that commit, no more.
AssertPatch(n, kind, event, target, commit) ==
    /\ branches[n].onto = commit /\ ~ branches[n].edited
    /\ Applies(kind, event, target, Tree(commit))
    /\ branches[n].tree = Patched(kind, event, target, Tree(commit))

\* create_pr(): a branch that a crash left without a pull request is used again.
Pushes ==
    /\ job.pc = "push"
    /\ IF job.name \in DOMAIN branches
       THEN /\ IF AssertPatch(job.name, job.name.kind, job.event, job.rollback, job.base)
               THEN GoOn("open") ELSE Finish(job.event, "failed")
            /\ UNCHANGED branches
       ELSE /\ branches' = [n \in DOMAIN branches \cup {job.name} |->
                   IF n = job.name
                   THEN [head |-> 1, onto |-> job.base, edited |-> FALSE,
                         tree |-> Patched(n.kind, job.event, job.rollback, Tree(job.base))]
                   ELSE branches[n]]
            /\ GoOn("open")
    /\ UNCHANGED <<ready, main, prs, pypi, releases, latest, publisher, runs, told, pushes,
                   faults>>

Testing(head) == [head |-> head, base |-> Tip, status |-> "running"]

Opens ==
    /\ job.pc = "open"
    /\ prs' = Append(prs, [name |-> job.name, kind |-> job.name.kind, event |-> job.event,
                           rollback |-> job.rollback, base |-> job.base, open |-> TRUE,
                           generated |-> branches[job.name].head, merge |-> 0,
                           ci |-> Testing(branches[job.name].head)])
    /\ job' = [job EXCEPT !.pc = "supersede", !.pr = Len(prs) + 1, !.name = NoName,
                         !.rollback = NoVersion]
    /\ UNCHANGED <<ready, main, branches, pypi, releases, latest, publisher, runs, told,
                   pushes, faults>>

\* The new pull request first, then the obsolete ones, unless people had committed to them
\* when they were listed.
Supersedes ==
    /\ job.pc = "supersede"
    /\ \/ job.old = {} /\ GoOn("inspect") /\ UNCHANGED prs
       \/ \E old \in job.old :
              IF old.unedited
              THEN /\ prs' = [prs EXCEPT ![old.pr].open = FALSE]
                   /\ job' = [job EXCEPT !.old = @ \ {old}]
              ELSE Finish(job.event, "failed") /\ UNCHANGED prs
    /\ UNCHANGED <<ready, main, branches, pypi, releases, latest, publisher, runs, told,
                   pushes, faults>>

Behind(p) == Branch(p).onto # Tip

\* The pull request is the App's and unedited, and still what the update makes of its base.
Owned(p) == prs[p].open /\ Branch(p).head = prs[p].generated

Sound(p) ==
    /\ Owned(p)
    /\ AssertPatch(prs[p].name, prs[p].kind, prs[p].event, prs[p].rollback,
                   IF Behind(p) THEN prs[p].base ELSE Tip)

\* The release is still the newest, or everything newer was rejected by the rollback.
StillWanted(p) ==
    LET newest == NewestReady(ready) IN
    \/ prs[p].event = 0
    \/ newest = prs[p].event
    \/ prs[p].kind = "rollback" /\ newest \in Branch(p).tree.rejected

\* maybe_merge() up to its last requests.
Inspects ==
    /\ job.pc = "inspect"
    /\ LET p == job.pr ci == prs[p].ci
           report == IF prs[p].kind = "rollback" THEN prs[p].event ELSE job.event IN
       \/ ~ Sound(p) /\ Finish(IF Owned(p) THEN report ELSE job.event, "failed")
       \/ /\ Sound(p) /\ Behind(p)
          /\ job' = [job EXCEPT !.pc = "update", !.event = report, !.base = Tip]
       \/ /\ Sound(p) /\ ~ Behind(p)
          /\ \/ ci.head # Branch(p).head /\ Finish(report, "pr_open")
             \/ ci.head = Branch(p).head /\ ci.status = "running" /\ Finish(report, "testing")
             \/ /\ ci.head = Branch(p).head /\ ci.status # "running"
                /\ IF CandidateGate(p, Branch(p).head, Tip) /\ StillWanted(p)
                   THEN job' = [job EXCEPT !.pc = "merge", !.event = report, !.base = Tip]
                   ELSE Finish(report, "failed")
    /\ UNCHANGED World

\* GitHub merges main, as it is then, into the branch, unless they conflict ...
UpdatesBranch ==
    /\ job.pc = "update"
    /\ LET p == job.pr IN
       IF Branch(p).head = prs[p].generated /\ Tree(Tip) = Tree(prs[p].base)
       THEN /\ branches' = [branches EXCEPT ![prs[p].name].head = @ + 1,
                                            ![prs[p].name].onto = Tip]
            /\ prs' = [prs EXCEPT ![p].ci = Testing(Branch(p).head + 1)]
            /\ GoOn("record")
       ELSE Finish(job.event, "failed") /\ UNCHANGED <<branches, prs>>
    /\ UNCHANGED <<ready, main, pypi, releases, latest, publisher, runs, told, pushes, faults>>

\* ... and the marker records the new head, and the base that was read before.
Records ==
    /\ job.pc = "record"
    /\ prs' = [prs EXCEPT ![job.pr].generated = Branch(job.pr).head,
                          ![job.pr].base = job.base]
    /\ Finish(job.event, "testing")
    /\ UNCHANGED <<ready, main, branches, pypi, releases, latest, publisher, runs, told,
                   pushes, faults>>

\* The protected merge, unless the head or the base moved.
Merges ==
    /\ job.pc = "merge"
    /\ LET p == job.pr IN
       IF Mergeable(p) /\ Branch(p).head = prs[p].generated /\ job.base = Tip
       THEN /\ main' = Append(main, Landed(p))
            /\ prs' = Closed(p)
            /\ Finish(job.event, "merged")
       ELSE Finish(job.event, "failed") /\ UNCHANGED <<main, prs>>
    /\ UNCHANGED <<ready, branches, pypi, releases, latest, publisher, runs, told, pushes,
                   faults>>

\* Wrong: the reporter reads the release from the main it runs on.
ReportedOfMain(r) == Tree(Tip).event

\* The release that a run of the publisher was for.
Reported(r) == Tree(r.source).event

\* What a completed run published is looked at once more.
Confirms(r) ==
    LET tree == Tree(r.source) p == main[r.source].pr IN
    /\ r.ok
    /\ Branch(p).head = prs[p].generated
    /\ r.source - 1 = prs[p].base
    /\ MainGate(r.source) /\ Tested(p)
    /\ VerifiedPackage(tree.package, Nothing)
    /\ VerifiedPackage(tree.previous, tree)

\* publication(): only a run and a reporter whose own commit is the package's source may
\* report; the others dispatch one that is.
Publication(r) ==
    LET tree == Tree(r.source) IN
    /\ job = Idle /\ tree.event # 0
    /\ IF Confirms(r)
       THEN \E reporter \in Heads(tree.package) :
                IF r.head = r.source /\ reporter = r.source
                THEN job' = [Idle EXCEPT !.pc = "report", !.event = Reported(r),
                                         !.pr = main[r.source].pr, !.state = "verified"]
                ELSE job' = Idle
       ELSE Finish(Reported(r), "failed")
    /\ UNCHANGED World

\* Wrong: whether the event was verified before is not looked at.
TellsAnyway(event, state) == TRUE

\* collect(): after an event was verified nothing else is told of it.
MayTell(event, state) ==
    state = "verified" \/ \A v \in Packages : releases[v].receipt # event

\* ... and the upload of the receipt.
Reports ==
    /\ job.pc = "report"
    /\ told' = IF MayTell(job.event, job.state)
               THEN [told EXCEPT ![job.event] = IF job.state = "verified" THEN "verified"
                                                ELSE "progress"]
               ELSE told
    /\ IF job.state = "verified" THEN GoOn("retain") ELSE job' = Idle
    /\ UNCHANGED <<ready, main, branches, prs, pypi, releases, latest, publisher, runs,
                   pushes, faults>>

\* retain(): the receipt is kept with the package, after the hub could read it.
Retains ==
    /\ job.pc = "retain"
    /\ releases' = IF StoredReceipt(Landing(job.pr).package) THEN releases
                   ELSE [releases EXCEPT ![Landing(job.pr).package].receipt = job.event]
    /\ job' = Idle
    /\ UNCHANGED <<ready, main, branches, prs, pypi, latest, publisher, runs, told, pushes,
                   faults>>

\* Any request can fail: what was done stays, and the receipt says failed.
AdapterFails ==
    /\ job # Idle
    /\ faults < MaxFaults /\ faults' = faults + 1
    /\ IF job.pc \in {"report", "retain"} THEN job' = Idle ELSE Finish(job.event, "failed")
    /\ UNCHANGED <<ready, main, branches, prs, pypi, releases, latest, publisher, runs, told,
                   pushes>>

Reconcile == Pushes \/ Opens \/ Supersedes \/ Inspects \/ UpdatesBranch
             \/ Records \/ Merges
Reporting == Reports \/ Retains

----------------------------------------------------------------------------
Outside ==
    \/ \E e \in Events : HubReleases(e)
    \/ Push
    \/ \E n \in DOMAIN branches : Edit(n)
    \/ \E p \in DOMAIN prs : MergedByHand(p) \/ CandidateCI(p) \/ CandidateRerun(p)
    \/ \E c \in 1..Tip : MainCI(c) \/ MainRerun(c)

Next ==
    \/ Outside
    \/ Publish \/ PublisherFails
    \/ Decides \/ Reconcile \/ AdapterFails
    \/ \E r \in runs : Publication(r)
    \/ Reporting

Spec == Init /\ [][Next]_vars

\* CI runs end, the hub's dispatches and CI's completions start jobs again and again, and
\* a job that was started goes on.
Fairness ==
    /\ WF_vars(\E p \in DOMAIN prs : CandidateCI(p))
    /\ WF_vars(\E c \in 1..Tip : MainCI(c))
    /\ \A e \in Events : SF_vars(Decides /\ DecidesRelease(e))
    /\ WF_vars(Reconcile \/ Reporting)
    /\ SF_vars(Publish)
    /\ \A c \in Commits : SF_vars(c \in 1..Tip /\ Prepare(c))

FairSpec == Spec /\ Fairness
=============================================================================
