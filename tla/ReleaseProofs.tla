---------------------------- MODULE ReleaseProofs ----------------------------
(***************************************************************************)
(* The release chain for any number of releases, package versions, pull    *)
(* requests, pushes and faults: what is public was tested and landed, what *)
(* a rollback rejected stays out, receipts are true, and a release has one *)
(* pull request and is applied once.                                       *)
(***************************************************************************)
EXTENDS ReleaseProperties, NatSetLemmas, SequenceTheorems, TLAPS

-----------------------------------------------------------------------------
(* Types.                                                                   *)

Status == {"running", "success", "failure"}
NameSet == [kind: Kinds, event: Nat, package: Int, base: Nat]
TreeSet == [package: Int, event: Nat, rejected: SUBSET Nat, rollback: Int, previous: Int]
CommitSet == [tree: TreeSet, pr: Nat, ci: Status]
BranchSet == [head: Nat, onto: Nat, edited: BOOLEAN, tree: TreeSet]
PrSet == [name: NameSet, kind: Kinds, event: Nat, rollback: Int, base: Nat, open: BOOLEAN,
          generated: Nat, merge: Nat, ci: [head: Nat, base: Nat, status: Status]]
ReleaseSet == [tag: Nat, assets: [Files -> Nat], receipt: Nat]
JobSet == [pc: {"idle", "push", "open", "supersede", "inspect", "update", "record", "merge",
                "report", "retain"},
           manual: BOOLEAN, rollback: Int, base: Nat, event: Nat, pr: Nat,
           old: SUBSET [pr: Nat, unedited: BOOLEAN], name: NameSet, state: States]
PublisherSet == [pc: {"idle", "release", "tag", "assets", "preflight", "upload", "verify", "latest"},
                 source: Nat, head: Nat, published: BOOLEAN]
RunSet == [source: Nat, ok: BOOLEAN, head: Nat]

TypeInv ==
  /\ ready \in SUBSET Events
  /\ main \in Seq(CommitSet) /\ Tip # 0
  /\ branches \in [DOMAIN branches -> BranchSet] /\ DOMAIN branches \subseteq NameSet
  /\ prs \in Seq(PrSet)
  /\ pypi \in [Packages -> [Files -> Nat]]
  /\ releases \in [Packages -> ReleaseSet]
  /\ latest \in Packages
  /\ job \in JobSet /\ publisher \in PublisherSet
  /\ runs \in SUBSET RunSet
  /\ told \in [Events -> {"nothing", "progress", "verified"}]

-----------------------------------------------------------------------------
(* The trees of main and of the branches.                                   *)

\* What a rollback goes back to has a receipt, and is public.
Receipted(v, event) ==
  v \in Packages /\ event # 0 /\ releases[v].receipt = event /\ Published(v) = Files

\* The releases the hub ever had ready, and none.
Known == ready \cup {0}

Sane(tree) ==
  /\ tree.package \in Packages /\ tree.previous < tree.package
  /\ tree.event \in Known /\ tree.rejected \subseteq ready /\ tree.event \notin tree.rejected

\* What an update, a bump or a rollback makes of a tree.
Step(old, new) ==
  /\ Sane(new)
  /\ new.package = old.package + 1
  /\ old.rejected \subseteq new.rejected
  /\ \/ new.event = old.event
     \/ new.event > old.event
     \/ new.event < old.event /\ old.event \in new.rejected /\ Receipted(new.rollback, new.event)
  /\ new.event = old.event \/ new.rollback # NoVersion \/ new.event > old.event

\* The release was never on main, up to a commit.
Unseen(event, commit) == \A d \in 1..commit : Tree(d).event # event

\* What a proposal by that name makes of a commit.
Proposal(name, commit, tree) ==
  /\ Step(Tree(commit), tree)
  /\ name.kind = "release" => tree.event = name.event /\ Unseen(name.event, commit)
  /\ name.kind # "release" =>
       /\ tree.package = name.package
       /\ tree.event = Tree(commit).event \/ tree.rollback # NoVersion

TreesInv ==
  /\ \A c \in 1..Tip : Sane(Tree(c))
  /\ \A c \in 2..Tip : Tree(c) = Tree(c - 1) \/ Step(Tree(c - 1), Tree(c))
  /\ \A d \in 1..Tip : \A c \in 1..d : Tree(c) = Tree(d) \/ Tree(c).package < Tree(d).package
  /\ \A c \in 1..Tip : \/ Tree(c).event <= Tree(Tip).event
                       \/ \E x \in Tree(Tip).rejected : Tree(c).event <= x

\* A release that main did not have yet was never on it, unless a rollback brings it back.
OnceInv ==
  \A c \in 2..Tip : \/ Tree(c).event = Tree(c - 1).event \/ Tree(c).rollback # NoVersion
                     \/ Unseen(Tree(c).event, c - 1)

BranchInv ==
  \A n \in DOMAIN branches : /\ branches[n].onto \in 1..Tip
                             /\ Proposal(n, branches[n].onto, branches[n].tree)

NameInv(name) ==
  /\ name.base <= Tip
  /\ name.kind = "release" => name.package = 0
  /\ name.kind # "package" => name.base = 0

-----------------------------------------------------------------------------
(* The pull requests and the adapter.                                       *)

\* A pull request that is open or landed has its branch for itself.
Alive(p) == prs[p].open \/ prs[p].merge # 0

PrInv(p) ==
  /\ prs[p].name \in DOMAIN branches /\ NameInv(prs[p].name)
  /\ prs[p].event = prs[p].name.event /\ prs[p].kind = prs[p].name.kind
  /\ prs[p].base \in 1..Tip
  /\ prs[p].generated <= Branch(p).head
  /\ prs[p].open => prs[p].merge = 0 /\ Tree(prs[p].base) = Tree(Branch(p).onto)
  /\ prs[p].merge # 0 => /\ prs[p].merge \in 1..Tip /\ main[prs[p].merge].pr = p
                         /\ prs[p].merge > prs[p].name.base
                         /\ Landing(p) = Branch(p).tree

PrsInv ==
  /\ \A p \in DOMAIN prs : PrInv(p)
  /\ \A c \in 1..Tip : main[c].pr # Nobody =>
       main[c].pr \in DOMAIN prs /\ prs[main[c].pr].merge = c
  /\ \A p, q \in DOMAIN prs :
       p # q /\ Alive(p) /\ Alive(q) => prs[p].name # prs[q].name

\* A verified release is served, and the version that serves it says so.
ServedAs(v, event) ==
  /\ Published(v) = Files /\ releases[v].assets = pypi[v]
  /\ releases[v].tag \in 1..Tip
  /\ Tree(releases[v].tag).event = event

Served(event) == \E v \in Packages : ServedAs(v, event)

\* A pull request that landed.
Merged(p) == p \in DOMAIN prs /\ prs[p].merge # 0

JobInv ==
  /\ job.pc \in {"push", "open"} =>
       /\ NameInv(job.name) /\ job.name.event = job.event
       /\ job.base \in 1..Tip
       /\ \A p \in DOMAIN prs : Alive(p) => prs[p].name # job.name
  /\ job.pc = "push" => Proposal(job.name, job.base,
       Patched(job.name.kind, job.event, job.rollback, Tree(job.base)))
  /\ job.pc = "open" =>
       job.name \in DOMAIN branches /\ branches[job.name].onto = job.base
  /\ job.pc \in {"supersede", "inspect", "update", "record", "merge"} => job.pr \in DOMAIN prs
  /\ job.pc \in {"update", "record"} => job.base \in 1..Tip
  /\ job.pc = "update" => /\ prs[job.pr].open /\ Branch(job.pr).onto # Tip
                          /\ prs[job.pr].base <= job.base
  /\ job.pc = "record" =>
       /\ prs[job.pr].generated < Branch(job.pr).head
       /\ prs[job.pr].open => Tree(job.base) = Tree(Branch(job.pr).onto)
  /\ job.pc = "retain" => job.state = "verified" /\ told[job.event] = "verified"
  /\ job.state = "verified" => /\ job.pc \in {"report", "retain"} /\ Merged(job.pr)
                               /\ job.event \in ready
                               /\ ServedAs(Landing(job.pr).package, job.event)

-----------------------------------------------------------------------------
(* The publisher and what is public.                                        *)

\* What the landing of a commit replaces is public whole.
Replaced(c) ==
  Tree(c).event # 0 =>
    Tree(c).previous \in Packages /\ Published(Tree(c).previous) = Files

\* A commit that may be published.
Public(c) == c \in 1..Tip /\ main[c].pr # Nobody /\ TestedLanding(c) /\ Replaced(c)

Tagged == {"assets", "preflight", "upload", "verify", "latest"}

PublicInv ==
  /\ publisher # Resting => Public(publisher.source)
  /\ publisher.pc \in Tagged => releases[Version].tag = publisher.source
  /\ publisher.pc = "tag" => releases[Version].tag \in {0, publisher.source}
  /\ publisher.pc = "latest" =>
       latest <= Version /\ \A f \in Files : pypi[Version][f] = publisher.source
  /\ \A r \in runs : /\ r.source \in 1..Tip /\ main[r.source].pr # Nobody
                     /\ r.ok => \A f \in Files : pypi[Tree(r.source).package][f] = r.source
  /\ \A v \in Packages :
       LET c == releases[v].tag IN
       /\ releases[v].receipt \in Known
       /\ \A f \in Files : pypi[v][f] \in {0, c} /\ releases[v].assets[f] \in {0, c}
       /\ c # 0 => /\ c \in 1..Tip /\ Tree(c).package = v
                   /\ main[c].pr # Nobody => Public(c)
  /\ \A v \in Packages : StoredReceipt(v) => /\ told[releases[v].receipt] = "verified"
                                              /\ ServedAs(v, releases[v].receipt)
  /\ latest <= Tree(Tip).package
  /\ \A e \in Events : told[e] = "verified" => Served(e)

ReleaseInv == TypeInv /\ TreesInv /\ OnceInv /\ BranchInv /\ PrsInv /\ JobInv /\ PublicInv

-----------------------------------------------------------------------------
(* Types, step by step.                                                     *)

LEMMA Elements ==
  ASSUME TypeInv
  PROVE  /\ Tip \in Nat /\ Tip >= 1 /\ Tip \in 1..Tip /\ DOMAIN main = 1..Tip
         /\ \A c \in 1..Tip : main[c] \in CommitSet /\ Tree(c) \in TreeSet
         /\ Len(prs) \in Nat /\ DOMAIN prs = 1..Len(prs)
         /\ \A p \in DOMAIN prs : prs[p] \in PrSet /\ p \in Nat /\ p # 0
         /\ \A n \in DOMAIN branches : branches[n] \in BranchSet /\ n \in NameSet
<1>1. Tip \in Nat /\ DOMAIN main = 1..Tip /\ Len(prs) \in Nat /\ DOMAIN prs = 1..Len(prs) /\ Tip # 0
  BY LenProperties DEF TypeInv, Tip
<1>2. \A c \in 1..Tip : main[c] \in CommitSet
  BY ElementOfSeq DEF TypeInv, Tip
<1>3. \A p \in 1..Len(prs) : prs[p] \in PrSet
  BY ElementOfSeq DEF TypeInv
<1>4. \A c \in 1..Tip : Tree(c) \in TreeSet
  BY <1>2 DEF Tree, CommitSet
<1>5. \A n \in DOMAIN branches : branches[n] \in BranchSet /\ n \in NameSet
  BY DEF TypeInv
<1> QED BY <1>1, <1>2, <1>3, <1>4, <1>5

LEMMA Positive ==
  /\ MaxHub \in Nat /\ MaxPackage \in Nat /\ Events \subseteq Nat \ {0} /\ Packages \subseteq Nat
  /\ 0 \in Packages /\ NoVersion \in Int /\ NoVersion \notin Packages /\ 1 \in Packages
  BY ReleaseAssumption DEF Events, Packages, NoVersion

LEMMA JobTypes ==
  /\ Idle \in JobSet /\ NoName \in NameSet /\ Resting \in PublisherSet
  /\ \A pc \in {"push", "open", "supersede", "inspect", "update", "record", "merge",
                "report", "retain"} : job \in JobSet => [job EXCEPT !.pc = pc] \in JobSet
  BY DEF Idle, NoName, Resting, JobSet, NameSet, PublisherSet, NoVersion, States, Kinds

LEMMA FinishTypes ==
  ASSUME NEW event \in Nat, NEW state \in States, Finish(event, state)
  PROVE  /\ job' \in JobSet
         /\ job' = Idle \/ (job'.pc = "report" /\ job'.event = event /\ job'.state = state)
<1>1. CASE event = 0 \/ job.manual
  BY <1>1, JobTypes DEF Finish
<1>2. CASE ~ (event = 0 \/ job.manual)
  <2>1. job' = [pc |-> "report", manual |-> FALSE, rollback |-> NoVersion, base |-> 0, event |-> event,
                pr |-> 0, old |-> {}, name |-> NoName, state |-> state]
    BY <1>2 DEF Finish, Idle
  <2>2. NoName \in NameSet /\ NoVersion \in Int
    BY JobTypes DEF NoVersion
  <2> QED BY <2>1, <2>2 DEF JobSet
<1> QED BY <1>1, <1>2

LEMMA PatchedTypes ==
  ASSUME NEW kind, NEW event \in Nat, NEW target \in Int, NEW tree \in TreeSet
  PROVE  Patched(kind, event, target, tree) \in TreeSet
<1>1. /\ tree.package \in Int /\ tree.event \in Nat /\ tree.rejected \in SUBSET Nat
      /\ tree.rollback \in Int /\ tree.previous \in Int
  BY DEF TreeSet
<1>2. ManualPatch(tree) \in TreeSet
  <2>1. ManualPatch(tree).previous \in Int /\ tree.package + 1 \in Int
    BY <1>1 DEF ManualPatch, TreeSet
  <2> QED BY <1>1, <2>1 DEF ManualPatch, TreeSet
<1>3. UpdateFiles(tree, event, target) \in TreeSet
  <2> DEFINE more == IF target = NoVersion THEN {} ELSE {tree.event}
  <2>1. tree.rejected \cup more \in SUBSET Nat
    BY <1>1
  <2> HIDE DEF more
  <2> QED BY <1>1, <2>1 DEF UpdateFiles, TreeSet, more
<1> QED BY <1>2, <1>3 DEF Patched

-----------------------------------------------------------------------------
(* Where the decisions of the adapter lead.                                 *)

Ends ==
  /\ job' \in JobSet /\ job'.pc \in {"idle", "report"}
  /\ job'.event \in Known /\ job'.state # "verified"

Looks ==
  /\ job' \in JobSet /\ job'.pc \in {"inspect", "supersede"}
  /\ job'.event \in Known /\ job'.state # "verified" /\ job'.pr \in DOMAIN prs

Starts(kind, event, target) ==
  /\ job' \in JobSet /\ job'.pc = "push" /\ job'.state # "verified"
  /\ job'.name = Name(kind, event) /\ job'.event = event /\ job'.rollback = target
  /\ job'.base = Tip
  /\ Same(Name(kind, event)) = {} /\ Tree(Tip).package # MaxPackage

LEMMA FinishEnds ==
  ASSUME TypeInv, NEW event \in Known, NEW state \in States, state # "verified", Finish(event, state)
  PROVE  Ends
<1>1. event \in Nat /\ 0 \in Known
  BY Positive DEF TypeInv, Known
<1>2. Idle.pc = "idle" /\ Idle.event = 0 /\ Idle.state = "pending"
  BY DEF Idle
<1> QED BY <1>1, <1>2, FinishTypes DEF Ends

LEMMA IdleEnds ==
  ASSUME TypeInv, job' = Idle
  PROVE  Ends
<1>1. Idle.pc = "idle" /\ Idle.event = 0 /\ Idle.state = "pending"
  BY DEF Idle
<1> QED BY <1>1, JobTypes DEF Ends, Known

LEMMA MergingLooks ==
  ASSUME TypeInv, NEW event \in Known, NEW pending \in SUBSET OpenPrs, Merging(event, pending)
  PROVE  Looks
<1>1. PICK p \in pending : job' = [Idle EXCEPT !.pc = "inspect", !.event = event, !.pr = p]
  BY DEF Merging
<1>2. p \in DOMAIN prs /\ p \in Nat /\ event \in Nat
  BY Elements, Positive DEF OpenPrs, TypeInv, Known
<1>3. job' = [pc |-> "inspect", manual |-> FALSE, rollback |-> NoVersion, base |-> 0, event |-> event,
              pr |-> p, old |-> {}, name |-> NoName, state |-> "pending"]
  BY <1>1 DEF Idle
<1>4. NoName \in NameSet /\ NoVersion \in Int /\ "pending" \in States
  BY JobTypes DEF NoVersion, States
<1> QED BY <1>2, <1>3, <1>4 DEF Looks, JobSet

LEMMA ProposesOne ==
  ASSUME TypeInv, NEW kind \in Kinds, NEW event \in Known, NEW target \in Int,
         Proposes(kind, event, target)
  PROVE  Ends \/ Looks \/ Starts(kind, event, target)
<1> DEFINE name == Name(kind, event)
           manual == kind # "release"
           old == Obsolete(kind, Same(name))
           proposal == [Idle EXCEPT !.name = name, !.event = event, !.rollback = target,
                                    !.manual = manual, !.base = Tip, !.old = old]
<1>1. Tip \in Nat /\ Tree(Tip).package \in Int /\ event \in Nat
  BY Elements, Positive DEF TreeSet, TypeInv, Known
<1>2. name \in NameSet
  <2>1. Tree(Tip).package + 1 \in Int
    BY <1>1
  <2> QED BY <1>1, <2>1 DEF Name, NameSet
<1>3. NoName \in NameSet /\ NoVersion \in Int /\ "pending" \in States
  BY JobTypes DEF NoVersion, States
<1>b. manual \in BOOLEAN
  OBVIOUS
<1>c. old \in SUBSET [pr: Nat, unedited: BOOLEAN]
  <2>1. \A p \in DOMAIN prs : p \in Nat
    BY Elements
  <2>2. \A p \in DOMAIN prs :
          [pr |-> p, unedited |-> Branch(p).head = prs[p].generated] \in [pr: Nat, unedited: BOOLEAN]
    BY <2>1
  <2>3. \A pending \in SUBSET DOMAIN prs : Listed(pending) \in SUBSET [pr: Nat, unedited: BOOLEAN]
    BY <2>2 DEF Listed
  <2>4. OpenPrs \ Same(name) \in SUBSET DOMAIN prs
    BY DEF OpenPrs
  <2> QED BY <2>3, <2>4 DEF Obsolete
<1> HIDE DEF name, manual, old
<1>4. /\ proposal \in JobSet
      /\ proposal.name = name /\ proposal.event = event /\ proposal.rollback = target
      /\ proposal.base = Tip /\ proposal.state = "pending"
  <2>1. PICK j : j = proposal
    OBVIOUS
  <2>2. j = [Idle EXCEPT !.name = name, !.event = event, !.rollback = target, !.manual = manual,
                         !.base = Tip, !.old = old]
    BY <2>1, Zenon
  <2> HIDE DEF proposal
  <2>3. Idle \in JobSet /\ Tip \in Nat /\ event \in Nat
    BY <1>1, JobTypes
  <2>4. j \in JobSet
    BY <1>2, <1>b, <1>c, <2>2, <2>3 DEF JobSet
  <2>5. j.name = name /\ j.event = event /\ j.rollback = target /\ j.base = Tip
    BY <2>2 DEF Idle
  <2>6. j.state = "pending"
    BY <2>2 DEF Idle
  <2> QED BY <2>1, <2>4, <2>5, <2>6
<1> HIDE DEF proposal
<1>5. CASE Same(name) = {} /\ job' = [proposal EXCEPT !.pc = "push"] /\ Tree(Tip).package # MaxPackage
  <2>1. /\ job' \in JobSet /\ job'.pc = "push" /\ job'.state = "pending" /\ job'.name = name
        /\ job'.event = event /\ job'.rollback = target /\ job'.base = Tip
    BY <1>4, <1>5 DEF JobSet
  <2>2. Starts(kind, event, target)
    BY <1>5, <2>1 DEF Starts, name
  <2> QED BY <2>2
<1>6. CASE \E p \in Same(name) : job' = [proposal EXCEPT !.pc = "supersede", !.pr = p, !.name = NoName]
  <2>1. PICK p \in Same(name) : job' = [proposal EXCEPT !.pc = "supersede", !.pr = p, !.name = NoName]
    BY <1>6
  <2>2. p \in DOMAIN prs /\ p \in Nat
    BY Elements DEF Same, OpenPrs
  <2>3. /\ job' \in JobSet /\ job'.pc = "supersede" /\ job'.state = "pending"
        /\ job'.event = event /\ job'.pr = p
    BY <1>3, <1>4, <2>1, <2>2 DEF JobSet
  <2>4. Looks
    BY <2>2, <2>3 DEF Looks
  <2> QED BY <2>4
<1>7. CASE Finish(event, "failed") \/ job' = Idle
  <2>1. Ends
    BY <1>7, FinishEnds, IdleEnds DEF States
  <2> QED BY <2>1
<1> QED
  <2>1. /\ Tree(Tip).package # MaxPackage
        /\ \/ Same(name) = {} /\ job' = [proposal EXCEPT !.pc = "push"]
           \/ \E p \in Same(name) : job' = [proposal EXCEPT !.pc = "supersede", !.pr = p, !.name = NoName]
           \/ Finish(event, "failed") \/ job' = Idle
    BY DEF Proposes, name, manual, old, proposal
  <2> QED BY <1>5, <1>6, <1>7, <2>1

LEMMA Newest ==
  ASSUME TypeInv
  PROVE  /\ NewestReady(ready) \in Known /\ Known \subseteq Nat /\ 0 \in Known
         /\ \A x \in Known : x <= NewestReady(ready)
         /\ NewestReady(ready) # 0 => NewestReady(ready) \in ready
<1>1. ready \in SUBSET Nat /\ (\A x \in ready : x <= MaxHub) /\ MaxHub \in Nat
  BY Positive DEF TypeInv, Events
<1>2. CASE ready = {}
  BY <1>1, <1>2 DEF NewestReady, Known
<1>3. CASE ready # {}
  <2>1. Max(ready) \in ready /\ \A y \in ready : Max(ready) >= y
    BY <1>1, <1>3, MaxOfNats
  <2>2. NewestReady(ready) = Max(ready)
    BY <1>3 DEF NewestReady
  <2> HIDE DEF NewestReady
  <2>3. Known \subseteq Nat
    BY <1>1 DEF Known
  <2>5. NewestReady(ready) \in ready
    BY <2>1, <2>2
  <2>4. \A x \in ready : x <= NewestReady(ready)
    BY <1>1, <2>1, <2>2
  <2> QED BY <2>3, <2>4, <2>5 DEF Known
<1> QED BY <1>2, <1>3

\* Why something is proposed.
Reason(kind, event, target) ==
  LET tree == Tree(Tip) IN
  /\ VerifyLocal(tree)
  /\ kind = "package" => event = 0
  /\ kind = "release" =>
       /\ event # 0 /\ NewestReady(ready) = event /\ target = NoVersion
       /\ tree.event # event /\ event \notin tree.rejected /\ ~ (event < tree.event)
  /\ kind = "rollback" =>
       /\ VerifiedReceipt(target) /\ Updatable(tree, event, target)
       /\ event = releases[target].receipt

Decided ==
  \/ Ends \/ Looks
  \/ \E kind \in Kinds, event \in Known, target \in Int :
       Starts(kind, event, target) /\ Reason(kind, event, target)

LEMMA RecoversEnds ==
  ASSUME TypeInv, NEW event \in Known, Recovers(event)
  PROVE  Ends
<1>1. \/ job' = Idle \/ Finish(event, "failed") \/ Finish(event, "testing") \/ Finish(event, "deploying")
  BY DEF Recovers
<1>2. {"failed", "testing", "deploying"} \subseteq States
  BY DEF States
<1> QED BY <1>1, <1>2, IdleEnds, FinishEnds

LEMMA DecidesOne ==
  ASSUME TypeInv, TreesInv, PublicInv, Decides
  PROVE  Decided
<1> DEFINE tree == Tree(Tip)
           newest == NewestReady(ready)
<1>1. tree.event \in Known /\ tree.event \in Nat /\ newest \in Known /\ newest \in Nat /\ 0 \in Known
  BY Elements, Newest DEF TreesInv, Sane
<1>2. NoVersion \in Int /\ {"failed", "superseded"} \subseteq States /\ Packages \subseteq Int
      /\ Kinds = {"release", "rollback", "package"}
  BY Positive DEF States, Kinds
<1>3. \A kind : OpenOf(kind) \in SUBSET OpenPrs
  BY DEF OpenOf
<1>4. CASE \E incoming \in ready \cup {0} : DecidesRelease(incoming)
  <2>1. PICK incoming \in ready \cup {0} : DecidesRelease(incoming)
    BY <1>4
  <2> DEFINE event == IF incoming # 0 THEN incoming ELSE newest
  <2>2. event \in Known /\ event \in Nat
    BY <1>1, Newest DEF Known
  <2>3. \/ Merging(0, OpenOf("package"))
        \/ Finish(event, "superseded")
        \/ /\ event # 0 /\ newest = event /\ VerifyLocal(tree)
           /\ \/ Installed(event)
              \/ Rejected(event, incoming)
              \/ tree.event # event /\ event \notin tree.rejected /\ Offered(event)
    BY <2>1 DEF DecidesRelease
  <2> HIDE DEF event
  <2>4. CASE Merging(0, OpenOf("package"))
    BY <1>1, <1>3, <2>4, MergingLooks DEF Decided
  <2>5. CASE Finish(event, "superseded")
    BY <1>2, <2>2, <2>5, FinishEnds DEF Decided
  <2>6. CASE Installed(event)
    <3>1. \/ Merging(event, OpenOf("rollback")) \/ Finish(event, "failed")
          \/ Merging(event, OpenOf("package")) \/ Recovers(event)
      BY <2>6 DEF Installed
    <3> QED BY <1>2, <1>3, <2>2, <3>1, MergingLooks, FinishEnds, RecoversEnds DEF Decided
  <2>7. CASE Rejected(event, incoming)
    <3>1. \/ Finish(event, "superseded") \/ Merging(event, OpenOf("package"))
          \/ Recovers(tree.event)
      BY <2>7 DEF Rejected
    <3> QED BY <1>1, <1>2, <1>3, <2>2, <3>1, MergingLooks, FinishEnds, RecoversEnds DEF Decided
  <2>8. CASE /\ event # 0 /\ newest = event /\ VerifyLocal(tree)
             /\ tree.event # event /\ event \notin tree.rejected /\ Offered(event)
    <3>1. \/ Finish(event, "superseded")
          \/ ~ (event < tree.event) /\ Proposes("release", event, NoVersion)
      BY <2>8 DEF Offered
    <3>2. ~ (event < tree.event) => Reason("release", event, NoVersion)
      BY <2>8 DEF Reason
    <3> HIDE DEF newest, tree
    <3>3. CASE Proposes("release", event, NoVersion) /\ ~ (event < tree.event)
      <4>1. Ends \/ Looks \/ Starts("release", event, NoVersion)
        BY <1>2, <2>2, <3>3, ProposesOne
      <4> QED BY <1>2, <2>2, <3>2, <3>3, <4>1 DEF Decided
    <3> QED BY <1>2, <2>2, <3>1, <3>3, FinishEnds DEF Decided
  <2> QED BY <2>3, <2>4, <2>5, <2>6, <2>7, <2>8
<1>5. CASE DecidesBump
  <2>1. Proposes("package", 0, NoVersion) /\ Reason("package", 0, NoVersion)
    BY <1>5 DEF DecidesBump, Reason
  <2>2. Ends \/ Looks \/ Starts("package", 0, NoVersion)
    BY <1>1, <1>2, <2>1, ProposesOne
  <2> QED BY <1>1, <1>2, <2>1, <2>2 DEF Decided
<1>6. CASE \E v \in Packages : DecidesRollback(v)
  <2>1. PICK v \in Packages : DecidesRollback(v)
    BY <1>6
  <2> DEFINE event == releases[v].receipt
  <2>2. event \in Known
    BY <2>1 DEF PublicInv
  <2>3. Proposes("rollback", event, v) /\ Reason("rollback", event, v)
    BY <2>1 DEF DecidesRollback, Reason
  <2> HIDE DEF event
  <2>4. Ends \/ Looks \/ Starts("rollback", event, v)
    BY <1>2, <2>1, <2>2, <2>3, ProposesOne
  <2> QED BY <1>2, <2>1, <2>2, <2>3, <2>4 DEF Decided
<1> QED BY <1>4, <1>5, <1>6 DEF Decides

-----------------------------------------------------------------------------
(* Every step keeps the types.                                              *)

LEMMA CompletedTypes ==
  ASSUME TypeInv, NEW ok \in BOOLEAN, Completed(ok)
  PROVE  runs' \in SUBSET RunSet
<1>1. publisher.source \in Nat /\ publisher.head \in Nat
  BY DEF TypeInv, PublisherSet
<1> QED BY <1>1 DEF Completed, RunSet, TypeInv

\* A sequence with one more element, and one with an element changed.
LEMMA Appended ==
  ASSUME NEW S, NEW s \in Seq(S), NEW e \in S
  PROVE  /\ Append(s, e) \in Seq(S) /\ Len(Append(s, e)) = Len(s) + 1
         /\ Len(s) \in Nat /\ DOMAIN s = 1..Len(s) /\ DOMAIN Append(s, e) = 1..(Len(s) + 1)
         /\ Append(s, e)[Len(s) + 1] = e
         /\ \A i \in 1..Len(s) : Append(s, e)[i] = s[i]
BY AppendProperties, LenProperties

LEMMA SameDomain ==
  ASSUME NEW S, NEW s \in Seq(S), NEW t, DOMAIN t = DOMAIN s, t = [i \in DOMAIN t |-> t[i]],
         \A i \in DOMAIN s : t[i] \in S
  PROVE  t \in Seq(S) /\ Len(t) = Len(s)
<1>1. Len(s) \in Nat /\ DOMAIN s = 1..Len(s)
  BY LenProperties
<1>2. t \in [1..Len(s) -> S]
  BY <1>1
<1>3. t \in Seq(S)
  BY <1>1, <1>2, SeqDef
<1>4. Len(t) \in Nat /\ DOMAIN t = 1..Len(t)
  BY <1>3, LenProperties
<1>5. Len(t) = Len(s)
  BY <1>1, <1>4
<1> QED BY <1>3, <1>5

LEMMA TypesOutside ==
  ASSUME ReleaseInv, Outside
  PROVE  TypeInv'
<1>0. TypeInv
  BY DEF ReleaseInv
<1>1. ASSUME NEW e \in Events, HubReleases(e) PROVE TypeInv'
  BY <1>0, <1>1 DEF TypeInv, HubReleases, Tip
<1>2. CASE Push
  <2>1. [tree |-> Tree(Tip), pr |-> Nobody, ci |-> "success"] \in CommitSet
    BY <1>0, Elements DEF CommitSet, Status, Nobody
  <2>2. main' \in Seq(CommitSet) /\ Len(main') # 0
    BY <1>0, <1>2, <2>1, Appended DEF Push, TypeInv
  <2> QED BY <1>0, <1>2, <2>2 DEF Push, TypeInv, Tip
<1>3. ASSUME NEW n \in DOMAIN branches, Edit(n) PROVE TypeInv'
  <2>0. /\ branches[n] \in BranchSet /\ Tip \in Nat
        /\ branches \in [DOMAIN branches -> BranchSet]
    BY <1>0, Elements DEF TypeInv
  <2>2. branches[n].head + 1 \in Nat
    BY <2>0 DEF BranchSet
  <2>1. branches' \in [DOMAIN branches -> BranchSet] /\ DOMAIN branches' = DOMAIN branches
    <3>1. [branches[n] EXCEPT !.head = @ + 1, !.edited = TRUE] \in BranchSet
      BY <2>0, <2>2 DEF BranchSet
    <3>2. branches' = [branches EXCEPT ![n] = [branches[n] EXCEPT !.head = @ + 1, !.edited = TRUE]]
      BY <1>3, <2>0 DEF Edit
    <3> QED BY <2>0, <3>1, <3>2
  <2>3. ASSUME NEW p \in DOMAIN prs PROVE prs'[p] \in PrSet
    <3> DEFINE test == [head |-> branches[n].head + 1, base |-> Tip, status |-> "running"]
    <3>1. prs[p] \in PrSet
      BY <1>0, Elements
    <3>2. test \in [head: Nat, base: Nat, status: Status]
      BY <2>0, <2>2 DEF Status
    <3>3. prs'[p] = prs[p] \/ prs'[p] = [prs[p] EXCEPT !.ci = test]
      BY <1>3 DEF Edit
    <3> HIDE DEF test
    <3> QED BY <3>1, <3>2, <3>3 DEF PrSet
  <2>4. DOMAIN prs' = DOMAIN prs /\ prs' = [p \in DOMAIN prs' |-> prs'[p]]
    BY <1>3 DEF Edit
  <2>5. prs' \in Seq(PrSet)
    BY <1>0, <2>3, <2>4, SameDomain DEF TypeInv
  <2> QED BY <1>0, <1>3, <2>1, <2>5 DEF Edit, TypeInv, Tip
<1>4. ASSUME NEW p \in DOMAIN prs, MergedByHand(p) PROVE TypeInv'
  <2>1. Landed(p) \in CommitSet /\ Closed(p) \in Seq(PrSet)
    <3>1. prs[p] \in PrSet /\ p \in Nat /\ prs[p].name \in DOMAIN branches /\ p \in 1..Len(prs)
      BY <1>0, <1>4, Elements DEF ReleaseInv, PrsInv, PrInv
    <3>2. Branch(p).tree \in TreeSet /\ Tip + 1 \in Nat
      BY <1>0, <3>1, Elements DEF BranchSet, Branch
    <3>3. Landed(p) \in CommitSet
      BY <3>1, <3>2 DEF Landed, CommitSet, Status
    <3>4. [prs[p] EXCEPT !.open = FALSE, !.merge = Tip + 1] \in PrSet
      BY <3>1, <3>2 DEF PrSet
    <3>5. Closed(p) = [prs EXCEPT ![p] = [prs[p] EXCEPT !.open = FALSE, !.merge = Tip + 1]]
      BY DEF Closed
    <3>6. Closed(p) \in Seq(PrSet)
      BY <1>0, <3>1, <3>4, <3>5, ExceptSeq DEF TypeInv
    <3> QED BY <3>3, <3>6
  <2>2. main' \in Seq(CommitSet) /\ Len(main') # 0
    BY <1>0, <1>4, <2>1, Appended DEF MergedByHand, TypeInv
  <2> QED BY <1>0, <1>4, <2>1, <2>2 DEF MergedByHand, TypeInv, Tip
<1>5. ASSUME NEW p \in DOMAIN prs, CandidateCI(p) \/ CandidateRerun(p) PROVE TypeInv'
  <2>1. PICK s \in Status : prs' = [prs EXCEPT ![p].ci.status = s]
    BY <1>5 DEF CandidateCI, CandidateRerun, Status
  <2>2. prs' \in Seq(PrSet)
    <3>1. prs[p] \in PrSet /\ p \in 1..Len(prs)
      BY <1>0, Elements
    <3>2. [prs[p] EXCEPT !.ci.status = s] \in PrSet
      BY <3>1 DEF PrSet
    <3>3. prs' = [prs EXCEPT ![p] = [prs[p] EXCEPT !.ci.status = s]]
      BY <2>1
    <3> QED BY <1>0, <3>1, <3>2, <3>3, ExceptSeq DEF TypeInv
  <2> QED BY <1>0, <1>5, <2>2 DEF CandidateCI, CandidateRerun, TypeInv, Tip
<1>6. ASSUME NEW c \in 1..Tip, MainCI(c) \/ MainRerun(c) PROVE TypeInv'
  <2>1. PICK s \in Status : main' = [main EXCEPT ![c].ci = s]
    BY <1>6 DEF MainCI, MainRerun, Status
  <2>2. main' \in Seq(CommitSet) /\ Len(main') = Len(main)
    <3>1. main[c] \in CommitSet
      BY <1>0, Elements
    <3>2. [main[c] EXCEPT !.ci = s] \in CommitSet
      BY <3>1 DEF CommitSet
    <3>3. main' = [main EXCEPT ![c] = [main[c] EXCEPT !.ci = s]]
      BY <2>1
    <3> QED BY <1>0, <3>1, <3>2, <3>3, ExceptSeq DEF TypeInv, Tip
  <2> QED BY <1>0, <1>6, <2>2 DEF MainCI, MainRerun, TypeInv, Tip
<1> QED BY <1>1, <1>2, <1>3, <1>4, <1>5, <1>6 DEF Outside

LEMMA ReleaseTypes ==
  ASSUME TypeInv, NEW v, NEW c \in Nat
  PROVE  /\ [releases EXCEPT ![v].tag = c] \in [Packages -> ReleaseSet]
         /\ [releases EXCEPT ![v].receipt = c] \in [Packages -> ReleaseSet]
         /\ \A f \in Files : [releases EXCEPT ![v].assets[f] = c] \in [Packages -> ReleaseSet]
         /\ \A f \in Files : [pypi EXCEPT ![v][f] = c] \in [Packages -> [Files -> Nat]]
<1>0. releases \in [Packages -> ReleaseSet] /\ pypi \in [Packages -> [Files -> Nat]]
  BY DEF TypeInv
<1>1. CASE v \in Packages
  <2>1. releases[v] \in ReleaseSet /\ releases[v].assets \in [Files -> Nat] /\ pypi[v] \in [Files -> Nat]
    BY <1>0, <1>1 DEF ReleaseSet
  <2>2. [releases[v] EXCEPT !.tag = c] \in ReleaseSet /\ [releases[v] EXCEPT !.receipt = c] \in ReleaseSet
    BY <2>1 DEF ReleaseSet
  <2>3. ASSUME NEW f \in Files
        PROVE  /\ [releases EXCEPT ![v].assets[f] = c] \in [Packages -> ReleaseSet]
               /\ [pypi EXCEPT ![v][f] = c] \in [Packages -> [Files -> Nat]]
    <3>1. [releases[v].assets EXCEPT ![f] = c] \in [Files -> Nat] /\ [pypi[v] EXCEPT ![f] = c] \in [Files -> Nat]
      BY <2>1
    <3>2. [releases[v] EXCEPT !.assets = [releases[v].assets EXCEPT ![f] = c]] \in ReleaseSet
      BY <2>1, <3>1 DEF ReleaseSet
    <3> QED BY <1>0, <3>1, <3>2
  <2> QED BY <1>0, <2>2, <2>3
<1>2. CASE v \notin Packages
  BY <1>0, <1>2
<1> QED BY <1>1, <1>2

LEMMA TypesPublisher ==
  ASSUME ReleaseInv, Publish \/ PublisherFails
  PROVE  TypeInv'
<1>0. /\ TypeInv /\ publisher \in PublisherSet /\ publisher.source \in Nat /\ Resting \in PublisherSet
      /\ Tip \in Nat /\ releases \in [Packages -> ReleaseSet]
  BY JobTypes, Elements DEF ReleaseInv, TypeInv, PublisherSet
<1>1. ASSUME NEW c \in 1..Tip, Prepare(c) PROVE TypeInv'
  <2> DEFINE published == Published(Tree(c).package) = Files
  <2>1. PICK head \in Heads(Tree(c).package) :
          \/ /\ publisher' = [pc |-> "release", source |-> c, head |-> head, published |-> published]
             /\ UNCHANGED runs
          \/ /\ runs' = runs \cup {[source |-> c, ok |-> FALSE, head |-> 0]}
             /\ UNCHANGED publisher
    BY <1>1 DEF Prepare
  <2>2. head \in Nat /\ c \in Nat
    <3>1. CASE head = Tip
      BY <1>0, <3>1
    <3>2. CASE head = releases[Tree(c).package].tag
      <4>1. Tree(c).package \in Packages
        BY DEF ReleaseInv, TreesInv, Sane
      <4> QED BY <1>0, <3>2, <4>1 DEF ReleaseSet
    <3> QED BY <2>1, <3>1, <3>2 DEF Heads
  <2>3. published \in BOOLEAN
    OBVIOUS
  <2> HIDE DEF published
  <2>4. publisher' \in PublisherSet
    BY <1>0, <2>1, <2>2, <2>3 DEF PublisherSet
  <2>5. runs' \in SUBSET RunSet
    <3>1. [source |-> c, ok |-> FALSE, head |-> 0] \in RunSet
      BY <2>2 DEF RunSet
    <3>2. runs \in SUBSET RunSet
      BY <1>0 DEF TypeInv
    <3> QED BY <2>1, <3>1, <3>2
  <2> QED BY <1>0, <1>1, <2>4, <2>5 DEF Prepare, TypeInv, Tip
<1>2. \A pc \in {"tag", "assets", "preflight", "upload", "verify", "latest"} :
        [publisher EXCEPT !.pc = pc] \in PublisherSet
  BY <1>0 DEF PublisherSet
<1>3. CASE CreatesTag
  <2>1. releases' \in [Packages -> ReleaseSet]
    <3>1. PICK v, c : v = Version /\ c = IF releases[Version].tag = 0 THEN publisher.source
                                        ELSE releases[Version].tag
      OBVIOUS
    <3>2. releases' = [releases EXCEPT ![v].tag = c]
      BY <1>3, <3>1 DEF CreatesTag
    <3>3. CASE v \in Packages
      <4>1. c \in Nat
        BY <1>0, <3>1, <3>3 DEF ReleaseSet
      <4> QED BY <1>0, <3>2, <4>1, ReleaseTypes
    <3>4. CASE v \notin Packages
      BY <1>0, <3>2, <3>4
    <3> QED BY <3>3, <3>4
  <2>2. publisher' \in PublisherSet
    BY <1>2, <1>3 DEF CreatesTag
  <2> QED BY <1>0, <1>3, <2>1, <2>2 DEF CreatesTag, TypeInv, Tip
<1>4. CASE UploadAsset
  <2>1. \A files : First(files) \in Files
    BY DEF First, Files
  <2>2. releases' \in [Packages -> ReleaseSet]
    <3>1. \/ releases' = releases
          \/ \E f \in Files : releases' = [releases EXCEPT ![Version].assets[f] = publisher.source]
      BY <1>4, <2>1 DEF UploadAsset
    <3>2. ASSUME NEW f \in Files, releases' = [releases EXCEPT ![Version].assets[f] = publisher.source]
          PROVE  releases' \in [Packages -> ReleaseSet]
      <4>1. PICK v, c : v = Version /\ c \in Nat /\ c = publisher.source
        BY <1>0
      <4>2. releases' = [releases EXCEPT ![v].assets[f] = c]
        BY <3>2, <4>1
      <4> QED BY <1>0, <4>1, <4>2, ReleaseTypes
    <3> QED BY <1>0, <3>1, <3>2
  <2>3. publisher' \in PublisherSet
    BY <1>0, <1>2, <1>4 DEF UploadAsset
  <2> QED BY <1>0, <1>4, <2>2, <2>3 DEF UploadAsset, TypeInv, Tip
<1>5. CASE Upload
  <2>1. \A files : First(files) \in Files
    BY DEF First, Files
  <2>2. pypi' \in [Packages -> [Files -> Nat]]
    <3>1. \/ pypi' = pypi
          \/ \E f \in Files : pypi' = [pypi EXCEPT ![Version][f] = publisher.source]
      BY <1>5, <2>1 DEF Upload
    <3>2. ASSUME NEW f \in Files, pypi' = [pypi EXCEPT ![Version][f] = publisher.source]
          PROVE  pypi' \in [Packages -> [Files -> Nat]]
      <4>1. PICK v, c : v = Version /\ c \in Nat /\ c = publisher.source
        BY <1>0
      <4>2. pypi' = [pypi EXCEPT ![v][f] = c]
        BY <3>2, <4>1
      <4> QED BY <1>0, <4>1, <4>2, ReleaseTypes
    <3> QED BY <1>0, <3>1, <3>2 DEF TypeInv
  <2>3. publisher' \in PublisherSet
    BY <1>0, <1>2, <1>5 DEF Upload
  <2> QED BY <1>0, <1>5, <2>2, <2>3 DEF Upload, TypeInv, Tip
<1>6. CASE GithubRelease \/ Preflight \/ VerifyPublication
  <2>1. PICK pc \in {"tag", "upload", "latest"} : Goes(pc)
    BY <1>6 DEF GithubRelease, Preflight, VerifyPublication
  <2>2. publisher' \in PublisherSet
    BY <1>2, <2>1 DEF Goes
  <2> QED BY <1>0, <2>1, <2>2 DEF Goes, TypeInv, Tip
<1>8. CASE MovesLatest
  <2>1. Version \in Packages
    <3>1. Public(publisher.source)
      BY <1>8 DEF MovesLatest, ReleaseInv, PublicInv, Resting
    <3> QED BY <3>1 DEF Public, Version, ReleaseInv, TreesInv, Sane
  <2>2. runs' \in SUBSET RunSet
    BY <1>0, <1>8, CompletedTypes DEF MovesLatest
  <2> QED BY <1>0, <1>8, <2>1, <2>2 DEF MovesLatest, Rests, TypeInv, Tip
<1>7. CASE Refused \/ PublisherFails
  <2>1. runs' \in SUBSET RunSet
    BY <1>0, <1>7, CompletedTypes DEF Refused, PublisherFails
  <2> QED BY <1>0, <1>7, <2>1 DEF Refused, PublisherFails, Rests, TypeInv, Tip
<1> QED BY <1>1, <1>3, <1>4, <1>5, <1>6, <1>7, <1>8 DEF Publish

LEMMA PullRequest ==
  ASSUME TypeInv, PrsInv, NEW p \in DOMAIN prs
  PROVE  /\ p \in 1..Len(prs) /\ p \in Nat /\ p # 0 /\ prs[p] \in PrSet
         /\ prs[p].name \in DOMAIN branches /\ Branch(p) \in BranchSet
         /\ Branch(p) = branches[prs[p].name]
         /\ prs[p].merge \in Nat /\ prs[p].generated \in Nat /\ prs[p].open \in BOOLEAN
         /\ prs[p].event \in Nat /\ prs[p].base \in Nat /\ prs[p].rollback \in Int
         /\ Branch(p).head \in Nat /\ Branch(p).tree \in TreeSet /\ Branch(p).onto \in Nat
<1>1. p \in 1..Len(prs) /\ p \in Nat /\ p # 0 /\ prs[p] \in PrSet
  BY Elements
<1>2. prs[p].name \in DOMAIN branches /\ Branch(p) = branches[prs[p].name]
  BY DEF PrsInv, PrInv, Branch
<1>3. Branch(p) \in BranchSet
  BY <1>2, Elements
<1>4. /\ prs[p].merge \in Nat /\ prs[p].generated \in Nat /\ prs[p].open \in BOOLEAN
      /\ prs[p].event \in Nat /\ prs[p].base \in Nat /\ prs[p].rollback \in Int
  BY <1>1 DEF PrSet
<1>5. Branch(p).head \in Nat /\ Branch(p).tree \in TreeSet /\ Branch(p).onto \in Nat
  BY <1>3 DEF BranchSet
<1> QED BY <1>1, <1>2, <1>3, <1>4, <1>5

\* A changed pull request.
LEMMA PrTypes ==
  ASSUME TypeInv, NEW p \in DOMAIN prs, NEW pr \in PrSet
  PROVE  [prs EXCEPT ![p] = pr] \in Seq(PrSet)
<1>1. p \in 1..Len(prs) /\ prs \in Seq(PrSet)
  BY Elements DEF TypeInv
<1> QED BY <1>1, ExceptSeq

LEMMA LandTypes ==
  ASSUME TypeInv, PrsInv, NEW p \in DOMAIN prs
  PROVE  /\ Append(main, Landed(p)) \in Seq(CommitSet) /\ Len(Append(main, Landed(p))) # 0
         /\ Closed(p) \in Seq(PrSet)
<1>1. Tip + 1 \in Nat /\ Tip \in Nat /\ main \in Seq(CommitSet)
  BY Elements DEF TypeInv
<1>2. Landed(p) \in CommitSet
  BY PullRequest DEF Landed, CommitSet, Status
<1>3. [prs[p] EXCEPT !.open = FALSE, !.merge = Tip + 1] \in PrSet
  BY <1>1, PullRequest DEF PrSet
<1>4. Closed(p) = [prs EXCEPT ![p] = [prs[p] EXCEPT !.open = FALSE, !.merge = Tip + 1]]
  BY DEF Closed
<1> QED BY <1>1, <1>2, <1>3, <1>4, PrTypes, Appended DEF Tip

LEMMA TypesAdapter ==
  ASSUME ReleaseInv, Decides \/ Reconcile \/ AdapterFails \/ (\E r \in runs : Publication(r)) \/ Reporting
  PROVE  TypeInv'
<1>0. /\ TypeInv /\ PrsInv /\ JobInv /\ TreesInv /\ job \in JobSet /\ job.event \in Nat /\ job.rollback \in Int
      /\ job.base \in Nat /\ job.pr \in Nat /\ job.name \in NameSet /\ Tip \in Nat /\ Idle \in JobSet
  BY JobTypes, Elements DEF ReleaseInv, TypeInv, JobSet
<1>1. \A pc \in {"push", "open", "supersede", "inspect", "update", "record", "merge", "report", "retain"} :
        GoOn(pc) => job' \in JobSet
  BY <1>0, JobTypes DEF GoOn
<1>2. {"failed", "testing", "merged", "pr_open", "verified"} \subseteq States
  BY DEF States
<1>3. CASE Decides
  <2>1. Decided
    BY <1>3, DecidesOne DEF ReleaseInv
  <2>2. job' \in JobSet
    BY <2>1 DEF Decided, Ends, Looks, Starts
  <2> QED BY <1>0, <1>3, <2>2 DEF Decides, World, TypeInv, Tip
<1>4. CASE Pushes
  <2>1. job.base \in 1..Tip /\ Tree(job.base) \in TreeSet
    BY <1>0, <1>4, Elements DEF JobInv, Pushes
  <2>2. job' \in JobSet
    BY <1>0, <1>1, <1>2, <1>4, FinishTypes DEF Pushes
  <2> DEFINE tree == Patched(job.name.kind, job.event, job.rollback, Tree(job.base))
             branch == [head |-> 1, onto |-> job.base, edited |-> FALSE, tree |-> tree]
  <2>3. branch \in BranchSet
    <3>1. tree \in TreeSet
      BY <1>0, <2>1, PatchedTypes
    <3> HIDE DEF tree
    <3> QED BY <1>0, <3>1 DEF BranchSet
  <2>4. \/ branches' = branches
        \/ branches' = [n \in DOMAIN branches \cup {job.name} |->
                          IF n = job.name THEN branch ELSE branches[n]]
    <3>1. \A n : n = job.name => [head |-> 1, onto |-> job.base, edited |-> FALSE,
                        tree |-> Patched(n.kind, job.event, job.rollback, Tree(job.base))] = branch
      OBVIOUS
    <3> HIDE DEF branch
    <3> QED BY <1>4, <3>1 DEF Pushes
  <2> HIDE DEF branch
  <2>5. branches' \in [DOMAIN branches' -> BranchSet] /\ DOMAIN branches' \subseteq NameSet
    <3>1. branches \in [DOMAIN branches -> BranchSet] /\ DOMAIN branches \subseteq NameSet
      BY <1>0 DEF TypeInv
    <3> QED BY <1>0, <2>3, <2>4, <3>1
  <2> QED BY <1>0, <1>4, <2>2, <2>5 DEF Pushes, TypeInv, Tip
<1>5. CASE Opens
  <2>1. job.name \in DOMAIN branches /\ branches[job.name] \in BranchSet /\ branches[job.name].head \in Nat
    BY <1>0, <1>5, Elements DEF JobInv, Opens, BranchSet
  <2>2. Testing(branches[job.name].head) \in [head: Nat, base: Nat, status: Status]
    BY <1>0, <2>1 DEF Testing, Status
  <2>3. job.name.kind \in Kinds
    BY <1>0 DEF NameSet
  <2> DEFINE pr == [name |-> job.name, kind |-> job.name.kind, event |-> job.event,
                    rollback |-> job.rollback, base |-> job.base, open |-> TRUE,
                    generated |-> branches[job.name].head, merge |-> 0,
                    ci |-> Testing(branches[job.name].head)]
  <2>4. pr \in PrSet
    BY <1>0, <2>1, <2>2, <2>3 DEF PrSet
  <2>5. prs' = Append(prs, pr)
    BY <1>5 DEF Opens
  <2> HIDE DEF pr
  <2>6. prs' \in Seq(PrSet)
    BY <1>0, <2>4, <2>5, Appended DEF TypeInv
  <2>7. job' \in JobSet
    <3>1. Len(prs) + 1 \in Nat /\ NoVersion \in Int /\ NoName \in NameSet
      BY <1>0, Elements, JobTypes DEF NoVersion
    <3> QED BY <1>0, <1>5, <3>1 DEF Opens, JobSet
  <2> QED BY <1>0, <1>5, <2>6, <2>7 DEF Opens, TypeInv, Tip
<1>6. CASE Supersedes
  <2>1. job' \in JobSet
    <3>1. \A old : [job EXCEPT !.old = @ \ {old}] \in JobSet
      BY <1>0 DEF JobSet
    <3> QED BY <1>0, <1>1, <1>2, <1>6, <3>1, FinishTypes DEF Supersedes
  <2>2. prs' \in Seq(PrSet)
    <3>1. PICK p : prs' = prs \/ prs' = [prs EXCEPT ![p].open = FALSE]
      BY <1>6 DEF Supersedes
    <3>2. CASE p \in DOMAIN prs /\ prs' = [prs EXCEPT ![p].open = FALSE]
      <4>2. [prs[p] EXCEPT !.open = FALSE] \in PrSet
        BY <1>0, <3>2, PullRequest DEF PrSet
      <4>3. prs' = [prs EXCEPT ![p] = [prs[p] EXCEPT !.open = FALSE]]
        BY <3>2
      <4> QED BY <1>0, <3>2, <4>2, <4>3, PrTypes
    <3>3. CASE p \notin DOMAIN prs
      <4>1. prs \in [1..Len(prs) -> PrSet]
        BY <1>0, ElementOfSeq, LenProperties DEF TypeInv
      <4>2. prs' = prs
        BY <3>1, <3>3, <4>1
      <4> QED BY <1>0, <4>2 DEF TypeInv
    <3> QED BY <1>0, <3>1, <3>2, <3>3 DEF TypeInv
  <2> QED BY <1>0, <1>6, <2>1, <2>2 DEF Supersedes, TypeInv, Tip
<1> DEFINE report == IF prs[job.pr].kind = "rollback" THEN prs[job.pr].event ELSE job.event
<1>7. CASE Inspects
  <2>1. job.pr \in DOMAIN prs /\ report \in Nat
    <3>1. job.pr \in DOMAIN prs
      BY <1>7 DEF Inspects, ReleaseInv, JobInv
    <3> QED BY <1>0, <3>1, PullRequest
  <2>2. \/ Finish(IF Owned(job.pr) THEN report ELSE job.event, "failed")
        \/ job' = [job EXCEPT !.pc = "update", !.event = report, !.base = Tip]
        \/ job' = [job EXCEPT !.pc = "merge", !.event = report, !.base = Tip]
        \/ Finish(report, "pr_open") \/ Finish(report, "testing") \/ Finish(report, "failed")
    BY <1>7 DEF Inspects
  <2> HIDE DEF report
  <2>3. job' \in JobSet
    <3>1. [job EXCEPT !.pc = "update", !.event = report, !.base = Tip] \in JobSet
      BY <1>0, <2>1 DEF JobSet
    <3>2. [job EXCEPT !.pc = "merge", !.event = report, !.base = Tip] \in JobSet
      BY <1>0, <2>1 DEF JobSet
    <3>3. (IF Owned(job.pr) THEN report ELSE job.event) \in Nat
      BY <1>0, <2>1
    <3> QED BY <1>2, <2>1, <2>2, <3>1, <3>2, <3>3, FinishTypes
  <2> QED BY <1>0, <1>7, <2>3 DEF Inspects, World, TypeInv, Tip
<1>8. CASE UpdatesBranch
  <2>0. PICK p : p = job.pr
    OBVIOUS
  <2>1. p \in DOMAIN prs
    BY <1>8, <2>0 DEF UpdatesBranch, ReleaseInv, JobInv
  <2>2. job' \in JobSet
    BY <1>0, <1>1, <1>2, <1>8, FinishTypes DEF UpdatesBranch
  <2>3. /\ \/ branches' = branches
           \/ branches' = [branches EXCEPT ![prs[p].name].head = @ + 1, ![prs[p].name].onto = Tip]
        /\ \/ prs' = prs
           \/ prs' = [prs EXCEPT ![p].ci = Testing(Branch(p).head + 1)]
    BY <1>8, <2>0 DEF UpdatesBranch
  <2>4. Testing(Branch(p).head + 1) \in [head: Nat, base: Nat, status: Status]
    BY <1>0, <2>1, PullRequest DEF Testing, Status
  <2>5. prs' \in Seq(PrSet)
    <3>1. PICK ci : ci = Testing(Branch(p).head + 1)
      OBVIOUS
    <3>2. PICK pr : pr = [prs[p] EXCEPT !.ci = ci]
      OBVIOUS
    <3>3. prs[p] \in PrSet /\ ci \in [head: Nat, base: Nat, status: Status]
      BY <1>0, <2>1, <2>4, <3>1, PullRequest
    <3>4. pr \in PrSet
      BY <3>2, <3>3 DEF PrSet
    <3>5. prs' = prs \/ prs' = [prs EXCEPT ![p] = pr]
      BY <2>1, <2>3, <3>1, <3>2
    <3> QED BY <1>0, <2>1, <3>4, <3>5, PrTypes DEF TypeInv
  <2>6. branches' \in [DOMAIN branches -> BranchSet]
    <3>1. PICK n : n = prs[p].name
      OBVIOUS
    <3>2. n \in DOMAIN branches /\ branches[n] \in BranchSet /\ branches \in [DOMAIN branches -> BranchSet]
      BY <1>0, <2>1, <3>1, PullRequest DEF TypeInv
    <3>3. [branches[n] EXCEPT !.head = @ + 1, !.onto = Tip] \in BranchSet
      <4>1. branches[n].head + 1 \in Nat
        BY <3>2 DEF BranchSet
      <4> QED BY <1>0, <3>2, <4>1 DEF BranchSet
    <3>4. [branches EXCEPT ![n].head = @ + 1, ![n].onto = Tip]
          = [branches EXCEPT ![n] = [branches[n] EXCEPT !.head = @ + 1, !.onto = Tip]]
      BY <3>2
    <3> QED BY <2>3, <3>1, <3>2, <3>3, <3>4
  <2>7. DOMAIN branches' = DOMAIN branches
    BY <2>6
  <2> QED BY <1>0, <1>8, <2>2, <2>5, <2>6, <2>7 DEF UpdatesBranch, TypeInv, Tip
<1>9. CASE Records
  <2>1. job.pr \in DOMAIN prs
    BY <1>9 DEF Records, ReleaseInv, JobInv
  <2>2. job' \in JobSet
    BY <1>0, <1>2, <1>9, FinishTypes DEF Records
  <2>3. prs' \in Seq(PrSet)
    <3>1. PICK p : p = job.pr
      OBVIOUS
    <3>2. [prs[p] EXCEPT !.generated = Branch(p).head, !.base = job.base] \in PrSet
      BY <1>0, <2>1, <3>1, PullRequest DEF PrSet
    <3>3. prs' = [prs EXCEPT ![p] = [prs[p] EXCEPT !.generated = Branch(p).head, !.base = job.base]]
      BY <1>9, <2>1, <3>1 DEF Records
    <3> QED BY <1>0, <2>1, <3>1, <3>2, <3>3, PrTypes
  <2> QED BY <1>0, <1>9, <2>2, <2>3 DEF Records, TypeInv, Tip
<1>10. CASE Merges
  <2>1. job.pr \in DOMAIN prs
    BY <1>10 DEF Merges, ReleaseInv, JobInv
  <2>2. job' \in JobSet
    BY <1>0, <1>2, <1>10, FinishTypes DEF Merges
  <2>3. \/ main' = main /\ prs' = prs
        \/ main' = Append(main, Landed(job.pr)) /\ prs' = Closed(job.pr)
    BY <1>10 DEF Merges
  <2>4. main' \in Seq(CommitSet) /\ Len(main') # 0 /\ prs' \in Seq(PrSet)
    <3>1. PICK p \in DOMAIN prs : p = job.pr
      BY <2>1
    <3> QED BY <1>0, <2>3, <3>1, LandTypes DEF TypeInv, Tip
  <2> QED BY <1>0, <1>10, <2>2, <2>4 DEF Merges, TypeInv, Tip
<1>11. CASE AdapterFails
  <2>1. job' \in JobSet
    BY <1>0, <1>2, <1>11, FinishTypes DEF AdapterFails
  <2> QED BY <1>0, <1>11, <2>1 DEF AdapterFails, TypeInv, Tip
<1>12. ASSUME NEW r \in runs, Publication(r) PROVE TypeInv'
  <2>1. r.source \in 1..Tip /\ Reported(r) \in Nat /\ main[r.source].pr \in Nat
    <3>1. r.source \in 1..Tip
      BY DEF ReleaseInv, PublicInv
    <3> QED BY <1>0, <3>1, Elements DEF Reported, TreeSet, CommitSet
  <2>2. job' \in JobSet
    <3>1. \/ job' = Idle \/ Finish(Reported(r), "failed")
          \/ job' = [Idle EXCEPT !.pc = "report", !.event = Reported(r),
                                 !.pr = main[r.source].pr, !.state = "verified"]
      BY <1>12 DEF Publication
    <3>2. [Idle EXCEPT !.pc = "report", !.event = Reported(r),
                       !.pr = main[r.source].pr, !.state = "verified"] \in JobSet
      BY <1>0, <1>2, <2>1 DEF JobSet
    <3> QED BY <1>0, <1>2, <2>1, <3>1, <3>2, FinishTypes
  <2> QED BY <1>0, <1>12, <2>2 DEF Publication, World, TypeInv, Tip
<1>13. CASE Reports
  <2>1. job' \in JobSet
    BY <1>0, <1>1, <1>13 DEF Reports
  <2>2. told' \in [Events -> {"nothing", "progress", "verified"}]
    BY <1>0, <1>13 DEF Reports, TypeInv
  <2> QED BY <1>0, <1>13, <2>1, <2>2 DEF Reports, TypeInv, Tip
<1>14. CASE Retains
  <2>1. releases' \in [Packages -> ReleaseSet]
    <3>1. PICK v : v = Landing(job.pr).package
      OBVIOUS
    <3>2. PICK c : c = job.event
      OBVIOUS
    <3>3. releases' = releases \/ releases' = [releases EXCEPT ![v].receipt = c]
      BY <1>14, <3>1, <3>2 DEF Retains
    <3>4. [releases EXCEPT ![v].receipt = c] \in [Packages -> ReleaseSet]
      BY <1>0, <3>2, ReleaseTypes
    <3> QED BY <1>0, <3>3, <3>4 DEF TypeInv
  <2> QED BY <1>0, <1>14, <2>1 DEF Retains, TypeInv, Tip
<1> QED BY <1>3, <1>4, <1>5, <1>6, <1>7, <1>8, <1>9, <1>10, <1>11, <1>12, <1>13, <1>14
     DEF Reconcile, Reporting

LEMMA TypesStep ==
  ASSUME ReleaseInv, [Next]_vars
  PROVE  TypeInv'
<1>1. CASE UNCHANGED vars
  BY <1>1 DEF vars, ReleaseInv, TypeInv, Tip
<1>2. CASE Next
  BY <1>2, TypesOutside, TypesPublisher, TypesAdapter DEF Next
<1> QED BY <1>1, <1>2

-----------------------------------------------------------------------------
(* What a step does to main, the branches and the pull requests.            *)

MainKept ==
  /\ Len(main') = Tip
  /\ \A c \in 1..Tip : /\ main'[c].tree = main[c].tree /\ main'[c].pr = main[c].pr
                       /\ main[c].ci = "success" => main'[c].ci = "success"

MainGrew(tree, pr) ==
  /\ Len(main') = Tip + 1 /\ main'[Tip + 1].tree = tree /\ main'[Tip + 1].pr = pr
  /\ \A c \in 1..Tip : main'[c] = main[c]

\* A pull request that is the same but for the runs of its CI.
PrKept(p) ==
  /\ p \in DOMAIN prs'
  /\ prs'[p].name = prs[p].name /\ prs'[p].kind = prs[p].kind /\ prs'[p].event = prs[p].event
  /\ prs'[p].base = prs[p].base /\ prs'[p].open = prs[p].open
  /\ prs'[p].generated = prs[p].generated /\ prs'[p].merge = prs[p].merge

Quiet ==
  /\ MainKept /\ branches' = branches /\ DOMAIN prs' = DOMAIN prs
  /\ \A p \in DOMAIN prs : PrKept(p) /\ (prs[p].ci.status = "success" => prs'[p].ci = prs[p].ci)

Pushing == MainGrew(Tree(Tip), Nobody) /\ branches' = branches /\ prs' = prs

Editing(n) ==
  /\ n \in DOMAIN branches /\ \E p \in DOMAIN prs : prs[p].open /\ prs[p].name = n
  /\ main' = main /\ DOMAIN prs' = DOMAIN prs /\ DOMAIN branches' = DOMAIN branches
  /\ branches'[n].head = branches[n].head + 1
  /\ branches'[n].onto = branches[n].onto /\ branches'[n].tree = branches[n].tree
  /\ \A m \in DOMAIN branches : m # n => branches'[m] = branches[m]
  /\ \A p \in DOMAIN prs : PrKept(p) /\ (prs[p].name # n => prs'[p] = prs[p])

LandsPr(p) ==
  /\ p \in DOMAIN prs /\ prs[p].open /\ Branch(p).onto = Tip
  /\ MainGrew(Branch(p).tree, p) /\ branches' = branches /\ DOMAIN prs' = DOMAIN prs
  /\ prs'[p].name = prs[p].name /\ prs'[p].kind = prs[p].kind /\ prs'[p].event = prs[p].event
  /\ prs'[p].base = prs[p].base /\ prs'[p].generated = prs[p].generated
  /\ prs'[p].open = FALSE /\ prs'[p].merge = Tip + 1
  /\ \A q \in DOMAIN prs : q # p => prs'[q] = prs[q]

Branching ==
  /\ job.pc = "push" /\ job.name \notin DOMAIN branches /\ main' = main /\ prs' = prs
  /\ DOMAIN branches' = DOMAIN branches \cup {job.name}
  /\ \A n \in DOMAIN branches : branches'[n] = branches[n]
  /\ branches'[job.name].onto = job.base
  /\ branches'[job.name].tree =
       Patched(job.name.kind, job.event, job.rollback, Tree(job.base))

Opening ==
  LET p == Len(prs) + 1 IN
  /\ job.pc = "open" /\ main' = main /\ branches' = branches
  /\ DOMAIN prs' = DOMAIN prs \cup {p} /\ \A q \in DOMAIN prs : prs'[q] = prs[q]
  /\ prs'[p].name = job.name /\ prs'[p].kind = job.name.kind /\ prs'[p].event = job.event
  /\ prs'[p].base = job.base /\ prs'[p].open = TRUE /\ prs'[p].merge = 0
  /\ prs'[p].generated = branches[job.name].head

Closing(p) ==
  /\ p \in DOMAIN prs /\ prs[p].open
  /\ main' = main /\ branches' = branches /\ DOMAIN prs' = DOMAIN prs
  /\ prs'[p].name = prs[p].name /\ prs'[p].kind = prs[p].kind /\ prs'[p].event = prs[p].event
  /\ prs'[p].base = prs[p].base /\ prs'[p].generated = prs[p].generated
  /\ prs'[p].open = FALSE /\ prs'[p].merge = prs[p].merge
  /\ \A q \in DOMAIN prs : q # p => prs'[q] = prs[q]

Updating ==
  LET p == job.pr n == prs[job.pr].name IN
  /\ job.pc = "update" /\ p \in DOMAIN prs /\ Branch(p).head = prs[p].generated
  /\ Tree(Tip) = Tree(prs[p].base)
  /\ main' = main /\ DOMAIN prs' = DOMAIN prs /\ DOMAIN branches' = DOMAIN branches
  /\ branches'[n].head = branches[n].head + 1 /\ branches'[n].onto = Tip
  /\ branches'[n].tree = branches[n].tree
  /\ \A m \in DOMAIN branches : m # n => branches'[m] = branches[m]
  /\ \A q \in DOMAIN prs : PrKept(q) /\ (q # p => prs'[q] = prs[q])

Recording ==
  LET p == job.pr IN
  /\ job.pc = "record" /\ p \in DOMAIN prs
  /\ main' = main /\ branches' = branches /\ DOMAIN prs' = DOMAIN prs
  /\ prs'[p].name = prs[p].name /\ prs'[p].kind = prs[p].kind /\ prs'[p].event = prs[p].event
  /\ prs'[p].open = prs[p].open /\ prs'[p].merge = prs[p].merge
  /\ prs'[p].base = job.base /\ prs'[p].generated = Branch(p).head
  /\ \A q \in DOMAIN prs : q # p => prs'[q] = prs[q]

\* What others do to main, the branches and the pull requests ...
Around ==
  \/ Quiet \/ Pushing \/ (\E n \in DOMAIN branches : Editing(n))
  \/ \E p \in DOMAIN prs : LandsPr(p)

\* ... and what any step does to them.
Effects ==
  \/ Quiet \/ Pushing \/ (\E n \in DOMAIN branches : Editing(n))
  \/ (\E p \in DOMAIN prs : LandsPr(p) \/ Closing(p))
  \/ Branching \/ Opening \/ Updating \/ Recording

LEMMA SameIsQuiet ==
  ASSUME UNCHANGED <<main, branches, prs>>
  PROVE  Quiet
BY DEF Quiet, MainKept, PrKept, Tip

LEMMA CIIsQuiet ==
  ASSUME TypeInv, NEW p \in DOMAIN prs, CandidateCI(p) \/ CandidateRerun(p)
  PROVE  Quiet
<1>1. PICK s : prs' = [prs EXCEPT ![p].ci.status = s]
  BY DEF CandidateCI, CandidateRerun
<1>2. prs[p].ci.status # "success"
  BY DEF CandidateCI, CandidateRerun
<1>3. prs[p] \in PrSet /\ main' = main /\ branches' = branches
  BY Elements DEF CandidateCI, CandidateRerun
<1>4. /\ DOMAIN prs' = DOMAIN prs /\ \A q \in DOMAIN prs : q # p => prs'[q] = prs[q]
      /\ prs'[p] = [prs[p] EXCEPT !.ci.status = s]
  BY <1>1
<1>5. PrKept(p)
  BY <1>3, <1>4 DEF PrKept, PrSet
<1>6. \A q \in DOMAIN prs : PrKept(q) /\ (prs[q].ci.status = "success" => prs'[q].ci = prs[q].ci)
  BY <1>2, <1>4, <1>5 DEF PrKept
<1> QED BY <1>3, <1>4, <1>6 DEF Quiet, MainKept, Tip

LEMMA MainCIIsQuiet ==
  ASSUME TypeInv, NEW c \in 1..Tip, MainCI(c) \/ MainRerun(c)
  PROVE  Quiet
<1>1. PICK s \in Status : main' = [main EXCEPT ![c].ci = s]
  BY DEF MainCI, MainRerun, Status
<1>2. main[c].ci # "success" /\ prs' = prs /\ branches' = branches
  BY DEF MainCI, MainRerun
<1>3. main[c] \in CommitSet /\ DOMAIN main = 1..Tip /\ main \in Seq(CommitSet)
  BY Elements DEF TypeInv
<1>4. main' = [main EXCEPT ![c] = [main[c] EXCEPT !.ci = s]]
  BY <1>1
<1>5. [main[c] EXCEPT !.ci = s] \in CommitSet
  BY <1>3 DEF CommitSet
<1>6. Len(main') = Len(main)
  BY <1>3, <1>4, <1>5, ExceptSeq DEF Tip
<1>7. \A d \in 1..Tip : main'[d] = IF d = c THEN [main[c] EXCEPT !.ci = s] ELSE main[d]
  BY <1>3, <1>4
<1>8. [main[c] EXCEPT !.ci = s].tree = main[c].tree /\ [main[c] EXCEPT !.ci = s].pr = main[c].pr
  BY <1>3 DEF CommitSet
<1>9. MainKept
  BY <1>2, <1>6, <1>7, <1>8 DEF MainKept, Tip
<1> QED BY <1>2, <1>9 DEF Quiet, PrKept

LEMMA LandEffect ==
  ASSUME TypeInv, PrsInv, NEW p \in DOMAIN prs, Mergeable(p),
         main' = Append(main, Landed(p)), prs' = Closed(p), branches' = branches
  PROVE  LandsPr(p)
<1>1. prs[p].open /\ Branch(p).onto = Tip
  BY DEF Mergeable
<1>2. MainGrew(Branch(p).tree, p)
  <2>1. main \in Seq(CommitSet) /\ Landed(p) \in CommitSet
    BY PullRequest DEF TypeInv, Landed, CommitSet, Status
  <2>2. /\ Len(main') = Tip + 1 /\ main'[Tip + 1] = Landed(p)
        /\ \A c \in 1..Tip : main'[c] = main[c]
    BY <2>1, Appended DEF Tip
  <2>3. Landed(p).tree = Branch(p).tree /\ Landed(p).pr = p
    BY DEF Landed
  <2> QED BY <2>2, <2>3 DEF MainGrew
<1>3. /\ DOMAIN prs' = DOMAIN prs /\ \A q \in DOMAIN prs : q # p => prs'[q] = prs[q]
      /\ prs'[p] = [prs[p] EXCEPT !.open = FALSE, !.merge = Tip + 1]
  BY DEF Closed
<1>4. prs[p] \in PrSet
  BY Elements
<1>5. /\ prs'[p].name = prs[p].name /\ prs'[p].kind = prs[p].kind /\ prs'[p].event = prs[p].event
      /\ prs'[p].base = prs[p].base /\ prs'[p].generated = prs[p].generated
      /\ prs'[p].open = FALSE /\ prs'[p].merge = Tip + 1
  BY <1>3, <1>4 DEF PrSet
<1> QED BY <1>1, <1>2, <1>3, <1>5 DEF LandsPr

LEMMA AroundStep ==
  ASSUME ReleaseInv, Outside \/ Publish \/ PublisherFails
  PROVE  Around
<1>0. TypeInv /\ PrsInv /\ JobInv /\ (\A p \in DOMAIN prs : prs[p] \in PrSet) /\ DOMAIN prs = 1..Len(prs)
      /\ Len(prs) \in Nat
  BY Elements DEF ReleaseInv
<1>1. ASSUME UNCHANGED <<main, branches, prs>> PROVE Around
  BY <1>1, SameIsQuiet DEF Around
<1>3. ASSUME NEW e \in Events, HubReleases(e) PROVE Around
  BY <1>1, <1>3 DEF HubReleases
<1>4. CASE Push
  <2> DEFINE commit == [tree |-> Tree(Tip), pr |-> Nobody, ci |-> "success"]
  <2>1. main \in Seq(CommitSet) /\ commit \in CommitSet
    BY <1>0, Elements DEF TypeInv, CommitSet, Status, Nobody
  <2>2. main' = Append(main, commit) /\ branches' = branches /\ prs' = prs
    BY <1>4 DEF Push
  <2>3. commit.tree = Tree(Tip) /\ commit.pr = Nobody
    OBVIOUS
  <2> HIDE DEF commit
  <2>4. /\ Len(main') = Tip + 1 /\ main'[Tip + 1] = commit
        /\ \A c \in 1..Tip : main'[c] = main[c]
    BY <2>1, <2>2, Appended DEF Tip
  <2>5. Pushing
    BY <2>2, <2>3, <2>4 DEF Pushing, MainGrew
  <2> QED BY <2>5 DEF Around
<1>5. ASSUME NEW n \in DOMAIN branches, Edit(n) PROVE Around
  <2>1. branches[n] \in BranchSet
    BY <1>0, Elements
  <2>2. /\ DOMAIN branches' = DOMAIN branches
        /\ branches'[n].head = branches[n].head + 1
        /\ branches'[n].onto = branches[n].onto /\ branches'[n].tree = branches[n].tree
        /\ \A m \in DOMAIN branches : m # n => branches'[m] = branches[m]
    BY <1>5, <2>1 DEF Edit, BranchSet
  <2>3. ASSUME NEW p \in DOMAIN prs PROVE PrKept(p) /\ (prs[p].name # n => prs'[p] = prs[p])
    <3>1. /\ DOMAIN prs' = DOMAIN prs
          /\ \/ prs'[p] = prs[p]
             \/ /\ prs[p].name = n
                /\ prs'[p] = [prs[p] EXCEPT !.ci = [head |-> branches[n].head + 1, base |-> Tip,
                                                    status |-> "running"]]
      BY <1>5 DEF Edit
    <3>2. prs[p] \in PrSet
      BY <1>0
    <3> QED BY <3>1, <3>2 DEF PrKept, PrSet
  <2>4. Editing(n)
    BY <1>5, <2>2, <2>3 DEF Editing, Edit
  <2> QED BY <2>4 DEF Around
<1>6. ASSUME NEW p \in DOMAIN prs, MergedByHand(p) PROVE Around
  <2>1. LandsPr(p)
    BY <1>0, <1>6, LandEffect DEF MergedByHand
  <2> QED BY <2>1 DEF Around
<1>7. ASSUME NEW p \in DOMAIN prs, CandidateCI(p) \/ CandidateRerun(p) PROVE Around
  BY <1>0, <1>7, CIIsQuiet DEF Around
<1>8. ASSUME NEW c \in 1..Tip, MainCI(c) \/ MainRerun(c) PROVE Around
  BY <1>0, <1>8, MainCIIsQuiet DEF Around
<1>10. CASE Publish \/ PublisherFails
  BY <1>1, <1>10 DEF Publish, PublisherFails, Prepare, GithubRelease, CreatesTag, UploadAsset, Preflight,
                     Upload, VerifyPublication, MovesLatest, Refused, Goes
<1> QED BY <1>3, <1>4, <1>5, <1>6, <1>7, <1>8, <1>10 DEF Outside

LEMMA EffectsStep ==
  ASSUME ReleaseInv, [Next]_vars
  PROVE  Effects
<1>0. TypeInv /\ PrsInv /\ JobInv /\ (\A p \in DOMAIN prs : prs[p] \in PrSet) /\ DOMAIN prs = 1..Len(prs)
      /\ Len(prs) \in Nat
  BY Elements DEF ReleaseInv
<1>1. ASSUME UNCHANGED <<main, branches, prs>> PROVE Effects
  BY <1>1, SameIsQuiet DEF Effects
<1>2. CASE UNCHANGED vars
  BY <1>1, <1>2 DEF vars
<1>3. CASE Outside \/ Publish \/ PublisherFails
  BY <1>3, AroundStep DEF Around, Effects
<1>11. CASE Decides \/ Inspects \/ AdapterFails \/ (\E r \in runs : Publication(r)) \/ Reporting
  BY <1>1, <1>11 DEF Decides, Inspects, AdapterFails, Publication, Reporting, Reports, Retains, World
<1>12. CASE Pushes
  <2>1. CASE branches' = branches
    BY <1>1, <1>12, <2>1 DEF Pushes
  <2>2. CASE branches' # branches
    <3> DEFINE tree == Patched(job.name.kind, job.event, job.rollback, Tree(job.base))
               branch == [head |-> 1, onto |-> job.base, edited |-> FALSE, tree |-> tree]
    <3>1. /\ job.name \notin DOMAIN branches
          /\ branches' = [n \in DOMAIN branches \cup {job.name} |->
                            IF n = job.name THEN branch ELSE branches[n]]
      <4>1. \A n : n = job.name => [head |-> 1, onto |-> job.base, edited |-> FALSE,
                          tree |-> Patched(n.kind, job.event, job.rollback, Tree(job.base))] = branch
        OBVIOUS
      <4> HIDE DEF branch
      <4> QED BY <1>12, <2>2, <4>1 DEF Pushes
    <3>2. branch.onto = job.base /\ branch.tree = tree
      OBVIOUS
    <3> HIDE DEF branch
    <3>3. job.pc = "push" /\ main' = main /\ prs' = prs
      BY <1>12 DEF Pushes
    <3>4. Branching
      BY <3>1, <3>2, <3>3 DEF Branching
    <3> QED BY <3>4 DEF Effects
  <2> QED BY <2>1, <2>2
<1>13. CASE Opens
  <2> DEFINE pr == [name |-> job.name, kind |-> job.name.kind, event |-> job.event,
                    rollback |-> job.rollback, base |-> job.base, open |-> TRUE,
                    generated |-> branches[job.name].head, merge |-> 0,
                    ci |-> Testing(branches[job.name].head)]
  <2>1. prs' = Append(prs, pr)
    BY <1>13 DEF Opens
  <2>2. /\ pr.name = job.name /\ pr.kind = job.name.kind /\ pr.event = job.event
        /\ pr.base = job.base /\ pr.open = TRUE /\ pr.merge = 0
        /\ pr.generated = branches[job.name].head
    OBVIOUS
  <2> HIDE DEF pr
  <2>3. /\ DOMAIN prs' = DOMAIN prs \cup {Len(prs) + 1} /\ prs'[Len(prs) + 1] = pr
        /\ \A q \in DOMAIN prs : prs'[q] = prs[q]
    <3>1. prs \in Seq(PrSet \cup {pr}) /\ pr \in PrSet \cup {pr}
      <4>1. prs \in Seq(PrSet)
        BY <1>0 DEF TypeInv
      <4> QED BY <4>1, SeqMonotonic
    <3>2. /\ DOMAIN prs' = 1..(Len(prs) + 1) /\ prs'[Len(prs) + 1] = pr
          /\ \A q \in 1..Len(prs) : prs'[q] = prs[q]
      BY <2>1, <3>1, Appended
    <3> QED BY <1>0, <3>2
  <2>4. Opening
    BY <1>13, <2>2, <2>3 DEF Opening, Opens
  <2> QED BY <2>4 DEF Effects
<1>14. CASE Supersedes
  <2>1. CASE prs' = prs
    BY <1>1, <1>14, <2>1 DEF Supersedes
  <2>2. ASSUME NEW p \in DOMAIN prs, prs[p].open, prs' = [prs EXCEPT ![p].open = FALSE] PROVE Effects
    <3>1. prs[p] \in PrSet /\ main' = main /\ branches' = branches
      BY <1>0, <1>14 DEF Supersedes
    <3>2. /\ DOMAIN prs' = DOMAIN prs /\ prs'[p] = [prs[p] EXCEPT !.open = FALSE]
          /\ \A q \in DOMAIN prs : q # p => prs'[q] = prs[q]
      BY <2>2
    <3>3. Closing(p)
      BY <2>2, <3>1, <3>2 DEF Closing, PrSet
    <3> QED BY <3>3 DEF Effects
  <2>3. PICK p : prs' = prs \/ prs' = [prs EXCEPT ![p].open = FALSE]
    BY <1>14 DEF Supersedes
  <2>4. CASE p \notin DOMAIN prs \/ ~ prs[p].open
    <3>1. prs \in [1..Len(prs) -> PrSet]
      BY <1>0, LenProperties, ElementOfSeq DEF TypeInv
    <3>2. [prs EXCEPT ![p].open = FALSE] = prs
      <4>1. CASE p \notin DOMAIN prs
        BY <3>1, <4>1
      <4>2. CASE p \in DOMAIN prs
        <5>1. prs[p] \in PrSet /\ prs[p].open = FALSE
          BY <1>0, <2>4, <4>2 DEF PrSet
        <5>2. [prs[p] EXCEPT !.open = FALSE] = prs[p]
          BY <5>1 DEF PrSet
        <5> QED BY <3>1, <4>2, <5>2
      <4> QED BY <4>1, <4>2
    <3> QED BY <2>1, <2>3, <3>2
  <2> QED BY <2>1, <2>2, <2>3, <2>4
<1>15. CASE UpdatesBranch
  <2>1. CASE UNCHANGED <<branches, prs>>
    BY <1>1, <1>15, <2>1 DEF UpdatesBranch
  <2>2. CASE ~ UNCHANGED <<branches, prs>>
    <3>1. PICK p, n : p = job.pr /\ n = prs[p].name
      OBVIOUS
    <3>2. /\ job.pc = "update" /\ Branch(p).head = prs[p].generated /\ Tree(Tip) = Tree(prs[p].base)
          /\ branches' = [branches EXCEPT ![n].head = @ + 1, ![n].onto = Tip]
          /\ prs' = [prs EXCEPT ![p].ci = Testing(Branch(p).head + 1)]
          /\ main' = main
      BY <1>15, <2>2, <3>1 DEF UpdatesBranch
    <3>3. p \in DOMAIN prs /\ n \in DOMAIN branches /\ branches[n] \in BranchSet /\ prs[p] \in PrSet
      BY <1>0, <3>1, <3>2, Elements DEF JobInv, PrsInv, PrInv
    <3>4. /\ DOMAIN branches' = DOMAIN branches
          /\ branches'[n].head = branches[n].head + 1 /\ branches'[n].onto = Tip
          /\ branches'[n].tree = branches[n].tree
          /\ \A m \in DOMAIN branches : m # n => branches'[m] = branches[m]
      BY <3>2, <3>3 DEF BranchSet
    <3>5. /\ DOMAIN prs' = DOMAIN prs /\ prs'[p] = [prs[p] EXCEPT !.ci = Testing(Branch(p).head + 1)]
          /\ \A q \in DOMAIN prs : q # p => prs'[q] = prs[q]
      BY <3>2, <3>3
    <3>6. \A q \in DOMAIN prs : PrKept(q)
      BY <3>3, <3>5 DEF PrKept, PrSet
    <3>7. Updating
      BY <3>1, <3>2, <3>3, <3>4, <3>5, <3>6 DEF Updating
    <3> QED BY <3>7 DEF Effects
  <2> QED BY <2>1, <2>2
<1>16. CASE Records
  <2>1. PICK p : p = job.pr
    OBVIOUS
  <2>2. /\ job.pc = "record" /\ main' = main /\ branches' = branches
        /\ prs' = [prs EXCEPT ![p].generated = Branch(p).head, ![p].base = job.base]
    BY <1>16, <2>1 DEF Records
  <2>3. p \in DOMAIN prs /\ prs[p] \in PrSet
    BY <1>0, <2>1, <2>2 DEF JobInv
  <2>4. /\ DOMAIN prs' = DOMAIN prs
        /\ prs'[p] = [prs[p] EXCEPT !.generated = Branch(p).head, !.base = job.base]
        /\ \A q \in DOMAIN prs : q # p => prs'[q] = prs[q]
    BY <2>2, <2>3
  <2>5. Recording
    BY <2>1, <2>2, <2>3, <2>4 DEF Recording, PrSet
  <2> QED BY <2>5 DEF Effects
<1>17. CASE Merges
  <2>1. CASE UNCHANGED <<main, prs>>
    BY <1>1, <1>17, <2>1 DEF Merges
  <2>2. CASE ~ UNCHANGED <<main, prs>>
    <3>1. PICK p : p = job.pr
      OBVIOUS
    <3>2. /\ job.pc = "merge" /\ Mergeable(p) /\ main' = Append(main, Landed(p)) /\ prs' = Closed(p)
          /\ branches' = branches
      BY <1>17, <2>2, <3>1 DEF Merges
    <3>3. p \in DOMAIN prs
      BY <1>0, <3>1, <3>2 DEF JobInv
    <3>4. LandsPr(p)
      BY <1>0, <3>2, <3>3, LandEffect
    <3> QED BY <3>3, <3>4 DEF Effects
  <2> QED BY <2>1, <2>2
<1> QED BY <1>2, <1>3, <1>11, <1>12, <1>13, <1>14, <1>15, <1>16, <1>17 DEF Next, Reconcile

-----------------------------------------------------------------------------
(* What was landed, tested and uploaded stays.                              *)

MainGrows ==
  /\ Len(main') \in Nat /\ Tip <= Len(main')
  /\ \A c \in 1..Tip : /\ main'[c].tree = main[c].tree /\ main'[c].pr = main[c].pr
                       /\ main[c].ci = "success" => main'[c].ci = "success"

\* A landed pull request whose head is the recorded one is left alone.
LandedKept ==
  \A p \in DOMAIN prs : prs[p].merge # 0 /\ Branch(p).head = prs[p].generated =>
    /\ p \in DOMAIN prs' /\ prs'[p].merge = prs[p].merge /\ prs'[p].name = prs[p].name
    /\ prs'[p].generated = prs[p].generated /\ prs'[p].base = prs[p].base
    /\ branches'[prs[p].name].head = Branch(p).head
    /\ prs[p].ci.status = "success" => prs'[p].ci = prs[p].ci

StoreGrows ==
  /\ ready \subseteq ready'
  /\ \A v \in Packages :
       /\ releases[v].tag # 0 => releases'[v].tag = releases[v].tag
       /\ releases[v].receipt # 0 => releases'[v].receipt = releases[v].receipt
       /\ \A f \in Files :
            /\ pypi[v][f] # 0 => pypi'[v][f] = pypi[v][f]
            /\ releases[v].assets[f] # 0 => releases'[v].assets[f] = releases[v].assets[f]

LEMMA MainGrowsStep ==
  ASSUME ReleaseInv, Effects
  PROVE  MainGrows
<1>1. Tip \in Nat
  BY Elements DEF ReleaseInv
<1>2. CASE MainKept
  BY <1>1, <1>2 DEF MainKept, MainGrows
<1>3. ASSUME NEW tree, NEW pr, MainGrew(tree, pr) PROVE MainGrows
  BY <1>1, <1>3 DEF MainGrew, MainGrows
<1>4. main' = main => MainKept
  BY DEF MainKept, Tip
<1> QED BY <1>2, <1>3, <1>4 DEF Effects, Quiet, Pushing, Editing, LandsPr, Branching, Opening, Closing,
              Updating, Recording

LEMMA LandedKeptStep ==
  ASSUME ReleaseInv, Effects
  PROVE  LandedKept
<1> SUFFICES ASSUME NEW p \in DOMAIN prs, prs[p].merge # 0, Branch(p).head = prs[p].generated
             PROVE  /\ p \in DOMAIN prs' /\ prs'[p].merge = prs[p].merge /\ prs'[p].name = prs[p].name
                    /\ prs'[p].generated = prs[p].generated /\ prs'[p].base = prs[p].base
                    /\ branches'[prs[p].name].head = Branch(p).head
                    /\ prs[p].ci.status = "success" => prs'[p].ci = prs[p].ci
  BY DEF LandedKept
<1> DEFINE n == prs[p].name
           Goal == /\ p \in DOMAIN prs' /\ prs'[p].merge = prs[p].merge /\ prs'[p].name = prs[p].name
                   /\ prs'[p].generated = prs[p].generated /\ prs'[p].base = prs[p].base
                   /\ branches'[n].head = Branch(p).head
                   /\ prs[p].ci.status = "success" => prs'[p].ci = prs[p].ci
<1>1. /\ TypeInv /\ PrsInv /\ JobInv /\ n \in DOMAIN branches /\ Branch(p) = branches[n]
      /\ ~ prs[p].open /\ Branch(p).head \in Nat /\ prs[p].generated \in Nat
  BY PullRequest DEF ReleaseInv, PrsInv, PrInv
<1>2. ASSUME NEW q \in DOMAIN prs, prs[q].open PROVE q # p /\ prs[q].name # n
  BY <1>1, <1>2 DEF PrsInv, PrInv, Alive
<1>3. CASE prs'[p] = prs[p] /\ p \in DOMAIN prs' /\ branches'[n].head = branches[n].head
  BY <1>1, <1>3
<1>4. CASE Quiet
  BY <1>1, <1>4 DEF Quiet, PrKept
<1>5. CASE Pushing
  BY <1>3, <1>5 DEF Pushing
<1>6. ASSUME NEW m \in DOMAIN branches, Editing(m) PROVE Goal
  <2>1. m # n
    BY <1>2, <1>6 DEF Editing
  <2> QED BY <1>1, <1>3, <1>6, <2>1 DEF Editing
<1>7. ASSUME NEW q \in DOMAIN prs, LandsPr(q) \/ Closing(q) PROVE Goal
  <2>1. q # p
    BY <1>2, <1>7 DEF LandsPr, Closing
  <2> QED BY <1>3, <1>7, <2>1 DEF LandsPr, Closing
<1>8. CASE Branching
  BY <1>1, <1>3, <1>8 DEF Branching
<1>9. CASE Opening
  BY <1>3, <1>9 DEF Opening
<1>10. CASE Updating
  <2>1. prs[job.pr].open /\ job.pr \in DOMAIN prs
    BY <1>1, <1>10 DEF Updating, JobInv
  <2>2. job.pr # p /\ prs[job.pr].name # n
    BY <1>2, <2>1
  <2> QED BY <1>1, <1>3, <1>10, <2>2 DEF Updating
<1>11. CASE Recording
  <2>1. prs[job.pr].generated < Branch(job.pr).head
    BY <1>1, <1>11 DEF Recording, JobInv
  <2>2. job.pr # p
    BY <1>1, <2>1
  <2> QED BY <1>3, <1>11, <2>2 DEF Recording
<1> QED BY <1>4, <1>5, <1>6, <1>7, <1>8, <1>9, <1>10, <1>11 DEF Effects

\* A pull request that landed stays where it landed.
LEMMA MergedKept ==
  ASSUME ReleaseInv, Effects, NEW p, Merged(p)
  PROVE  /\ Merged(p)' /\ Landing(p)' = Landing(p)
         /\ Landing(p).package \in Packages
<1>1. /\ TypeInv /\ PrsInv /\ JobInv /\ p \in DOMAIN prs /\ prs[p].merge # 0
      /\ prs[p].merge \in 1..Tip /\ ~ prs[p].open
  BY DEF ReleaseInv, PrsInv, PrInv, Merged
<1>2. p \in DOMAIN prs' /\ prs'[p].merge = prs[p].merge
  <2>1. CASE Quiet \/ (\E n \in DOMAIN branches : Editing(n)) \/ Updating
    BY <1>1, <2>1 DEF Quiet, Editing, Updating, PrKept
  <2>2. CASE Pushing \/ Branching \/ Opening
    BY <1>1, <2>2 DEF Pushing, Branching, Opening
  <2>3. ASSUME NEW q \in DOMAIN prs, LandsPr(q) \/ Closing(q)
        PROVE  p \in DOMAIN prs' /\ prs'[p].merge = prs[p].merge
    <3>1. q # p
      BY <1>1, <2>3 DEF LandsPr, Closing
    <3> QED BY <1>1, <2>3, <3>1 DEF LandsPr, Closing
  <2>4. CASE Recording
    BY <1>1, <2>4 DEF Recording
  <2> QED BY <2>1, <2>2, <2>3, <2>4 DEF Effects
<1>3. MainGrows
  BY MainGrowsStep
<1>4. Landing(p)' = Landing(p)
  <2>1. PICK c : c = prs[p].merge /\ c \in 1..Tip
    BY <1>1
  <2>2. main'[c].tree = main[c].tree
    BY <1>3, <2>1 DEF MainGrows
  <2>3. Landing(p)' = main'[c].tree /\ Landing(p) = main[c].tree
    BY <1>2, <2>1 DEF Landing, Tree
  <2> QED BY <2>2, <2>3
<1>5. Landing(p).package \in Packages
  BY <1>1 DEF ReleaseInv, TreesInv, Sane, Landing
<1> QED BY <1>1, <1>2, <1>4, <1>5 DEF Merged

LEMMA StoreGrowsStep ==
  ASSUME ReleaseInv, [Next]_vars
  PROVE  StoreGrows
<1>0. /\ TypeInv /\ PublicInv /\ releases \in [Packages -> ReleaseSet]
      /\ pypi \in [Packages -> [Files -> Nat]]
      /\ \A v \in Packages : releases[v].assets \in [Files -> Nat]
  BY DEF ReleaseInv, TypeInv, ReleaseSet
<1>1. CASE ready \subseteq ready' /\ UNCHANGED <<pypi, releases>>
  BY <1>1 DEF StoreGrows
<1>2. ASSUME publisher.pc \in Tagged
      PROVE  /\ Version \in Packages /\ publisher.source # 0 /\ releases[Version].tag = publisher.source
             /\ \A f \in Files : pypi[Version][f] \in {0, publisher.source}
  <2>1. Public(publisher.source) /\ releases[Version].tag = publisher.source
    BY <1>0, <1>2 DEF PublicInv, Tagged, Resting
  <2>2. publisher.source \in 1..Tip /\ Version \in Packages
    BY <2>1 DEF Public, Version, ReleaseInv, TreesInv, Sane
  <2>3. publisher.source # 0
    BY <1>0, <2>2, Elements
  <2> QED BY <1>0, <2>1, <2>2, <2>3 DEF PublicInv
<1>3. CASE CreatesTag
  <2>1. PICK v, c : v = Version /\ c = IF releases[v].tag = 0 THEN publisher.source ELSE releases[v].tag
    OBVIOUS
  <2>2. /\ releases[v].tag \in {0, c} /\ ready' = ready /\ pypi' = pypi
        /\ releases' = [releases EXCEPT ![v].tag = c]
    BY <1>3, <2>1 DEF CreatesTag
  <2>3. ASSUME NEW u \in Packages
        PROVE  /\ releases'[u].receipt = releases[u].receipt /\ releases'[u].assets = releases[u].assets
               /\ releases[u].tag # 0 => releases'[u].tag = releases[u].tag
    <3>1. releases[u] \in ReleaseSet
      BY <1>0
    <3>2. releases'[u] = IF u = v THEN [releases[u] EXCEPT !.tag = c] ELSE releases[u]
      BY <1>0, <2>2
    <3> QED BY <2>2, <3>1, <3>2 DEF ReleaseSet
  <2> QED BY <2>2, <2>3 DEF StoreGrows
<1>4. CASE UploadAsset
  <2>1. PICK v : v = Version
    OBVIOUS
  <2>2. CASE releases' = releases
    BY <1>1, <1>4, <2>2 DEF UploadAsset
  <2>3. CASE releases' # releases
    <3>1. PICK f \in Files : /\ releases[v].assets[f] = 0 /\ ready' = ready /\ pypi' = pypi
                             /\ releases' = [releases EXCEPT ![v].assets[f] = publisher.source]
      <4> DEFINE absent == {f \in Files : releases[v].assets[f] = 0}
      <4>1. /\ absent # {} /\ ready' = ready /\ pypi' = pypi
            /\ releases' = [releases EXCEPT ![v].assets[First(absent)] = publisher.source]
        BY <1>4, <2>1, <2>3 DEF UploadAsset
      <4>2. First(absent) \in absent
        BY <4>1 DEF First, Files
      <4> QED BY <4>1, <4>2
    <3>2. ASSUME NEW u \in Packages
          PROVE  /\ releases'[u].receipt = releases[u].receipt /\ releases'[u].tag = releases[u].tag
                 /\ \A g \in Files : releases[u].assets[g] # 0 => releases'[u].assets[g] = releases[u].assets[g]
      <4>1. releases[u] \in ReleaseSet /\ releases[u].assets \in [Files -> Nat]
        BY <1>0
      <4>2. CASE u # v
        <5>1. releases'[u] = releases[u]
          BY <1>0, <3>1, <4>2
        <5> QED BY <5>1
      <4>3. CASE u = v
        <5>1. releases'[u] = [releases[u] EXCEPT !.assets = [releases[u].assets EXCEPT ![f] = publisher.source]]
          BY <1>0, <3>1, <4>3
        <5>2. /\ releases'[u].receipt = releases[u].receipt /\ releases'[u].tag = releases[u].tag
              /\ releases'[u].assets = [releases[u].assets EXCEPT ![f] = publisher.source]
          BY <4>1, <5>1 DEF ReleaseSet
        <5>3. \A g \in Files : g # f => releases'[u].assets[g] = releases[u].assets[g]
          BY <4>1, <5>2
        <5> QED BY <3>1, <4>3, <5>2, <5>3
      <4> QED BY <4>2, <4>3
    <3> QED BY <3>1, <3>2 DEF StoreGrows
  <2> QED BY <2>2, <2>3
<1>5. CASE Upload /\ pypi' # pypi
  <2>1. PICK v, f : /\ f \in Files /\ v = Version /\ pypi' = [pypi EXCEPT ![v][f] = publisher.source]
                    /\ ready' = ready /\ releases' = releases
    <3>1. \A files : First(files) \in Files
      BY DEF First, Files
    <3> QED BY <1>5, <3>1 DEF Upload
  <2>2. \A g \in Files : pypi[v][g] \in {0, publisher.source}
    BY <1>2, <1>5, <2>1 DEF Upload, Tagged
  <2>3. ASSUME NEW u \in Packages, NEW g \in Files, pypi[u][g] # 0 PROVE pypi'[u][g] = pypi[u][g]
    <3>1. pypi'[u] = IF u = v THEN [pypi[u] EXCEPT ![f] = publisher.source] ELSE pypi[u]
      BY <1>0, <2>1
    <3>2. pypi[u] \in [Files -> Nat]
      BY <1>0
    <3>3. CASE u = v /\ g = f
      <4>1. pypi'[u][g] = publisher.source
        BY <3>1, <3>2, <3>3
      <4> QED BY <2>2, <2>3, <3>3, <4>1
    <3>4. CASE ~ (u = v /\ g = f)
      BY <3>1, <3>2, <3>4
    <3> QED BY <3>3, <3>4
  <2> QED BY <2>1, <2>3 DEF StoreGrows
<1>6. CASE Retains
  <2>1. PICK v : v = Landing(job.pr).package
    OBVIOUS
  <2>2. /\ ready' = ready /\ pypi' = pypi
        /\ \/ releases' = releases
           \/ /\ v \notin Packages \/ releases[v].receipt = 0
              /\ releases' = [releases EXCEPT ![v].receipt = job.event]
    BY <1>6, <2>1 DEF Retains, StoredReceipt
  <2>3. CASE releases' = releases
    BY <1>1, <2>2, <2>3
  <2>4. CASE releases' # releases
    <3>1. ASSUME NEW u \in Packages
          PROVE  /\ releases'[u].tag = releases[u].tag /\ releases'[u].assets = releases[u].assets
                 /\ releases[u].receipt # 0 => releases'[u].receipt = releases[u].receipt
      <4>1. releases[u] \in ReleaseSet
        BY <1>0
      <4>2. releases'[u] = IF u = v THEN [releases[u] EXCEPT !.receipt = job.event] ELSE releases[u]
        BY <1>0, <2>2, <2>4
      <4> QED BY <2>2, <2>4, <4>1, <4>2 DEF ReleaseSet
    <3> QED BY <2>2, <3>1 DEF StoreGrows
  <2> QED BY <2>3, <2>4
<1>7. CASE Outside \/ UNCHANGED vars
  BY <1>1, <1>7 DEF Outside, vars, HubReleases, Push, Edit, MergedByHand, CandidateCI, CandidateRerun,
                    MainCI, MainRerun
<1>8. CASE \/ (\E c \in 1..Tip : Prepare(c)) \/ GithubRelease \/ Preflight \/ VerifyPublication
           \/ MovesLatest \/ Refused \/ PublisherFails \/ (Upload /\ pypi' = pypi)
  BY <1>1, <1>8 DEF Prepare, GithubRelease, Preflight, VerifyPublication, MovesLatest, Refused,
                    PublisherFails, Upload, Goes
<1>9. CASE Decides \/ Reconcile \/ AdapterFails \/ (\E r \in runs : Publication(r)) \/ Reports
  BY <1>1, <1>9 DEF Decides, Reconcile, AdapterFails, Publication, Reports, World, Pushes, Opens, Supersedes,
                    Inspects, UpdatesBranch, Records, Merges
<1> QED BY <1>3, <1>4, <1>5, <1>6, <1>7, <1>8, <1>9 DEF Next, Publish, Reporting

-----------------------------------------------------------------------------
(* The trees.                                                               *)

LEMMA PublishedKept ==
  ASSUME StoreGrows, NEW v \in Packages, Published(v) = Files
  PROVE  Published(v)' = Files /\ \A f \in Files : pypi'[v][f] = pypi[v][f]
<1>1. \A f \in Files : pypi[v][f] # 0
  BY DEF Published
<1>2. \A f \in Files : pypi'[v][f] = pypi[v][f]
  BY <1>1 DEF StoreGrows
<1> QED BY <1>1, <1>2 DEF Published

LEMMA SaneKept ==
  ASSUME StoreGrows, NEW tree, Sane(tree)
  PROVE  Sane(tree)'
<1>1. Known \subseteq Known' /\ ready \subseteq ready'
  BY DEF StoreGrows, Known
<1> QED BY <1>1 DEF Sane

LEMMA StepKept ==
  ASSUME StoreGrows, NEW old, NEW new, Step(old, new)
  PROVE  Step(old, new)'
<1>1. Sane(new)'
  BY SaneKept DEF Step
<1>2. ASSUME Receipted(new.rollback, new.event) PROVE Receipted(new.rollback, new.event)'
  <2>1. PICK v : v = new.rollback
    OBVIOUS
  <2>2. v \in Packages /\ new.event # 0 /\ releases[v].receipt = new.event /\ Published(v) = Files
    BY <1>2, <2>1 DEF Receipted
  <2>3. releases'[v].receipt = new.event /\ Published(v)' = Files
    BY <2>2, PublishedKept DEF StoreGrows
  <2>4. Published(new.rollback)' = Published(v)'
    BY <2>1
  <2> QED BY <2>1, <2>2, <2>3, <2>4 DEF Receipted
<1> QED BY <1>1, <1>2 DEF Step

LEMMA ProposalKept ==
  ASSUME ReleaseInv, StoreGrows, MainGrows, NEW name, NEW commit \in 1..Tip, NEW tree,
         Proposal(name, commit, tree)
  PROVE  Proposal(name, commit, tree)'
<1>1. \A d \in 1..Tip : Tree(d)' = Tree(d)
  BY DEF MainGrows, Tree
<1>2. Step(Tree(commit), tree)'
  <2>1. PICK old : old = Tree(commit)
    OBVIOUS
  <2>2. Step(old, tree)'
    BY <2>1, StepKept DEF Proposal
  <2>3. Tree(commit)' = old
    BY <1>1, <2>1
  <2> QED BY <2>2, <2>3 DEF Step
<1>3. ASSUME Unseen(name.event, commit) PROVE Unseen(name.event, commit)'
  <2>1. \A d \in 1..commit : d \in 1..Tip
    BY Elements DEF ReleaseInv
  <2> QED BY <1>1, <1>3, <2>1 DEF Unseen
<1>4. Tree(commit)' = Tree(commit)
  BY <1>1
<1> QED BY <1>2, <1>3, <1>4 DEF Proposal

\* Between two equal trees of main there is no other.
LEMMA Between ==
  ASSUME TypeInv, TreesInv, NEW a \in 1..Tip, NEW b \in 1..Tip, NEW c \in 1..Tip,
         a <= b, b <= c, Tree(a) = Tree(c)
  PROVE  Tree(b) = Tree(a)
<1>1. Tip \in Nat /\ Tree(a).package \in Int /\ Tree(b).package \in Int /\ Tree(c).package \in Int
  BY Elements DEF TreeSet
<1>2. a \in 1..b /\ b \in 1..c
  BY <1>1
<1>3. Tree(a) = Tree(b) \/ Tree(a).package < Tree(b).package
  BY <1>2 DEF TreesInv
<1>4. Tree(b) = Tree(c) \/ Tree(b).package < Tree(c).package
  BY <1>2 DEF TreesInv
<1> QED BY <1>1, <1>3, <1>4

LEMMA SameTrees ==
  ASSUME ReleaseInv, StoreGrows, Len(main') = Tip, \A c \in 1..Tip : main'[c].tree = main[c].tree
  PROVE  TreesInv'
<1>1. Tip' = Tip /\ \A c \in 1..Tip : Tree(c)' = Tree(c)
  BY DEF Tip, Tree
<1>0. TreesInv /\ TypeInv /\ Tip \in Nat /\ Tip \in 1..Tip
  BY Elements DEF ReleaseInv
<1>2. \A c \in 1..Tip : Sane(Tree(c))'
  <2> SUFFICES ASSUME NEW c \in 1..Tip PROVE Sane(Tree(c))'
    OBVIOUS
  <2>1. PICK tree : tree = Tree(c)
    OBVIOUS
  <2>2. Sane(tree)'
    BY <1>0, <2>1, SaneKept DEF TreesInv
  <2>3. Tree(c)' = tree
    BY <1>1, <2>1
  <2> QED BY <2>2, <2>3 DEF Sane
<1>3. \A c \in 2..Tip : Tree(c)' = Tree(c - 1)' \/ Step(Tree(c - 1), Tree(c))'
  <2> SUFFICES ASSUME NEW c \in 2..Tip, Tree(c)' # Tree(c - 1)' PROVE Step(Tree(c - 1), Tree(c))'
    OBVIOUS
  <2>1. PICK old, new : old = Tree(c - 1) /\ new = Tree(c)
    OBVIOUS
  <2>2. c \in 1..Tip /\ c - 1 \in 1..Tip
    BY <1>0
  <2>3. Tree(c)' = new /\ Tree(c - 1)' = old
    BY <1>1, <2>1, <2>2
  <2>4. Step(old, new)
    BY <1>0, <2>1, <2>3 DEF TreesInv
  <2>5. Step(old, new)'
    BY <2>4, StepKept
  <2> QED BY <2>3, <2>5 DEF Step
<1>4. \A d \in 1..Tip : \A c \in 1..d : Tree(c)' = Tree(d)' \/ Tree(c)'.package < Tree(d)'.package
  <2>1. \A d \in 1..Tip : \A c \in 1..d : c \in 1..Tip
    BY <1>0
  <2> QED BY <1>0, <1>1, <2>1 DEF TreesInv
<1>5. \A c \in 1..Tip : \/ Tree(c)'.event <= Tree(Tip)'.event
                        \/ \E x \in Tree(Tip)'.rejected : Tree(c)'.event <= x
  BY <1>0, <1>1 DEF TreesInv
<1>6. Tree(Tip)' = main'[Tip].tree /\ main'[Tip'].tree = main'[Tip].tree
  BY <1>1 DEF Tree
<1> QED BY <1>1, <1>2, <1>3, <1>4, <1>5, <1>6 DEF TreesInv, Tree

LEMMA GrownTrees ==
  ASSUME ReleaseInv, StoreGrows, NEW tree \in TreeSet, NEW pr, MainGrew(tree, pr),
         tree = Tree(Tip) \/ Step(Tree(Tip), tree)
  PROVE  TreesInv'
<1>0. /\ TreesInv /\ TypeInv /\ Tip \in Nat /\ Tip \in 1..Tip /\ Tip' = Tip + 1 /\ Tip + 1 \in Nat
      /\ 1..(Tip + 1) = (1..Tip) \cup {Tip + 1}
  BY Elements DEF ReleaseInv, MainGrew, Tip
<1>n. PICK n : n = Tip + 1 /\ n \in Nat
  BY <1>0
<1>1. Tree(n)' = tree /\ \A c \in 1..Tip : Tree(c)' = Tree(c)
  BY <1>n DEF MainGrew, Tree
<1>t. \A c \in 1..Tip : Tree(c) \in TreeSet /\ Tree(c).package \in Int /\ Tree(c).event \in Nat
  BY <1>0, <1>n, Elements DEF TreeSet
<1>u. tree.package \in Int /\ tree.event \in Nat /\ tree.rejected \in SUBSET Nat
  BY DEF TreeSet
<1> DEFINE old == Tree(Tip)
<1>s. \/ tree = old
      \/ /\ tree.package = old.package + 1 /\ old.rejected \subseteq tree.rejected
         /\ \/ tree.event >= old.event
            \/ tree.event < old.event /\ old.event \in tree.rejected
  BY <1>0, <1>n, <1>t, <1>u DEF Step
<1>2. \A c \in 1..n : Sane(Tree(c))'
  <2>1. ASSUME NEW c \in 1..Tip PROVE Sane(Tree(c))'
    <3>1. PICK t : t = Tree(c)
      OBVIOUS
    <3>2. Sane(t)'
      BY <1>0, <1>n, <3>1, SaneKept DEF TreesInv
    <3>3. Tree(c)' = t
      BY <1>1, <1>n, <3>1
    <3> QED BY <3>2, <3>3 DEF Sane
  <2>2. Sane(Tree(n))'
    <3>1. Sane(tree)
      BY <1>0 DEF TreesInv, Step
    <3>2. Sane(tree)'
      BY <3>1, SaneKept
    <3> QED BY <1>1, <1>n, <3>2 DEF Sane
  <2> QED BY <1>0, <1>n, <2>1, <2>2
<1>3. \A c \in 2..n : Tree(c)' = Tree(c - 1)' \/ Step(Tree(c - 1), Tree(c))'
  <2> SUFFICES ASSUME NEW c \in 2..n, Tree(c)' # Tree(c - 1)'
               PROVE  Step(Tree(c - 1), Tree(c))'
    OBVIOUS
  <2>1. PICK a, b : a = Tree(c - 1)' /\ b = Tree(c)'
    OBVIOUS
  <2>2. Step(a, b)
    <3>1. CASE c \in 2..Tip
      <4>1. c \in 1..Tip /\ c - 1 \in 1..Tip
        BY <1>0, <1>n, <3>1
      <4> QED BY <1>0, <1>n, <1>1, <2>1, <3>1, <4>1 DEF TreesInv
    <3>2. CASE c \notin 2..Tip
      <4>1. c = n /\ c - 1 = Tip
        BY <1>0, <1>n, <3>2
      <4> QED BY <1>0, <1>n, <1>1, <2>1, <4>1
    <3> QED BY <3>1, <3>2
  <2>3. Step(a, b)'
    BY <2>2, StepKept
  <2> QED BY <2>1, <2>3 DEF Step
<1>4. \A d \in 1..n : \A c \in 1..d : Tree(c)' = Tree(d)' \/ Tree(c)'.package < Tree(d)'.package
  <2> SUFFICES ASSUME NEW d \in 1..n, NEW c \in 1..d
               PROVE  Tree(c)' = Tree(d)' \/ Tree(c)'.package < Tree(d)'.package
    OBVIOUS
  <2>1. CASE d \in 1..Tip
    <3>1. c \in 1..Tip
      BY <1>0, <1>n, <2>1
    <3> QED BY <1>0, <1>n, <1>1, <2>1, <3>1 DEF TreesInv
  <2>2. CASE d = n /\ c = n
    BY <2>2
  <2>3. CASE d = n /\ c \in 1..Tip
    <3>1. Tree(c) = old \/ Tree(c).package < old.package
      BY <1>0, <1>n, <2>3 DEF TreesInv
    <3>2. Tree(c)' = Tree(c) /\ Tree(d)' = tree
      BY <1>1, <1>n, <2>3
    <3>3. Tree(c) = tree \/ Tree(c).package < tree.package
      <4>1. Tree(c).package \in Int /\ old.package \in Int
        BY <1>0, <1>n, <1>t, <2>3
      <4> HIDE DEF old
      <4> QED BY <1>s, <1>u, <3>1, <4>1
    <3> QED BY <3>2, <3>3
  <2> QED BY <1>0, <1>n, <2>1, <2>2, <2>3
<1>5. \A c \in 1..n : \/ Tree(c)'.event <= tree.event
                              \/ \E x \in tree.rejected : Tree(c)'.event <= x
  <2> SUFFICES ASSUME NEW c \in 1..n
               PROVE  Tree(c)'.event <= tree.event \/ \E x \in tree.rejected : Tree(c)'.event <= x
    OBVIOUS
  <2>1. CASE c = n
    BY <1>1, <1>n, <1>u, <2>1
  <2>2. CASE c \in 1..Tip
    <3>1. Tree(c).event <= old.event \/ \E x \in old.rejected : Tree(c).event <= x
      BY <1>0, <1>n, <2>2 DEF TreesInv
    <3>2. Tree(c)' = Tree(c) /\ Tree(c).event \in Nat /\ old.event \in Nat
      BY <1>0, <1>n, <1>1, <1>t, <2>2
    <3> HIDE DEF old
    <3>3. CASE tree = old
      BY <3>1, <3>2, <3>3
    <3>4. CASE tree # old /\ \E x \in old.rejected : Tree(c).event <= x
      BY <1>s, <3>2, <3>4
    <3>5. CASE tree # old /\ Tree(c).event <= old.event
      <4>1. Tree(c).event <= tree.event \/ old.event \in tree.rejected
        BY <1>s, <1>u, <3>2, <3>5
      <4> QED BY <3>2, <3>5, <4>1
    <3> QED BY <3>1, <3>3, <3>4, <3>5
  <2> QED BY <1>0, <1>n, <2>1, <2>2
<1>6. Tip' = n /\ main'[n].tree = tree
  BY <1>0, <1>n, <1>1 DEF Tree
<1> QED BY <1>0, <1>n, <1>2, <1>3, <1>4, <1>5, <1>6 DEF TreesInv, Tree

LEMMA TreesStep ==
  ASSUME ReleaseInv, Effects, StoreGrows
  PROVE  TreesInv'
<1>0. TypeInv /\ BranchInv /\ PrsInv /\ Tree(Tip) \in TreeSet
  BY Elements DEF ReleaseInv
<1>1. CASE Pushing
  BY <1>0, <1>1, GrownTrees DEF Pushing
<1>2. ASSUME NEW p \in DOMAIN prs, LandsPr(p) PROVE TreesInv'
  <2>1. PICK n : n = prs[p].name /\ n \in DOMAIN branches /\ Branch(p) = branches[n] /\ Branch(p).tree \in TreeSet
    BY <1>0, PullRequest
  <2>2. Step(Tree(branches[n].onto), branches[n].tree) /\ branches[n].onto = Tip
    BY <1>0, <1>2, <2>1 DEF BranchInv, Proposal, LandsPr
  <2>3. PICK tree : tree = Branch(p).tree
    OBVIOUS
  <2>4. tree \in TreeSet /\ Step(Tree(Tip), tree) /\ MainGrew(tree, p)
    BY <1>2, <2>1, <2>2, <2>3 DEF LandsPr
  <2> QED BY <2>4, GrownTrees
<1>3. CASE MainKept
  BY <1>3, SameTrees DEF MainKept
<1>4. main' = main => MainKept
  BY DEF MainKept, Tip
<1> QED BY <1>1, <1>2, <1>3, <1>4 DEF Effects, Quiet, Editing, Branching, Opening, Closing, Updating, Recording

LEMMA OnceStep ==
  ASSUME ReleaseInv, Effects
  PROVE  OnceInv'
<1>0. TypeInv /\ OnceInv /\ BranchInv /\ PrsInv /\ Tip \in Nat /\ Tip \in 1..Tip
  BY Elements DEF ReleaseInv
<1>1. ASSUME NEW c \in 2..Tip, \A d \in 1..Tip : main'[d].tree = Tree(d)
      PROVE  \/ main'[c].tree.event = main'[c - 1].tree.event \/ main'[c].tree.rollback # NoVersion
             \/ \A d \in 1..(c - 1) : main'[d].tree.event # main'[c].tree.event
  <2>1. c \in 1..Tip /\ c - 1 \in 1..Tip /\ 1..(c - 1) \subseteq 1..Tip
    BY <1>0
  <2> QED BY <1>0, <1>1, <2>1 DEF OnceInv, Unseen
<1>2. CASE MainKept
  <2>1. Len(main') = Tip /\ \A d \in 1..Tip : main'[d].tree = Tree(d)
    BY <1>2 DEF MainKept, Tree
  <2> QED BY <1>1, <2>1 DEF OnceInv, Unseen, Tip, Tree
<1>3. ASSUME NEW tree, NEW pr, MainGrew(tree, pr),
             \/ tree.event = Tree(Tip).event \/ tree.rollback # NoVersion \/ Unseen(tree.event, Tip)
      PROVE  OnceInv'
  <2>1. PICK n : n = Tip + 1
    OBVIOUS
  <2>2. Len(main') = n /\ main'[n].tree = tree /\ \A d \in 1..Tip : main'[d].tree = Tree(d)
    BY <1>3, <2>1 DEF MainGrew, Tree
  <2>3. n - 1 = Tip /\ 2..n \subseteq (2..Tip) \cup {n} /\ n \in Nat
    BY <1>0, <2>1
  <2>4. \/ main'[n].tree.event = main'[n - 1].tree.event \/ main'[n].tree.rollback # NoVersion
        \/ \A d \in 1..(n - 1) : main'[d].tree.event # main'[n].tree.event
    BY <1>0, <1>3, <2>2, <2>3 DEF Unseen
  <2>5. \A c \in 2..n : \/ main'[c].tree.event = main'[c - 1].tree.event \/ main'[c].tree.rollback # NoVersion
                        \/ \A d \in 1..(c - 1) : main'[d].tree.event # main'[c].tree.event
    BY <1>1, <2>2, <2>3, <2>4
  <2> QED BY <2>2, <2>5 DEF OnceInv, Unseen, Tip, Tree
<1>4. CASE Pushing
  BY <1>3, <1>4 DEF Pushing
<1>5. ASSUME NEW p \in DOMAIN prs, LandsPr(p) PROVE OnceInv'
  <2>1. PICK n, tree, tip : n = prs[p].name /\ tree = Branch(p).tree /\ tip = Tip
    OBVIOUS
  <2>2. n \in DOMAIN branches /\ branches[n].onto = tip /\ branches[n].tree = tree /\ MainGrew(tree, p)
    BY <1>0, <1>5, <2>1, PullRequest DEF LandsPr
  <2>3. Proposal(n, tip, tree)
    BY <1>0, <2>2 DEF BranchInv
  <2>4. \/ tree.event = Tree(Tip).event \/ tree.rollback # NoVersion \/ Unseen(tree.event, Tip)
    BY <2>1, <2>3 DEF Proposal
  <2> QED BY <1>3, <2>2, <2>4
<1>6. main' = main => MainKept
  BY DEF MainKept, Tip
<1> QED BY <1>2, <1>4, <1>5, <1>6 DEF Effects, Quiet, Editing, Branching, Opening, Closing, Updating, Recording

-----------------------------------------------------------------------------
(* The branches.                                                            *)

\* A branch that stays on a commit, or is put on one with the same tree.
LEMMA BranchKept ==
  ASSUME ReleaseInv, StoreGrows, MainGrows, NEW n \in DOMAIN branches, n \in DOMAIN branches',
         branches'[n].onto = branches[n].onto, branches'[n].tree = branches[n].tree
  PROVE  branches'[n].onto \in 1..Len(main') /\ Proposal(n, branches[n].onto, branches[n].tree)'
<1>1. PICK o, t : o = branches[n].onto /\ t = branches[n].tree
  OBVIOUS
<1>2. o \in 1..Tip /\ Proposal(n, o, t)
  BY <1>1 DEF ReleaseInv, BranchInv
<1>3. Proposal(n, o, t)'
  BY <1>2, ProposalKept
<1>4. 1..Tip \subseteq 1..Len(main')
  BY Elements DEF ReleaseInv, MainGrows
<1>5. branches'[n].onto = o /\ branches'[n].tree = t
  BY <1>1
<1> QED BY <1>2, <1>3, <1>4, <1>5 DEF Proposal

LEMMA BranchStep ==
  ASSUME ReleaseInv, Effects, StoreGrows, MainGrows
  PROVE  BranchInv'
<1>0. TypeInv /\ TreesInv /\ BranchInv /\ PrsInv /\ JobInv
  BY DEF ReleaseInv
<1> DEFINE Good(n) == branches'[n].onto \in 1..Len(main') /\ Proposal(n, branches[n].onto, branches[n].tree)'
<1>1. ASSUME DOMAIN branches' = DOMAIN branches,
             \A n \in DOMAIN branches : branches'[n].onto = branches[n].onto /\ branches'[n].tree = branches[n].tree
      PROVE  BranchInv'
  <2>1. \A n \in DOMAIN branches' : Good(n)
    BY <1>1, BranchKept
  <2> QED BY <2>1 DEF BranchInv, Tip
<1>2. CASE Branching
  <2>1. PICK n, o, t : n = job.name /\ o = job.base /\ t = Patched(job.name.kind, job.event, job.rollback, Tree(job.base))
    OBVIOUS
  <2>2. o \in 1..Tip /\ Proposal(n, o, t)
    BY <1>0, <1>2, <2>1 DEF JobInv, Branching
  <2>3. Proposal(n, o, t)'
    BY <2>2, ProposalKept
  <2>4. 1..Tip \subseteq 1..Len(main')
    BY Elements DEF ReleaseInv, MainGrows
  <2>5. branches'[n].onto = o /\ branches'[n].tree = t
    BY <1>2, <2>1 DEF Branching
  <2>6. Good(n)
    BY <2>2, <2>3, <2>4, <2>5 DEF Proposal
  <2>7. ASSUME NEW m \in DOMAIN branches PROVE Good(m)
    <3>1. m \in DOMAIN branches' /\ branches'[m] = branches[m]
      BY <1>2 DEF Branching
    <3> QED BY <3>1, BranchKept
  <2>8. \A m \in DOMAIN branches' : m = n \/ m \in DOMAIN branches
    BY <1>2, <2>1 DEF Branching
  <2>9. \A m \in DOMAIN branches' : Good(m)
    BY <2>6, <2>7, <2>8
  <2> QED BY <2>9 DEF BranchInv, Tip
<1>3. CASE Updating
  <2>1. PICK p, n : p = job.pr /\ n = prs[job.pr].name
    OBVIOUS
  <2>2. /\ job.pc = "update" /\ p \in DOMAIN prs /\ n \in DOMAIN branches /\ prs[p].open
        /\ Tree(Tip) = Tree(prs[p].base) /\ Tree(prs[p].base) = Tree(branches[n].onto)
        /\ branches[n].onto \in 1..Tip
    BY <1>0, <1>3, <2>1 DEF Updating, JobInv, PrsInv, PrInv, Branch, BranchInv
  <2>3. PICK o, t, tip : o = branches[n].onto /\ t = branches[n].tree /\ tip = Tip
    OBVIOUS
  <2>4. Proposal(n, o, t) /\ o \in 1..tip /\ Tree(tip) = Tree(o) /\ tip \in Nat /\ tip \in 1..Tip /\ tip >= 1
    BY <1>0, <2>2, <2>3, Elements DEF BranchInv
  <2>5. Proposal(n, tip, t)
    <3>1. ASSUME Unseen(n.event, o), NEW d \in 1..tip PROVE Tree(d).event # n.event
      <4>1. CASE d <= o
        <5>1. d \in 1..o
          BY <2>4, <4>1
        <5> QED BY <3>1, <5>1 DEF Unseen
      <4>2. CASE ~ (d <= o)
        <5>1. o \in 1..Tip /\ d \in 1..Tip /\ o <= d /\ d <= tip /\ Tree(o) = Tree(tip)
          BY <2>3, <2>4, <4>2
        <5>2. Tree(d) = Tree(o)
          BY <1>0, <2>4, <5>1, Between
        <5>3. o \in 1..o
          BY <2>4
        <5> QED BY <3>1, <5>2, <5>3 DEF Unseen
      <4> QED BY <4>1, <4>2
    <3>2. Unseen(n.event, o) => Unseen(n.event, tip)
      BY <3>1 DEF Unseen
    <3> QED BY <2>4, <3>2 DEF Proposal
  <2>6. Proposal(n, tip, t)'
    BY <2>4, <2>5, ProposalKept
  <2>7. 1..Tip \subseteq 1..Len(main')
    BY Elements DEF ReleaseInv, MainGrows
  <2>8. branches'[n].onto = tip /\ branches'[n].tree = t
    BY <1>3, <2>1, <2>3 DEF Updating
  <2>9. Good(n)
    BY <2>4, <2>6, <2>7, <2>8 DEF Proposal
  <2>10. ASSUME NEW m \in DOMAIN branches, m # n PROVE Good(m)
    <3>1. m \in DOMAIN branches' /\ branches'[m] = branches[m]
      BY <1>3, <2>1, <2>10 DEF Updating
    <3> QED BY <3>1, BranchKept
  <2>11. DOMAIN branches' = DOMAIN branches
    BY <1>3 DEF Updating
  <2>12. \A m \in DOMAIN branches' : Good(m)
    BY <2>9, <2>10, <2>11
  <2> QED BY <2>12 DEF BranchInv, Tip
<1>4. CASE branches' = branches
  BY <1>1, <1>4
<1>5. ASSUME NEW n \in DOMAIN branches, Editing(n) PROVE BranchInv'
  <2>1. \A m \in DOMAIN branches : branches'[m].onto = branches[m].onto /\ branches'[m].tree = branches[m].tree
    BY <1>5 DEF Editing
  <2> QED BY <1>1, <1>5, <2>1 DEF Editing
<1> QED BY <1>2, <1>3, <1>4, <1>5 DEF Effects, Quiet, Pushing, LandsPr, Opening, Closing, Recording

-----------------------------------------------------------------------------
(* The pull requests.                                                       *)

LEMMA PrKeeps ==
  ASSUME ReleaseInv, MainGrows, NEW p \in DOMAIN prs, PrKept(p), prs[p].name \in DOMAIN branches',
         branches'[prs[p].name].head \in Nat, branches'[prs[p].name].head >= Branch(p).head,
         branches'[prs[p].name].tree = Branch(p).tree,
         prs[p].open => main'[branches'[prs[p].name].onto].tree = Tree(Branch(p).onto)
  PROVE  PrInv(p)'
<1>0. TypeInv /\ PrsInv /\ PrInv(p) /\ Tip \in Nat /\ Len(main') \in Nat /\ Tip <= Len(main')
  BY Elements DEF ReleaseInv, PrsInv, MainGrows
<1>1. /\ prs[p].merge \in Nat /\ prs[p].generated \in Nat /\ Branch(p).head \in Nat /\ prs[p].base \in Nat
      /\ Branch(p) = branches[prs[p].name] /\ prs[p].name.base \in Nat
  <2>1. prs[p].name \in NameSet
    BY <1>0, Elements DEF PrSet
  <2> QED BY <1>0, <2>1, PullRequest DEF NameSet
<1>2. PICK n : n = prs[p].name
  OBVIOUS
<1>3. /\ prs'[p].name = n /\ prs'[p].event = n.event /\ prs'[p].kind = n.kind /\ n \in DOMAIN branches'
      /\ prs'[p].base = prs[p].base /\ prs'[p].open = prs[p].open /\ prs'[p].merge = prs[p].merge
      /\ prs'[p].generated = prs[p].generated
  BY <1>0, <1>2 DEF PrKept, PrInv
<1>4. NameInv(n)'
  BY <1>0, <1>1, <1>2 DEF NameInv, PrInv, Tip
<1>5. /\ prs[p].base \in 1..Len(main') /\ main'[prs[p].base].tree = Tree(prs[p].base)
      /\ prs[p].generated <= branches'[n].head
  BY <1>0, <1>1, <1>2 DEF PrInv, MainGrows, Tree
<1>6. prs[p].open => prs[p].merge = 0 /\ main'[prs[p].base].tree = main'[branches'[n].onto].tree
  BY <1>0, <1>2, <1>5 DEF PrInv
<1>7. prs[p].merge # 0 =>
        /\ prs[p].merge \in 1..Len(main') /\ main'[prs[p].merge].pr = p /\ prs[p].merge > n.base
        /\ main'[prs[p].merge].tree = branches'[n].tree
  BY <1>0, <1>1, <1>2 DEF PrInv, MainGrows, Tree, Landing
<1>8. Branch(p)' = branches'[n]
  BY <1>3 DEF Branch
<1> QED BY <1>3, <1>4, <1>5, <1>6, <1>7, <1>8 DEF PrInv, NameInv, Tip, Tree, Landing

\* ... whose branch is left alone.
LEMMA PrStays ==
  ASSUME ReleaseInv, MainGrows, NEW p \in DOMAIN prs, PrKept(p), prs[p].name \in DOMAIN branches',
         branches'[prs[p].name] = branches[prs[p].name]
  PROVE  PrInv(p)'
<1>1. TypeInv /\ PrsInv /\ BranchInv
  BY DEF ReleaseInv
<1>2. /\ prs[p].name \in DOMAIN branches /\ Branch(p) = branches[prs[p].name] /\ Branch(p).head \in Nat
      /\ Branch(p).onto \in 1..Tip
  BY <1>1, PullRequest DEF BranchInv
<1>3. main'[Branch(p).onto].tree = Tree(Branch(p).onto)
  BY <1>2 DEF MainGrows, Tree
<1>4. Branch(p).head >= Branch(p).head
  BY <1>2
<1> QED BY <1>2, <1>3, <1>4, PrKeeps

LEMMA EachPrStep ==
  ASSUME ReleaseInv, Effects, MainGrows
  PROVE  \A p \in DOMAIN prs' : PrInv(p)'
<1>0. /\ TypeInv /\ PrsInv /\ JobInv /\ Tip \in Nat /\ Len(main') \in Nat /\ Tip <= Len(main')
      /\ Tip \in 1..Tip
  BY Elements DEF ReleaseInv, MainGrows
<1>k. \A p \in DOMAIN prs : prs[p].name \in DOMAIN branches /\ Branch(p) = branches[prs[p].name]
  BY <1>0, PullRequest
<1>1. ASSUME NEW p \in DOMAIN prs, p \in DOMAIN prs', prs'[p] = prs[p] PROVE PrKept(p)
  BY <1>1 DEF PrKept
<1>2. CASE Quiet
  BY <1>k, <1>2, PrStays DEF Quiet
<1>3. CASE Pushing
  BY <1>k, <1>1, <1>3, PrStays DEF Pushing
<1>4. ASSUME NEW n \in DOMAIN branches, Editing(n) PROVE \A p \in DOMAIN prs' : PrInv(p)'
  <2> SUFFICES ASSUME NEW p \in DOMAIN prs PROVE PrInv(p)'
    BY <1>4 DEF Editing
  <2>1. PrKept(p) /\ prs[p].name \in DOMAIN branches'
    BY <1>k, <1>4 DEF Editing
  <2>2. CASE prs[p].name # n
    BY <1>k, <1>4, <2>1, <2>2, PrStays DEF Editing
  <2>3. CASE prs[p].name = n
    <3>1. /\ Branch(p).head \in Nat /\ Branch(p) = branches[n] /\ branches'[n].head = branches[n].head + 1
          /\ branches'[n].onto = branches[n].onto /\ branches'[n].tree = branches[n].tree
          /\ branches[n].onto \in 1..Tip
      BY <1>0, <1>4, <2>3, PullRequest DEF Editing, ReleaseInv, BranchInv
    <3>2. main'[branches'[n].onto].tree = Tree(Branch(p).onto)
      BY <3>1 DEF MainGrows, Tree
    <3> QED BY <2>1, <2>3, <3>1, <3>2, PrKeeps
  <2> QED BY <2>2, <2>3
<1>5. ASSUME NEW p \in DOMAIN prs, LandsPr(p) PROVE \A q \in DOMAIN prs' : PrInv(q)'
  <2>1. ASSUME NEW q \in DOMAIN prs, q # p PROVE PrInv(q)'
    BY <1>k, <1>1, <1>5, <2>1, PrStays DEF LandsPr
  <2>2. PrInv(p)'
    <3>1. PICK n : n = prs[p].name
      OBVIOUS
    <3>2. /\ PrInv(p) /\ n \in DOMAIN branches /\ Branch(p) = branches[n] /\ n.base \in Nat
          /\ prs[p].base \in 1..Tip /\ branches' = branches
      <4>1. n \in NameSet
        BY <1>0, <3>1, Elements DEF PrSet
      <4> QED BY <1>0, <1>k, <1>5, <3>1, <4>1 DEF PrsInv, PrInv, NameSet, LandsPr
    <3>3. /\ prs'[p].name = n /\ prs'[p].event = n.event /\ prs'[p].kind = n.kind
          /\ prs'[p].base = prs[p].base /\ prs'[p].open = FALSE /\ prs'[p].merge = Tip + 1
          /\ prs'[p].generated = prs[p].generated /\ Len(main') = Tip + 1
          /\ main'[Tip + 1].pr = p /\ main'[Tip + 1].tree = branches[n].tree
      BY <1>5, <3>1, <3>2 DEF LandsPr, PrInv, MainGrew
    <3>4. NameInv(n)' /\ n.base <= Tip
      BY <1>0, <3>1, <3>2, <3>3 DEF NameInv, PrInv, Tip
    <3>5. Branch(p)' = branches[n]
      BY <3>2, <3>3 DEF Branch
    <3>6. prs'[p].base \in 1..Len(main')
      BY <1>0, <3>2, <3>3
    <3>7. prs'[p].generated <= branches[n].head
      BY <3>2, <3>3 DEF PrInv
    <3>8. Tip + 1 > n.base /\ Tip + 1 \in 1..Len(main')
      BY <1>0, <3>2, <3>3, <3>4
    <3> QED BY <3>2, <3>3, <3>4, <3>5, <3>6, <3>7, <3>8 DEF PrInv, NameInv, Tip, Tree, Landing
  <2> QED BY <1>5, <2>1, <2>2 DEF LandsPr
<1>6. ASSUME NEW p \in DOMAIN prs, Closing(p) PROVE \A q \in DOMAIN prs' : PrInv(q)'
  <2>1. ASSUME NEW q \in DOMAIN prs, q # p PROVE PrInv(q)'
    BY <1>k, <1>1, <1>6, <2>1, PrStays DEF Closing
  <2>2. PrInv(p)'
    <3>1. PICK n : n = prs[p].name
      OBVIOUS
    <3>2. PrInv(p) /\ n \in DOMAIN branches /\ Branch(p) = branches[n] /\ branches' = branches /\ main' = main
      BY <1>0, <1>k, <1>6, <3>1 DEF PrsInv, Closing
    <3>3. /\ prs'[p].name = n /\ prs'[p].event = n.event /\ prs'[p].kind = n.kind
          /\ prs'[p].base = prs[p].base /\ prs'[p].open = FALSE /\ prs'[p].merge = 0
          /\ prs'[p].generated = prs[p].generated
      BY <1>6, <3>1, <3>2 DEF Closing, PrInv
    <3>5. Branch(p)' = branches[n]
      BY <3>2, <3>3 DEF Branch
    <3> QED BY <3>1, <3>2, <3>3, <3>5 DEF PrInv, NameInv, Tip
  <2> QED BY <1>6, <2>1, <2>2 DEF Closing
<1>7. CASE Branching
  <2>1. \A n \in DOMAIN branches : n \in DOMAIN branches' /\ branches'[n] = branches[n]
    BY <1>7 DEF Branching
  <2> QED BY <1>k, <1>1, <1>7, <2>1, PrStays DEF Branching
<1>8. CASE Opening
  <2>1. ASSUME NEW q \in DOMAIN prs PROVE PrInv(q)'
    BY <1>k, <1>1, <1>8, <2>1, PrStays DEF Opening
  <2>2. PICK p, n : p = Len(prs) + 1 /\ n = job.name
    OBVIOUS
  <2>3. PrInv(p)'
    <3>1. /\ prs'[p].name = n /\ prs'[p].event = n.event /\ prs'[p].kind = n.kind
          /\ prs'[p].base = job.base /\ prs'[p].open = TRUE /\ prs'[p].merge = 0
          /\ prs'[p].generated = branches[n].head /\ branches' = branches /\ main' = main
      BY <1>0, <1>8, <2>2 DEF Opening, JobInv
    <3>2. NameInv(n) /\ job.base \in 1..Tip /\ n \in DOMAIN branches /\ branches[n].onto = job.base
      BY <1>0, <1>8, <2>2 DEF Opening, JobInv
    <3>3. branches[n].head \in Nat
      BY <1>0, <3>2, Elements DEF BranchSet
    <3>4. Branch(p)' = branches[n]
      BY <3>1 DEF Branch
    <3>5. NameInv(n)' /\ job.base \in 1..Len(main') /\ branches[n].head <= branches[n].head
      BY <3>1, <3>2, <3>3 DEF NameInv, Tip
    <3> QED BY <3>1, <3>2, <3>4, <3>5 DEF PrInv, NameInv, Tip, Tree
  <2> QED BY <1>8, <2>1, <2>2, <2>3 DEF Opening
<1>9. CASE Updating
  <2>1. PICK p, n : p = job.pr /\ n = prs[job.pr].name
    OBVIOUS
  <2>2. /\ p \in DOMAIN prs /\ prs[p].open /\ n \in DOMAIN branches /\ Branch(p) = branches[n]
        /\ branches[n].head \in Nat
    BY <1>0, <1>9, <2>1, PullRequest DEF Updating, JobInv
  <2>3. ASSUME NEW q \in DOMAIN prs PROVE PrInv(q)'
    <3>1. PrKept(q) /\ prs[q].name \in DOMAIN branches'
      BY <1>k, <1>9 DEF Updating
    <3>2. CASE prs[q].name # n
      BY <1>k, <1>9, <2>1, <3>1, <3>2, PrStays DEF Updating
    <3>3. CASE prs[q].name = n
      <4>1. /\ branches'[n].head = branches[n].head + 1 /\ branches'[n].onto = Tip
            /\ branches'[n].tree = branches[n].tree /\ main' = main
            /\ Tree(Tip) = Tree(prs[p].base) /\ Branch(q) = branches[n]
        BY <1>k, <1>9, <2>1, <3>3 DEF Updating
      <4>2. prs[q].open => q = p
        BY <1>0, <2>1, <2>2, <3>3 DEF PrsInv, Alive
      <4>3. Tree(prs[p].base) = Tree(branches[n].onto)
        BY <1>0, <2>2 DEF PrsInv, PrInv
      <4>4. main'[branches'[n].onto].tree = Tree(Branch(q).onto)
        BY <4>1, <4>3 DEF Tree
      <4>5. branches'[n].head \in Nat /\ branches'[n].head >= Branch(q).head
        BY <2>2, <4>1
      <4> QED BY <3>1, <3>3, <4>1, <4>4, <4>5, PrKeeps
    <3> QED BY <3>2, <3>3
  <2> QED BY <1>9, <2>3 DEF Updating
<1>10. CASE Recording
  <2>1. PICK p, n : p = job.pr /\ n = prs[p].name
    OBVIOUS
  <2>2. ASSUME NEW q \in DOMAIN prs, q # p PROVE PrInv(q)'
    BY <1>k, <1>1, <1>10, <2>1, <2>2, PrStays DEF Recording
  <2>3. PrInv(p)'
    <3>1. /\ PrInv(p) /\ p \in DOMAIN prs /\ n \in DOMAIN branches /\ Branch(p) = branches[n]
          /\ branches' = branches /\ main' = main /\ branches[n].head \in Nat
      BY <1>0, <1>k, <1>10, <2>1, PullRequest DEF PrsInv, Recording
    <3>2. /\ prs'[p].name = n /\ prs'[p].event = n.event /\ prs'[p].kind = n.kind
          /\ prs'[p].base = job.base /\ prs'[p].open = prs[p].open /\ prs'[p].merge = prs[p].merge
          /\ prs'[p].generated = branches[n].head
      BY <1>10, <2>1, <3>1 DEF Recording, PrInv
    <3>3. /\ job.base \in 1..Tip
          /\ prs[p].open => Tree(job.base) = Tree(branches[n].onto)
      BY <1>0, <1>10, <2>1, <3>1 DEF JobInv, Recording
    <3>4. Branch(p)' = branches[n] /\ branches[n].head <= branches[n].head
      BY <3>1, <3>2 DEF Branch
    <3> QED BY <2>1, <3>1, <3>2, <3>3, <3>4 DEF PrInv, NameInv, Tip, Tree, Landing
  <2> QED BY <1>10, <2>1, <2>2, <2>3 DEF Recording
<1> QED BY <1>2, <1>3, <1>4, <1>5, <1>6, <1>7, <1>8, <1>9, <1>10 DEF Effects

\* Landed pull requests stay landed; those that are alive were, or are new.
LEMMA Alives ==
  ASSUME ReleaseInv, Effects
  PROVE  /\ \A p \in DOMAIN prs : /\ p \in DOMAIN prs' /\ prs'[p].name = prs[p].name
                                  /\ Alive(p)' => Alive(p)
                                  /\ prs[p].merge # 0 => prs'[p].merge = prs[p].merge
         /\ \/ DOMAIN prs' = DOMAIN prs
            \/ /\ Opening /\ DOMAIN prs' = DOMAIN prs \cup {Len(prs) + 1}
               /\ prs'[Len(prs) + 1].name = job.name
<1>0. PrsInv
  BY DEF ReleaseInv
<1>1. ASSUME NEW p \in DOMAIN prs, PrKept(p)
      PROVE  /\ prs'[p].name = prs[p].name /\ (Alive(p)' => Alive(p)) /\ prs'[p].merge = prs[p].merge
  BY <1>1 DEF PrKept, Alive
<1>2. ASSUME NEW p \in DOMAIN prs, prs'[p] = prs[p]
      PROVE  /\ prs'[p].name = prs[p].name /\ (Alive(p)' => Alive(p)) /\ prs'[p].merge = prs[p].merge
  BY <1>2 DEF Alive
<1>3. CASE Quiet
  BY <1>1, <1>3 DEF Quiet
<1>4. CASE Pushing \/ Branching
  BY <1>2, <1>4 DEF Pushing, Branching
<1>5. ASSUME NEW n, Editing(n)
      PROVE  DOMAIN prs' = DOMAIN prs /\ \A p \in DOMAIN prs : PrKept(p)
  BY <1>5 DEF Editing
<1>6. CASE Updating
  BY <1>1, <1>6 DEF Updating
<1>7. CASE Opening
  BY <1>2, <1>7 DEF Opening
<1>8. CASE Recording
  <2>1. PICK p : p = job.pr
    OBVIOUS
  <2>2. /\ p \in DOMAIN prs /\ prs'[p].name = prs[p].name /\ prs'[p].open = prs[p].open
        /\ prs'[p].merge = prs[p].merge /\ DOMAIN prs' = DOMAIN prs
        /\ \A q \in DOMAIN prs : q # p => prs'[q] = prs[q]
    BY <1>8, <2>1 DEF Recording
  <2> QED BY <1>2, <2>2 DEF Alive
<1>9. ASSUME NEW p \in DOMAIN prs, LandsPr(p) \/ Closing(p)
      PROVE  /\ DOMAIN prs' = DOMAIN prs
             /\ \A q \in DOMAIN prs : /\ prs'[q].name = prs[q].name /\ (Alive(q)' => Alive(q))
                                      /\ prs[q].merge # 0 => prs'[q].merge = prs[q].merge
  <2>1. /\ prs'[p].name = prs[p].name /\ prs[p].open /\ prs[p].merge = 0 /\ DOMAIN prs' = DOMAIN prs
        /\ \A q \in DOMAIN prs : q # p => prs'[q] = prs[q]
    BY <1>0, <1>9 DEF LandsPr, Closing, PrsInv, PrInv
  <2> QED BY <1>2, <2>1 DEF Alive
<1> QED BY <1>1, <1>3, <1>4, <1>5, <1>6, <1>7, <1>8, <1>9 DEF Effects

LEMMA PrsStep ==
  ASSUME ReleaseInv, Effects, MainGrows
  PROVE  PrsInv'
<1>0. /\ TypeInv /\ PrsInv /\ JobInv /\ Tip \in Nat
      /\ DOMAIN prs = 1..Len(prs) /\ Len(prs) \in Nat
  BY Elements DEF ReleaseInv
<1>1. \A p \in DOMAIN prs' : PrInv(p)'
  BY EachPrStep
<1>2. \A c \in 1..Len(main') : main'[c].pr # Nobody =>
        main'[c].pr \in DOMAIN prs' /\ prs'[main'[c].pr].merge = c
  <2> SUFFICES ASSUME NEW c \in 1..Len(main'), main'[c].pr # Nobody
               PROVE  main'[c].pr \in DOMAIN prs' /\ prs'[main'[c].pr].merge = c
    OBVIOUS
  <2>1. CASE c \in 1..Tip
    <3>1. PICK p : p = main[c].pr
      OBVIOUS
    <3>2. main'[c].pr = p
      BY <2>1, <3>1 DEF MainGrows
    <3>3. p \in DOMAIN prs /\ prs[p].merge = c /\ c # 0
      BY <1>0, <2>1, <3>1, <3>2 DEF PrsInv
    <3>4. p \in DOMAIN prs' /\ prs'[p].merge = c
      BY <3>3, Alives
    <3> QED BY <3>2, <3>4
  <2>2. CASE c \notin 1..Tip
    <3>1. \/ \E tree : MainGrew(tree, Nobody)
          \/ \E p \in DOMAIN prs : LandsPr(p)
          \/ MainKept
      <4>1. main' = main => MainKept
        BY DEF MainKept, Tip
      <4> QED BY <4>1 DEF Effects, Quiet, Pushing, Editing, Branching, Opening, Closing, Updating, Recording
    <3>2. CASE MainKept
      BY <2>2, <3>2 DEF MainKept
    <3>3. ASSUME NEW tree, MainGrew(tree, Nobody) PROVE FALSE
      <4>1. c = Tip + 1
        BY <1>0, <2>2, <3>3 DEF MainGrew
      <4> QED BY <3>3, <4>1 DEF MainGrew
    <3>4. ASSUME NEW p \in DOMAIN prs, LandsPr(p)
          PROVE  main'[c].pr \in DOMAIN prs' /\ prs'[main'[c].pr].merge = c
      <4>1. c = Tip + 1
        BY <1>0, <2>2, <3>4 DEF LandsPr, MainGrew
      <4> QED BY <3>4, <4>1 DEF LandsPr, MainGrew
    <3> QED BY <3>1, <3>2, <3>3, <3>4
  <2> QED BY <2>1, <2>2
<1>3. \A p, q \in DOMAIN prs' : p # q /\ Alive(p)' /\ Alive(q)' => prs'[p].name # prs'[q].name
  <2> SUFFICES ASSUME NEW p \in DOMAIN prs', NEW q \in DOMAIN prs', p # q, Alive(p)', Alive(q)'
               PROVE  prs'[p].name # prs'[q].name
    OBVIOUS
  <2>1. CASE p \in DOMAIN prs /\ q \in DOMAIN prs
    <3>1. Alive(p) /\ Alive(q) /\ prs'[p].name = prs[p].name /\ prs'[q].name = prs[q].name
      BY <2>1, Alives
    <3> QED BY <1>0, <2>1, <3>1 DEF PrsInv
  <2>2. CASE ~ (p \in DOMAIN prs /\ q \in DOMAIN prs)
    <3>1. /\ job.pc = "open" /\ prs'[Len(prs) + 1].name = job.name
          /\ DOMAIN prs' = DOMAIN prs \cup {Len(prs) + 1}
      BY <2>2, Alives DEF Opening
    <3>2. ASSUME NEW r \in DOMAIN prs, Alive(r)' PROVE prs'[r].name # job.name
      <4>1. Alive(r) /\ prs'[r].name = prs[r].name
        BY <3>2, Alives
      <4> QED BY <1>0, <3>1, <4>1 DEF JobInv
    <3> QED BY <2>2, <3>1, <3>2
  <2> QED BY <2>1, <2>2
<1> QED BY <1>1, <1>2, <1>3 DEF PrsInv, Tip

-----------------------------------------------------------------------------
(* What the adapter proposes.                                               *)

\* A release that is proposed was never on main.
LEMMA ProposedIsUnseen ==
  ASSUME TypeInv, TreesInv, NEW event \in Known, Reason("release", event, NoVersion)
  PROVE  Unseen(event, Tip)
<1>1. /\ Tip \in Nat /\ Tip \in 1..Tip /\ event \in Nat /\ Tree(Tip).event \in Nat
      /\ Tree(Tip).rejected \in SUBSET Known
  BY Elements, Newest DEF TreesInv, Sane, TreeSet, Known
<1>2. /\ NewestReady(ready) = event /\ Tree(Tip).event # event
      /\ event \notin Tree(Tip).rejected /\ ~ (event < Tree(Tip).event)
  BY DEF Reason
<1>3. ASSUME NEW d \in 1..Tip, Tree(d).event = event PROVE FALSE
  <2>1. event <= Tree(Tip).event \/ \E x \in Tree(Tip).rejected : event <= x
    BY <1>3 DEF TreesInv
  <2>2. ~ (event <= Tree(Tip).event)
    BY <1>1, <1>2
  <2>3. PICK x \in Tree(Tip).rejected : event <= x
    BY <2>1, <2>2
  <2>4. x \in Known /\ x \in Nat /\ x <= event
    BY <1>1, <1>2, <2>3, Newest
  <2>5. x = event
    BY <1>1, <2>3, <2>4
  <2> QED BY <1>2, <2>3, <2>5
<1> QED BY <1>3 DEF Unseen

\* What an update, a bump or a rollback makes of the tip of main.
LEMMA PatchedSteps ==
  ASSUME ReleaseInv, NEW kind \in Kinds, NEW event \in Known, NEW target \in Int,
         Reason(kind, event, target), Tree(Tip).package # MaxPackage
  PROVE  /\ Step(Tree(Tip), Patched(kind, event, target, Tree(Tip)))
         /\ kind # "package" => /\ Patched(kind, event, target, Tree(Tip)).event = event
                                /\ Patched(kind, event, target, Tree(Tip)).rollback = target
         /\ kind = "package" => Patched(kind, event, target, Tree(Tip)).event = Tree(Tip).event
<1>0. TypeInv /\ TreesInv /\ Tip \in 1..Tip /\ Known \subseteq Nat
  BY Elements, Newest DEF ReleaseInv
<1>1. PICK old, new : old = Tree(Tip) /\ new = Patched(kind, event, target, Tree(Tip))
  OBVIOUS
<1>2. /\ Sane(old) /\ old.package \in Nat /\ old.package + 1 \in Packages /\ old.event \in Nat
      /\ old.rejected \subseteq Nat /\ old.previous \in Int /\ event \in Nat
      /\ old \in TreeSet
  <2>1. Sane(old) /\ old \in TreeSet
    BY <1>0, <1>1, Elements DEF TreesInv
  <2>2. old.package \in 0..MaxPackage /\ old.package # MaxPackage /\ MaxPackage \in Nat
    BY <1>1, <2>1, Positive DEF Sane, Packages
  <2>3. old.package \in Nat /\ old.package + 1 \in Packages
    BY <2>2 DEF Packages
  <2> QED BY <1>0, <2>1, <2>3 DEF TreeSet
<1>3. CASE kind = "package"
  <2>1. new = ManualPatch(old)
    BY <1>1, <1>3 DEF Patched
  <2>2. /\ new.package = old.package + 1 /\ new.event = old.event /\ new.rejected = old.rejected
        /\ new.rollback = old.rollback /\ new.previous \in {old.previous, old.package}
    BY <1>2, <2>1 DEF ManualPatch, TreeSet
  <2>3. new.previous < new.package
    BY <1>2, <2>2 DEF Sane
  <2>4. Sane(new)
    BY <1>2, <2>2, <2>3 DEF Sane
  <2>5. Step(old, new)
    BY <1>2, <2>2, <2>4 DEF Step
  <2> QED BY <1>1, <1>3, <2>2, <2>5
<1>4. CASE kind # "package"
  <2> DEFINE more == IF target = NoVersion THEN {} ELSE {old.event}
  <2>1. /\ new.package = old.package + 1 /\ new.event = event
        /\ new.rollback = target /\ new.previous = old.package
        /\ new.rejected = old.rejected \cup more
    BY <1>1, <1>4 DEF Patched, UpdateFiles
  <2>2. new.previous < new.package
    BY <1>2, <2>1
  <2>3. CASE kind = "release"
    <3>1. /\ event # old.event /\ event \notin old.rejected /\ ~ (event < old.event)
          /\ target = NoVersion
      BY <1>1, <2>3 DEF Reason
    <3>2. new.rejected = old.rejected /\ event > old.event
      BY <1>2, <2>1, <3>1
    <3>3. Sane(new)
      BY <1>2, <2>1, <2>2, <3>1, <3>2 DEF Sane
    <3>4. Step(old, new)
      BY <1>2, <2>1, <3>2, <3>3 DEF Step
    <3> QED BY <1>1, <1>4, <2>1, <3>4
  <2>4. CASE kind = "rollback"
    <3>1. VerifiedReceipt(target) /\ Updatable(old, event, target) /\ event = releases[target].receipt
      BY <1>1, <2>4 DEF Reason
    <3>2. Receipted(target, event)
      BY <3>1 DEF Receipted, VerifiedReceipt, StoredReceipt, VerifiedPackage
    <3>3. target # NoVersion
      BY <3>2, Positive DEF Receipted
    <3>4. /\ event > old.event \/ event < old.event
          /\ event \notin old.rejected /\ old.event # 0 /\ new.rejected = old.rejected \cup {old.event}
      BY <2>1, <3>1, <3>3 DEF Updatable
    <3>5. event # old.event /\ old.event \in ready
      BY <1>2, <3>4 DEF Sane, Known
    <3>6. Sane(new)
      BY <1>2, <2>1, <2>2, <3>4, <3>5 DEF Sane
    <3>7. Step(old, new)
      BY <1>2, <2>1, <3>2, <3>3, <3>4, <3>6 DEF Step
    <3> QED BY <1>1, <1>4, <2>1, <3>7
  <2> QED BY <1>4, <2>3, <2>4 DEF Kinds
<1> QED BY <1>3, <1>4

\* A new proposal: a name that no pull request has, and a patch that is a step.
LEMMA ProposalStarts ==
  ASSUME ReleaseInv, NEW kind \in Kinds, NEW event \in Known, NEW target \in Int,
         Reason(kind, event, target), Tree(Tip).package # MaxPackage, Same(Name(kind, event)) = {}
  PROVE  LET name == Name(kind, event) IN
         /\ NameInv(name) /\ name.event = event /\ name.kind = kind
         /\ \A p \in DOMAIN prs : Alive(p) => prs[p].name # name
         /\ Proposal(name, Tip, Patched(kind, event, target, Tree(Tip)))
<1>0. /\ TypeInv /\ TreesInv /\ PrsInv /\ BranchInv /\ Tip \in 1..Tip /\ Tip \in Nat
      /\ Known \subseteq Nat /\ Tree(Tip).package \in Int
  BY Elements, Newest DEF ReleaseInv, TreeSet
<1>1. PICK name, new : name = Name(kind, event) /\ new = Patched(kind, event, target, Tree(Tip))
  OBVIOUS
<1>2. /\ name.kind = kind /\ name.event = event
      /\ kind = "release" => name.package = 0
      /\ kind # "release" => name.package = Tree(Tip).package + 1
      /\ kind = "package" => name.base = Tip
      /\ kind # "package" => name.base = 0
  BY <1>1 DEF Name
<1>3. NameInv(name)
  BY <1>0, <1>2 DEF NameInv
<1>4. /\ Step(Tree(Tip), new)
      /\ kind # "package" => new.event = event /\ new.rollback = target
      /\ kind = "package" => new.event = Tree(Tip).event
  BY <1>1, PatchedSteps
<1>5. kind = "release" => Unseen(event, Tip)
  <2> SUFFICES ASSUME kind = "release" PROVE Unseen(event, Tip)
    OBVIOUS
  <2>1. Reason("release", event, NoVersion)
    BY DEF Reason
  <2> QED BY <1>0, <2>1, ProposedIsUnseen
<1>6. kind = "rollback" => target # NoVersion
  BY Positive DEF Reason, VerifiedReceipt, StoredReceipt
<1>7. Proposal(name, Tip, new)
  <2>1. new.package = Tree(Tip).package + 1
    BY <1>4 DEF Step
  <2> QED BY <1>2, <1>4, <1>5, <1>6, <2>1 DEF Proposal, Kinds
<1>8. ASSUME NEW p \in DOMAIN prs, Alive(p), prs[p].name = name PROVE FALSE
  <2>1. CASE prs[p].open
    BY <1>1, <1>8, <2>1 DEF Same, OpenPrs
  <2>2. CASE prs[p].merge # 0
    <3>1. PICK c, t : c = prs[p].merge /\ t = Tree(c)
      OBVIOUS
    <3>2. /\ c \in 1..Tip /\ c > name.base /\ t = Branch(p).tree /\ name \in DOMAIN branches
          /\ Branch(p) = branches[name]
      BY <1>0, <1>8, <2>2, <3>1 DEF PrsInv, PrInv, Landing, Branch
    <3>3. Proposal(name, branches[name].onto, t)
      BY <1>0, <3>2 DEF BranchInv
    <3>4. CASE kind = "package"
      BY <1>0, <1>2, <3>2, <3>4
    <3>5. CASE kind = "rollback"
      <4>1. t.package = Tree(Tip).package + 1
        BY <1>2, <3>3, <3>5 DEF Proposal
      <4>2. Tree(c) = Tree(Tip) \/ Tree(c).package < Tree(Tip).package
        BY <1>0, <3>2 DEF TreesInv
      <4> QED BY <1>0, <3>1, <4>1, <4>2
    <3>6. CASE kind = "release"
      <4>1. Tree(c).event = event
        BY <1>2, <3>1, <3>3, <3>6 DEF Proposal
      <4> QED BY <1>5, <3>2, <3>6, <4>1 DEF Unseen
    <3> QED BY <3>4, <3>5, <3>6 DEF Kinds
  <2> QED BY <1>8, <2>1, <2>2 DEF Alive
<1> QED BY <1>1, <1>2, <1>3, <1>7, <1>8

-----------------------------------------------------------------------------
(* The adapter.                                                             *)

LEMMA ServedAsKept ==
  ASSUME TypeInv, TypeInv', StoreGrows, MainGrows, NEW v \in Packages, NEW event, ServedAs(v, event)
  PROVE  ServedAs(v, event)'
<1>1. /\ Published(v) = Files /\ releases[v].assets = pypi[v]
      /\ releases[v].tag \in 1..Tip
      /\ Tree(releases[v].tag).event = event
  BY DEF ServedAs
<1>2. Published(v)' = Files /\ \A f \in Files : pypi'[v][f] = pypi[v][f] /\ pypi[v][f] # 0
  BY <1>1, PublishedKept DEF Published
<1>3. releases'[v].assets = pypi'[v]
  <2>1. releases'[v].assets \in [Files -> Nat] /\ pypi'[v] \in [Files -> Nat]
    BY DEF TypeInv, ReleaseSet
  <2>2. \A f \in Files : releases'[v].assets[f] = pypi'[v][f]
    BY <1>1, <1>2 DEF StoreGrows
  <2> QED BY <2>1, <2>2
<1>4. PICK c : c = releases[v].tag
  OBVIOUS
<1>5. c \in 1..Tip /\ c # 0 /\ Tree(c).event = event /\ Tip \in Nat
  BY <1>1, <1>4, Elements
<1>6. releases'[v].tag = c /\ main'[c].tree = Tree(c) /\ c \in 1..Len(main')
  BY <1>4, <1>5 DEF StoreGrows, MainGrows, Tree
<1> QED BY <1>2, <1>3, <1>5, <1>6 DEF ServedAs, Tree, Tip

LEMMA ServedKept ==
  ASSUME TypeInv, TypeInv', StoreGrows, MainGrows, NEW event, Served(event)
  PROVE  Served(event)'
<1>1. PICK v \in Packages : ServedAs(v, event)
  BY DEF Served
<1>2. ServedAs(v, event)'
  BY <1>1, ServedAsKept
<1> QED BY <1>2 DEF Served

\* What a job reports as verified stays so.
LEMMA VerifiedKept ==
  ASSUME ReleaseInv, TypeInv', Effects, StoreGrows, MainGrows, job.state = "verified"
  PROVE  \A p, e : p = job.pr /\ e = job.event =>
           Merged(p)' /\ e \in ready' /\ ServedAs(Landing(p).package, e)'
<1> SUFFICES ASSUME NEW p, NEW e, p = job.pr, e = job.event
             PROVE  Merged(p)' /\ e \in ready' /\ ServedAs(Landing(p).package, e)'
  OBVIOUS
<1>1. TypeInv /\ Merged(p) /\ e \in ready
  BY DEF ReleaseInv, JobInv
<1>2. PICK v : v = Landing(p).package
  OBVIOUS
<1>3. Merged(p)' /\ Landing(p)' = Landing(p) /\ v \in Packages
  BY <1>1, <1>2, MergedKept
<1>4. ServedAs(v, e)
  BY <1>2 DEF ReleaseInv, JobInv
<1>5. ServedAs(v, e)'
  BY <1>1, <1>3, <1>4, ServedAsKept
<1>6. Landing(p).package' = v
  BY <1>2, <1>3
<1> QED BY <1>1, <1>3, <1>5, <1>6 DEF StoreGrows, ServedAs

\* The adapter waits while others act.
LEMMA JobWaits ==
  ASSUME ReleaseInv, TypeInv', Around, StoreGrows, MainGrows, UNCHANGED <<job, told>>
  PROVE  JobInv'
<1>0. /\ TypeInv /\ PrsInv /\ JobInv /\ BranchInv /\ Tip \in Nat /\ Len(main') \in Nat /\ Tip <= Len(main')
      /\ 1..Tip \subseteq 1..Len(main') /\ job.name.base \in Nat /\ job.base \in Nat
  <2>1. job.name \in NameSet /\ job.base \in Nat
    BY DEF ReleaseInv, TypeInv, JobSet
  <2>2. Tip \in Nat /\ Len(main') \in Nat /\ Tip <= Len(main')
    BY Elements DEF ReleaseInv, MainGrows
  <2> QED BY <2>1, <2>2 DEF ReleaseInv, NameSet
<1>e. Effects
  BY DEF Around, Effects
<1>1. /\ DOMAIN prs' = DOMAIN prs /\ DOMAIN branches' = DOMAIN branches
      /\ \A n \in DOMAIN branches : /\ branches'[n].onto = branches[n].onto
                                    /\ branches'[n].head >= branches[n].head /\ branches'[n].head \in Nat
      /\ \A p \in DOMAIN prs : /\ prs'[p].name = prs[p].name /\ prs'[p].base = prs[p].base
                               /\ prs'[p].generated = prs[p].generated
                               /\ prs'[p].open => prs[p].open
  <2>0. \A n \in DOMAIN branches : branches[n].head \in Nat /\ branches[n].head + 1 \in Nat
    BY <1>0, Elements DEF BranchSet
  <2>1. CASE Quiet \/ Pushing
    BY <2>0, <2>1 DEF Quiet, Pushing, PrKept
  <2>2. ASSUME NEW n \in DOMAIN branches, Editing(n)
        PROVE  /\ DOMAIN prs' = DOMAIN prs /\ DOMAIN branches' = DOMAIN branches
               /\ \A m \in DOMAIN branches : /\ branches'[m].onto = branches[m].onto
                                             /\ branches'[m].head >= branches[m].head
                                             /\ branches'[m].head \in Nat
               /\ \A p \in DOMAIN prs : PrKept(p)
    BY <2>0, <2>2 DEF Editing
  <2>3. ASSUME NEW p \in DOMAIN prs, LandsPr(p)
        PROVE  /\ DOMAIN prs' = DOMAIN prs /\ branches' = branches
               /\ \A q \in DOMAIN prs : /\ prs'[q].name = prs[q].name /\ prs'[q].base = prs[q].base
                                        /\ prs'[q].generated = prs[q].generated
                                        /\ prs'[q].open => prs[q].open
    BY <2>3 DEF LandsPr
  <2> QED BY <2>0, <2>1, <2>2, <2>3 DEF Around, PrKept
<1>2. job.pc \in {"push", "open"} =>
       /\ NameInv(job.name)' /\ job.name.event = job.event
       /\ job.base \in 1..Len(main')
       /\ \A p \in DOMAIN prs' : Alive(p)' => prs'[p].name # job.name
  <2> SUFFICES ASSUME job.pc \in {"push", "open"}
               PROVE  /\ NameInv(job.name)' /\ job.name.event = job.event
                      /\ job.base \in 1..Len(main')
                      /\ \A p \in DOMAIN prs' : Alive(p)' => prs'[p].name # job.name
    OBVIOUS
  <2>1. /\ NameInv(job.name) /\ job.name.event = job.event /\ job.base \in 1..Tip
        /\ \A p \in DOMAIN prs : Alive(p) => prs[p].name # job.name
    BY <1>0 DEF JobInv
  <2>2. NameInv(job.name)'
    BY <1>0, <2>1 DEF NameInv, Tip
  <2>3. \A p \in DOMAIN prs' : Alive(p)' => Alive(p)
    BY <1>1, <1>e, Alives
  <2> QED BY <1>0, <1>1, <2>1, <2>2, <2>3
<1>3. ASSUME job.pc = "push"
      PROVE  Proposal(job.name, job.base, Patched(job.name.kind, job.event, job.rollback, Tree(job.base)))'
  <2>1. PICK n, o, t : n = job.name /\ o = job.base /\ t = Patched(job.name.kind, job.event, job.rollback, Tree(job.base))
    OBVIOUS
  <2>2. o \in 1..Tip /\ Proposal(n, o, t)
    BY <1>0, <1>3, <2>1 DEF JobInv
  <2>3. Proposal(n, o, t)'
    BY <2>2, ProposalKept
  <2>4. Tree(o)' = Tree(o) /\ job'.base = o /\ job'.name = n
    BY <2>1, <2>2 DEF MainGrows, Tree
  <2>5. Tree(job.base)' = Tree(job.base)
    BY <2>1, <2>4 DEF Tree
  <2>6. Patched(job.name.kind, job.event, job.rollback, Tree(job.base))' = t
    BY <2>1, <2>5 DEF Patched
  <2> QED BY <2>1, <2>3, <2>4, <2>6 DEF Proposal
<1>4. job.pc = "open" =>
        job.name \in DOMAIN branches' /\ branches'[job.name].onto = job.base
  BY <1>0, <1>1 DEF JobInv
<1>5. job.pc \in {"supersede", "inspect", "update", "record", "merge"} => job.pr \in DOMAIN prs'
  BY <1>0, <1>1 DEF JobInv
<1>6. job.pc \in {"update", "record"} => job.base \in 1..Len(main')
  BY <1>0 DEF JobInv
<1>b. \A p \in DOMAIN prs : /\ Branch(p) = branches[prs[p].name] /\ Branch(p)' = branches'[prs[p].name]
                            /\ prs[p].name \in DOMAIN branches /\ prs[p].generated \in Nat
                            /\ branches[prs[p].name].head \in Nat /\ branches[prs[p].name].onto \in 1..Tip
  BY <1>0, <1>1, PullRequest DEF Branch, BranchInv
<1>7. ASSUME job.pc = "update"
      PROVE  /\ prs'[job.pr].open /\ branches'[prs'[job.pr].name].onto # Len(main')
             /\ prs'[job.pr].base <= job.base
  <2>1. PICK p : p = job.pr
    OBVIOUS
  <2>2. /\ p \in DOMAIN prs /\ prs[p].open /\ branches[prs[p].name].onto # Tip /\ prs[p].base <= job.base
    BY <1>0, <1>7, <2>1 DEF JobInv, Branch
  <2>3. prs'[p].open /\ (Len(main') = Tip \/ Len(main') = Tip + 1)
    <3>1. CASE Quiet
      BY <2>2, <3>1 DEF Quiet, PrKept, MainKept
    <3>2. CASE Pushing
      BY <2>2, <3>2 DEF Pushing, MainGrew
    <3>3. ASSUME NEW n, Editing(n) PROVE prs'[p].open /\ Len(main') = Tip
      BY <2>2, <3>3 DEF Editing, PrKept, Tip
    <3>4. ASSUME NEW q \in DOMAIN prs, LandsPr(q) PROVE prs'[p].open /\ Len(main') = Tip + 1
      <4>1. p # q
        BY <2>2, <3>4 DEF LandsPr, Branch
      <4> QED BY <2>2, <3>4, <4>1 DEF LandsPr, MainGrew
    <3> QED BY <3>1, <3>2, <3>3, <3>4 DEF Around
  <2>4. branches'[prs[p].name].onto = branches[prs[p].name].onto /\ branches[prs[p].name].onto \in 1..Tip
    BY <1>1, <1>b, <2>2
  <2>5. branches'[prs[p].name].onto # Len(main')
    BY <1>0, <2>2, <2>3, <2>4
  <2> QED BY <1>1, <2>1, <2>2, <2>3, <2>5
<1>8. ASSUME job.pc = "record"
      PROVE  /\ prs'[job.pr].generated < branches'[prs'[job.pr].name].head
             /\ prs'[job.pr].open => main'[job.base].tree = main'[branches'[prs'[job.pr].name].onto].tree
  <2>1. PICK p, n : p = job.pr /\ n = prs[p].name
    OBVIOUS
  <2>2. /\ p \in DOMAIN prs /\ prs[p].generated < branches[n].head /\ n \in DOMAIN branches
        /\ prs[p].open => Tree(job.base) = Tree(branches[n].onto)
        /\ job.base \in 1..Tip /\ branches[n].onto \in 1..Tip /\ prs[p].generated \in Nat
        /\ branches[n].head \in Nat
    BY <1>0, <1>b, <1>8, <2>1 DEF JobInv
  <2>3. prs[p].generated < branches'[n].head
    BY <1>1, <2>2
  <2>4. /\ prs'[p].name = n /\ prs'[p].generated = prs[p].generated /\ (prs'[p].open => prs[p].open)
        /\ branches'[n].onto = branches[n].onto
    BY <1>1, <2>1, <2>2
  <2>5. main'[job.base].tree = Tree(job.base) /\ main'[branches'[n].onto].tree = Tree(branches[n].onto)
    BY <2>2, <2>4 DEF MainGrows, Tree
  <2> QED BY <2>1, <2>2, <2>3, <2>4, <2>5
<1>9. job.state = "verified" => /\ job.pc \in {"report", "retain"} /\ Merged(job.pr)'
                                /\ job.event \in ready' /\ ServedAs(Landing(job.pr).package, job.event)'
  <2> SUFFICES ASSUME job.state = "verified"
               PROVE  /\ job.pc \in {"report", "retain"} /\ Merged(job.pr)'
                      /\ job.event \in ready' /\ ServedAs(Landing(job.pr).package, job.event)'
    OBVIOUS
  <2>1. PICK e, p : e = job.event /\ p = job.pr /\ job' = job
    OBVIOUS
  <2>2. Merged(p)' /\ e \in ready' /\ ServedAs(Landing(p).package, e)'
    BY <1>e, <2>1, VerifiedKept
  <2> QED BY <1>0, <2>1, <2>2 DEF JobInv, Merged, ServedAs, Landing
<1>10. job' = job /\ (job.pc = "retain" => job.state = "verified" /\ told'[job.event] = "verified")
  BY <1>0 DEF JobInv
<1> QED BY <1>2, <1>3, <1>4, <1>5, <1>6, <1>7, <1>8, <1>9, <1>10 DEF JobInv, Tip, Tree, Branch

\* A job that ends, and one that looks at a pull request.
LEMMA JobEnds ==
  ASSUME TypeInv, NEW event \in Nat, NEW state \in States, state # "verified",
         Finish(event, state) \/ job' = Idle
  PROVE  JobInv'
<1>1. Idle.pc = "idle" /\ Idle.state = "pending"
  BY DEF Idle
<1>2. job'.pc \in {"idle", "report"} /\ job'.state # "verified"
  BY <1>1, FinishTypes
<1> QED BY <1>2 DEF JobInv

LEMMA JobDecides ==
  ASSUME ReleaseInv, Decides
  PROVE  JobInv'
<1>0. TypeInv /\ TreesInv /\ PublicInv /\ PrsInv
  BY DEF ReleaseInv
<1>1. UNCHANGED World
  BY DEF Decides
<1>2. Decided
  BY <1>0, DecidesOne
<1>3. CASE Ends
  BY <1>3 DEF Ends, JobInv
<1>4. CASE Looks
  BY <1>1, <1>4 DEF Looks, JobInv, World
<1>5. ASSUME NEW kind \in Kinds, NEW event \in Known, NEW target \in Int,
             Starts(kind, event, target), Reason(kind, event, target)
      PROVE  JobInv'
  <2>1. PICK name, tip, new : name = Name(kind, event) /\ tip = Tip /\ new = Patched(kind, event, target, Tree(Tip))
    OBVIOUS
  <2>2. /\ NameInv(name) /\ name.event = event /\ name.kind = kind
        /\ \A p \in DOMAIN prs : Alive(p) => prs[p].name # name
        /\ Proposal(name, tip, new)
    BY <1>5, <2>1, ProposalStarts DEF Starts
  <2>3. /\ job'.pc = "push" /\ job'.state # "verified" /\ job'.name = name /\ job'.event = event
        /\ job'.rollback = target /\ job'.base = tip
    BY <1>5, <2>1 DEF Starts
  <2>4. tip \in 1..Tip /\ Tip' = Tip /\ Tree(tip)' = Tree(tip)
    BY <1>0, <1>1, <2>1, Elements DEF World, Tip, Tree
  <2>5. NameInv(name)'
    BY <2>2, <2>4 DEF NameInv
  <2>6. \A p \in DOMAIN prs' : Alive(p)' => prs'[p].name # name
    BY <1>1, <2>2 DEF Alive, World
  <2>7. StoreGrows /\ MainGrows
    <3>1. Tip \in Nat
      BY <1>0, Elements
    <3> QED BY <1>1, <3>1 DEF World, StoreGrows, MainGrows, Tip
  <2>8. Proposal(name, tip, new)'
    BY <2>2, <2>4, <2>7, ProposalKept
  <2>9. Patched(job.name.kind, job.event, job.rollback, Tree(job.base))' = new
    <3>1. Tree(job.base)' = Tree(Tip)
      BY <1>1, <2>1, <2>3 DEF Tree, World
    <3> QED BY <2>1, <2>2, <2>3, <3>1 DEF Patched
  <2>10. Proposal(job.name, job.base, Patched(job.name.kind, job.event, job.rollback, Tree(job.base)))'
    BY <2>3, <2>8, <2>9 DEF Proposal
  <2> QED BY <2>2, <2>3, <2>4, <2>5, <2>6, <2>10 DEF JobInv, NameInv
<1> QED BY <1>2, <1>3, <1>4, <1>5 DEF Decided

LEMMA JobPublication ==
  ASSUME ReleaseInv, NEW r \in runs, Publication(r)
  PROVE  JobInv'
<1>0. /\ TypeInv /\ TreesInv /\ PrsInv /\ PublicInv /\ r.source \in 1..Tip
      /\ Tree(r.source).event \in Nat /\ UNCHANGED World
  BY Elements DEF ReleaseInv, PublicInv, TreeSet, Publication
<1>1. CASE ~ Confirms(r) /\ Finish(Reported(r), "failed")
  BY <1>0, <1>1, JobEnds DEF Reported, States
<1>2. CASE job' = Idle
  <2>1. 0 \in Nat /\ "failed" \in States
    BY DEF States
  <2> QED BY <1>0, <1>2, <2>1, JobEnds
<1>3. CASE /\ Confirms(r)
           /\ job' = [Idle EXCEPT !.pc = "report", !.event = Reported(r), !.pr = main[r.source].pr,
                                  !.state = "verified"]
  <2>1. job'.pc = "report" /\ job'.event = Tree(r.source).event /\ job'.pr = main[r.source].pr
    BY <1>3 DEF Idle, Reported
  <2>2. PICK c, v : c = r.source /\ v = Tree(r.source).package
    OBVIOUS
  <2>3. r.ok /\ VerifiedPackage(v, Nothing)
    BY <1>3, <2>2 DEF Confirms
  <2>4. /\ v \in Packages /\ Published(v) = Files /\ releases[v].assets = pypi[v]
        /\ \A f \in Files : pypi[v][f] = releases[v].tag
    BY <2>3 DEF VerifiedPackage
  <2>5. \A f \in Files : pypi[v][f] = c
    BY <1>0, <2>2, <2>3 DEF PublicInv
  <2>6. releases[v].tag = c
    BY <2>4, <2>5 DEF Files
  <2>7. PICK e, p : e = Tree(c).event /\ p = main[c].pr
    OBVIOUS
  <2>8. ServedAs(v, e) /\ c \in 1..Tip
    BY <1>0, <2>2, <2>4, <2>6, <2>7 DEF ServedAs
  <2>9. Merged(p) /\ Landing(p).package = v
    <3>1. p \in DOMAIN prs /\ prs[p].merge = c
      BY <1>0, <2>2, <2>7 DEF PublicInv, PrsInv
    <3>2. c # 0
      BY <1>0, <2>8, Elements
    <3> QED BY <2>2, <3>1, <3>2 DEF Merged, Landing
  <2>10. e \in ready
    BY <1>0, <2>2, <2>7, <2>8 DEF TreesInv, Sane, Known, Publication
  <2>11. Merged(p)' /\ e \in ready' /\ ServedAs(Landing(p).package, e)'
    BY <1>0, <2>8, <2>9, <2>10 DEF World, Merged, Landing, Tree, ServedAs, Published, Tip
  <2>12. job'.event = e /\ job'.pr = p
    BY <2>1, <2>2, <2>7
  <2> QED BY <2>1, <2>11, <2>12 DEF JobInv, Merged, Landing, ServedAs
<1> QED BY <1>1, <1>2, <1>3 DEF Publication

\* The job goes on: it stays the same but for its step.
LEMMA JobGoesOn ==
  ASSUME TypeInv, NEW pc, GoOn(pc)
  PROVE  /\ job'.pc = pc /\ job'.event = job.event /\ job'.base = job.base /\ job'.pr = job.pr
         /\ job'.name = job.name /\ job'.state = job.state /\ job'.rollback = job.rollback
BY DEF GoOn, TypeInv, JobSet

LEMMA JobReconciles ==
  ASSUME ReleaseInv, TypeInv', Reconcile, StoreGrows, MainGrows
  PROVE  JobInv'
<1>0. /\ TypeInv /\ TreesInv /\ PrsInv /\ JobInv /\ BranchInv /\ Tip \in 1..Tip /\ Tip \in Nat
      /\ job.event \in Nat /\ job \in JobSet
  BY Elements DEF ReleaseInv, TypeInv, JobSet
<1>s. job.state # "verified"
  BY <1>0 DEF JobInv, Reconcile, Pushes, Opens, Supersedes, Inspects, UpdatesBranch, Records, Merges
<1>f. ASSUME NEW event \in Nat, NEW state \in {"failed", "testing", "merged", "pr_open"}, Finish(event, state)
      PROVE  JobInv'
  BY <1>0, <1>f, JobEnds DEF States
<1>1. CASE Pushes
  <2>1. CASE Finish(job.event, "failed")
    BY <1>0, <1>f, <2>1
  <2>2. CASE GoOn("open")
    <3>1. PICK n, o : n = job.name /\ o = job.base
      OBVIOUS
    <3>2. /\ NameInv(n) /\ n.event = job.event /\ o \in 1..Tip
          /\ \A p \in DOMAIN prs : Alive(p) => prs[p].name # n
      BY <1>0, <1>1, <3>1 DEF JobInv, Pushes
    <3>3. n \in DOMAIN branches' /\ branches'[n].onto = o
      <4>1. CASE n \in DOMAIN branches
        <5>1. branches' = branches /\ (AssertPatch(n, n.kind, job.event, job.rollback, o) \/ Finish(job.event, "failed"))
          BY <1>1, <3>1, <4>1 DEF Pushes
        <5>2. CASE Finish(job.event, "failed")
          <6>1. Idle.pc = "idle" /\ "failed" \in States
            BY DEF Idle, States
          <6>2. job'.pc \in {"idle", "report"}
            BY <1>0, <5>2, <6>1, FinishTypes
          <6> QED BY <1>0, <2>2, <6>2, JobGoesOn
        <5> QED BY <4>1, <5>1, <5>2 DEF AssertPatch
      <4>2. CASE n \notin DOMAIN branches
        <5>1. branches' = [m \in DOMAIN branches \cup {n} |->
                    IF m = n
                    THEN [head |-> 1, onto |-> o, edited |-> FALSE,
                          tree |-> Patched(m.kind, job.event, job.rollback, Tree(o))]
                    ELSE branches[m]]
          BY <1>1, <3>1, <4>2 DEF Pushes
        <5> QED BY <5>1
      <4> QED BY <4>1, <4>2
    <3>4. main' = main /\ prs' = prs
      BY <1>1 DEF Pushes
    <3>5. /\ job'.pc = "open" /\ job'.event = job.event /\ job'.base = o /\ job'.name = n
          /\ job'.state = job.state
      BY <1>0, <2>2, <3>1, JobGoesOn
    <3>6. \A p \in DOMAIN prs' : Alive(p)' => prs'[p].name # n
      BY <3>2, <3>4 DEF Alive
    <3>7. NameInv(n)' /\ Tip' = Tip
      BY <3>2, <3>4 DEF NameInv, Tip
    <3> QED BY <1>s, <3>2, <3>3, <3>5, <3>6, <3>7 DEF JobInv, NameInv
  <2> QED BY <1>1, <2>1, <2>2 DEF Pushes
<1>2. CASE Opens
  <2>1. PICK p : p = Len(prs) + 1
    OBVIOUS
  <2>2. /\ job'.pc = "supersede" /\ job'.event = job.event /\ job'.pr = p /\ job'.state = job.state
    BY <1>0, <1>2, <2>1 DEF Opens, JobSet
  <2>3. p \in DOMAIN prs'
    <3> DEFINE pr == [name |-> job.name, kind |-> job.name.kind, event |-> job.event,
                      rollback |-> job.rollback, base |-> job.base, open |-> TRUE,
                      generated |-> branches[job.name].head, merge |-> 0,
                      ci |-> Testing(branches[job.name].head)]
    <3>1. prs' = Append(prs, pr)
      BY <1>2 DEF Opens
    <3> HIDE DEF pr
    <3>2. prs \in Seq(PrSet \cup {pr}) /\ pr \in PrSet \cup {pr}
      <4>1. prs \in Seq(PrSet)
        BY <1>0 DEF TypeInv
      <4> QED BY <4>1, SeqMonotonic
    <3>3. DOMAIN prs' = 1..(Len(prs) + 1) /\ Len(prs) \in Nat
      BY <3>1, <3>2, Appended
    <3> QED BY <2>1, <3>3
  <2> QED BY <1>s, <2>2, <2>3 DEF JobInv
<1>3. CASE Supersedes
  <2>1. CASE Finish(job.event, "failed")
    BY <1>0, <1>f, <2>1
  <2>2. CASE GoOn("inspect") \/ \E old : job' = [job EXCEPT !.old = @ \ {old}]
    <3>0. ASSUME NEW old, job' = [job EXCEPT !.old = @ \ {old}]
          PROVE  /\ job'.pc = job.pc /\ job'.event = job.event /\ job'.pr = job.pr
                 /\ job'.state = job.state
      BY <1>0, <3>0 DEF JobSet
    <3>1. /\ job'.pc \in {"supersede", "inspect"} /\ job'.event = job.event /\ job'.pr = job.pr
          /\ job'.state = job.state /\ job.pc = "supersede"
      BY <1>0, <1>3, <2>2, <3>0, JobGoesOn DEF Supersedes
    <3>2. DOMAIN prs' = DOMAIN prs
      BY <1>3 DEF Supersedes
    <3>3. job'.pr \in DOMAIN prs'
      BY <1>0, <3>1, <3>2 DEF JobInv
    <3> QED BY <1>s, <3>1, <3>3 DEF JobInv
  <2> QED BY <1>3, <2>1, <2>2 DEF Supersedes
<1>4. CASE Inspects
  <2>1. PICK p, report : /\ p = job.pr
                         /\ report = IF prs[p].kind = "rollback" THEN prs[p].event ELSE job.event
    OBVIOUS
  <2>2. p \in DOMAIN prs /\ report \in Nat /\ UNCHANGED World
    BY <1>0, <1>4, <2>1, PullRequest DEF JobInv, Inspects
  <2>3. \/ \E event \in {report, job.event}, state \in {"failed", "testing", "pr_open"} : Finish(event, state)
        \/ Sound(p) /\ Behind(p) /\ job' = [job EXCEPT !.pc = "update", !.event = report, !.base = Tip]
        \/ job' = [job EXCEPT !.pc = "merge", !.event = report, !.base = Tip]
    BY <1>4, <2>1 DEF Inspects
  <2>4. CASE \E event \in {report, job.event}, state \in {"failed", "testing", "pr_open"} : Finish(event, state)
    BY <1>0, <1>f, <2>2, <2>4
  <2>5. CASE Sound(p) /\ Behind(p) /\ job' = [job EXCEPT !.pc = "update", !.event = report, !.base = Tip]
    <3>1. job'.pc = "update" /\ job'.pr = p /\ job'.base = Tip /\ job'.state = job.state
      BY <1>0, <2>1, <2>5 DEF JobSet
    <3>2. prs[p].open /\ Branch(p).onto # Tip
      BY <2>5 DEF Sound, Owned, Behind
    <3> QED BY <1>0, <2>2, <1>s, <3>1, <3>2 DEF JobInv, World, Tip, Branch, PrsInv, PrInv
  <2>6. CASE job' = [job EXCEPT !.pc = "merge", !.event = report, !.base = Tip]
    <3>1. job'.pc = "merge" /\ job'.pr = p /\ job'.base = Tip /\ job'.state = job.state
      BY <1>0, <2>1, <2>6 DEF JobSet
    <3> QED BY <2>2, <1>s, <3>1 DEF JobInv, World
  <2> QED BY <2>3, <2>4, <2>5, <2>6
<1>5. CASE UpdatesBranch
  <2>1. CASE Finish(job.event, "failed")
    BY <1>0, <1>f, <2>1
  <2>2. CASE ~ Finish(job.event, "failed")
    <3>1. PICK p, n : p = job.pr /\ n = prs[p].name
      OBVIOUS
    <3>2. /\ job.pc = "update" /\ Branch(p).head = prs[p].generated /\ Tree(Tip) = Tree(prs[p].base)
          /\ branches' = [branches EXCEPT ![n].head = @ + 1, ![n].onto = Tip]
          /\ prs' = [prs EXCEPT ![p].ci = Testing(Branch(p).head + 1)]
          /\ main' = main /\ GoOn("record")
      BY <1>5, <2>2, <3>1 DEF UpdatesBranch
    <3>3. /\ p \in DOMAIN prs /\ n \in DOMAIN branches /\ branches[n] \in BranchSet /\ prs[p] \in PrSet
          /\ Branch(p) = branches[n] /\ branches[n].head \in Nat
          /\ prs[p].base <= job.base /\ job.base \in 1..Tip /\ prs[p].base \in 1..Tip
      BY <1>0, <3>1, <3>2, PullRequest DEF JobInv, PrsInv, PrInv
    <3>4. branches'[n].head = branches[n].head + 1 /\ branches'[n].onto = Tip
      BY <3>2, <3>3 DEF BranchSet
    <3>5. prs'[p].name = n /\ prs'[p].generated = prs[p].generated /\ DOMAIN prs' = DOMAIN prs
      BY <3>1, <3>2, <3>3 DEF PrSet
    <3>6. /\ job'.pc = "record" /\ job'.event = job.event /\ job'.base = job.base /\ job'.pr = p
          /\ job'.state = job.state
      BY <1>0, <3>1, <3>2, JobGoesOn
    <3>7. prs'[p].generated < branches'[n].head
      BY <3>2, <3>3, <3>4, <3>5
    <3>8. Tree(job.base) = Tree(Tip)
      <4>1. PICK a, b, c : a = prs[p].base /\ b = job.base /\ c = Tip
        OBVIOUS
      <4>2. a \in 1..Tip /\ b \in 1..Tip /\ c \in 1..Tip /\ a <= b /\ b <= c /\ Tree(a) = Tree(c)
        BY <1>0, <3>2, <3>3, <4>1
      <4>3. Tree(b) = Tree(a)
        BY <1>0, <4>2, Between
      <4> QED BY <4>1, <4>2, <4>3
    <3>9. main'[job'.base].tree = main'[branches'[n].onto].tree
      BY <3>2, <3>4, <3>6, <3>8 DEF Tree
    <3> QED BY <1>s, <3>2, <3>3, <3>5, <3>6, <3>7, <3>9 DEF JobInv, Tree, Branch, Tip
  <2> QED BY <2>1, <2>2
<1>6. CASE Records
  BY <1>0, <1>6, <1>f DEF Records
<1>7. CASE Merges
  <2>1. Finish(job.event, "merged") \/ Finish(job.event, "failed")
    BY <1>7 DEF Merges
  <2> QED BY <1>0, <1>f, <2>1
<1> QED BY <1>1, <1>2, <1>3, <1>4, <1>5, <1>6, <1>7 DEF Reconcile

LEMMA JobReports ==
  ASSUME ReleaseInv, TypeInv', Reporting \/ AdapterFails, Effects, StoreGrows, MainGrows
  PROVE  JobInv'
<1>0. TypeInv /\ JobInv /\ job.event \in Nat
  BY DEF ReleaseInv, TypeInv, JobSet
<1>f. ASSUME NEW state \in {"failed", "pending"}, Finish(job.event, state) \/ job' = Idle
      PROVE  JobInv'
  BY <1>0, <1>f, JobEnds DEF States
<1>1. CASE job' = Idle \/ Finish(job.event, "failed")
  BY <1>f, <1>1
<1>2. CASE Reports /\ GoOn("retain")
  <2>1. /\ job'.pc = "retain" /\ job'.event = job.event /\ job'.state = job.state
        /\ job'.pr = job.pr
    BY <1>0, <1>2, JobGoesOn
  <2>0. job.state = "verified"
    <3>1. job.state # "verified" => job' = Idle
      BY <1>2 DEF Reports
    <3>2. Idle.pc = "idle"
      BY DEF Idle
    <3> QED BY <2>1, <3>1, <3>2
  <2>2. PICK e, p : e = job.event /\ p = job.pr
    OBVIOUS
  <2>3. Merged(p)' /\ e \in ready' /\ ServedAs(Landing(p).package, e)'
    BY <2>0, <2>2, VerifiedKept
  <2>4. told'[e] = "verified"
    <3>1. e \in Events /\ told \in [Events -> {"nothing", "progress", "verified"}]
      BY <1>0, <2>0, <2>2 DEF TypeInv, JobInv
    <3>2. told' = [told EXCEPT ![e] = "verified"]
      BY <1>2, <2>0, <2>2 DEF Reports, MayTell
    <3> QED BY <3>1, <3>2
  <2> QED BY <2>0, <2>1, <2>2, <2>3, <2>4 DEF JobInv, Merged, Landing, ServedAs
<1> QED BY <1>1, <1>2 DEF Reporting, Reports, Retains, AdapterFails

LEMMA JobStep ==
  ASSUME ReleaseInv, TypeInv', [Next]_vars, StoreGrows, MainGrows
  PROVE  JobInv'
<1>e. Effects
  BY EffectsStep
<1>1. CASE Outside \/ Publish \/ PublisherFails
  <2>1. Around
    BY <1>1, AroundStep
  <2>2. UNCHANGED <<job, told>>
    BY <1>1 DEF Outside, HubReleases, Push, Edit, MergedByHand, CandidateCI, CandidateRerun, MainCI, MainRerun,
                Publish, PublisherFails, Prepare, GithubRelease, CreatesTag, UploadAsset, Preflight, Upload,
                VerifyPublication, MovesLatest, Refused, Goes
  <2> QED BY <2>1, <2>2, JobWaits
<1>2. CASE UNCHANGED vars
  <2>1. Around /\ UNCHANGED <<job, told>>
    BY <1>2, SameIsQuiet DEF vars, Around
  <2> QED BY <2>1, JobWaits
<1> QED BY <1>e, <1>1, <1>2, JobDecides, JobReconciles, JobReports, JobPublication DEF Next

-----------------------------------------------------------------------------
(* The publisher.                                                           *)

\* The tip of main has the highest version.
LEMMA TipGrows ==
  ASSUME TypeInv, TypeInv', TreesInv', MainGrows
  PROVE  /\ Tree(Tip).package \in Int /\ main'[Len(main')].tree.package \in Int
         /\ Tree(Tip).package <= main'[Len(main')].tree.package
<1>1. PICK a, b : a = Tip /\ b = Len(main')
  OBVIOUS
<1>2. a \in 1..Tip /\ a \in 1..b /\ b \in Nat /\ a \in Nat
  BY <1>1, Elements DEF MainGrows
<1>3. Tree(a).package \in Int /\ main'[a].tree = Tree(a)
  BY <1>2, Elements DEF TreeSet, MainGrows, Tree
<1>4. main'[b] \in CommitSet
  <2>1. b \in 1..b /\ main' \in Seq(CommitSet)
    BY <1>2 DEF TypeInv
  <2> QED BY <1>1, <2>1, ElementOfSeq
<1>5. main'[b].tree.package \in Int
  BY <1>4 DEF CommitSet, TreeSet
<1>6. main'[a].tree = main'[b].tree \/ main'[a].tree.package < main'[b].tree.package
  BY <1>1, <1>2 DEF TreesInv, Tip, Tree
<1> QED BY <1>1, <1>3, <1>5, <1>6 DEF Tree

\* A commit that may be published stays one that may.
LEMMA PublicKept ==
  ASSUME ReleaseInv, MainGrows, LandedKept, StoreGrows, NEW c, Public(c)
  PROVE  Public(c)'
<1>0. TypeInv /\ PrsInv /\ TreesInv
  BY DEF ReleaseInv
<1>1. PICK p : p = main[c].pr
  OBVIOUS
<1>2. /\ c \in 1..Tip /\ p # Nobody /\ prs[p].merge = c /\ Branch(p).head = prs[p].generated
      /\ prs[p].base = c - 1 /\ main[c].ci = "success"
      /\ Tree(c).event # 0 => prs[p].ci = [head |-> prs[p].generated, base |-> c - 1, status |-> "success"]
      /\ Replaced(c)
  BY <1>1 DEF Public, TestedLanding
<1>3. p \in DOMAIN prs /\ c # 0 /\ Branch(p) = branches[prs[p].name] /\ Tip \in Nat
  <2>1. p \in DOMAIN prs
    BY <1>0, <1>1, <1>2 DEF PrsInv
  <2> QED BY <1>0, <1>2, <2>1, PullRequest, Elements
<1>4. c \in 1..Len(main') /\ main'[c].pr = p /\ main'[c].ci = "success" /\ main'[c].tree = Tree(c)
  BY <1>1, <1>2, <1>3 DEF MainGrows, Tree
<1>5. /\ prs'[p].merge = c /\ prs'[p].generated = prs[p].generated /\ prs'[p].base = c - 1
      /\ branches'[prs'[p].name].head = prs[p].generated
      /\ Tree(c).event # 0 => prs'[p].ci = prs[p].ci
  BY <1>2, <1>3 DEF LandedKept
<1>6. Replaced(c)'
  <2>1. PICK u : u = Tree(c).previous
    OBVIOUS
  <2>2. Tree(c).event # 0 => u \in Packages /\ Published(u) = Files
    BY <1>2, <2>1 DEF Replaced
  <2>3. Tree(c).event # 0 => u \in Packages /\ Published(u)' = Files
    BY <2>2, PublishedKept
  <2>4. Tree(c)' = Tree(c)
    BY <1>4 DEF Tree
  <2> QED BY <2>1, <2>3, <2>4 DEF Replaced, Published
<1> QED BY <1>1, <1>2, <1>4, <1>5, <1>6 DEF Public, TestedLanding, Branch, Tree, Tip

\* What prepare() lets through may be published.
LEMMA EligibleIsPublic ==
  ASSUME ReleaseInv, NEW c \in 1..Tip, Eligible(c)
  PROVE  Public(c)
<1>0. TypeInv /\ PrsInv
  BY DEF ReleaseInv
<1>1. PICK p : p = main[c].pr
  OBVIOUS
<1>2. /\ p # Nobody /\ Branch(p).head = prs[p].generated /\ main[c].ci = "success"
      /\ c - 1 = prs[p].base
      /\ Tree(c).event # 0 => /\ CandidateGate(p, prs[p].generated, prs[p].base)
                              /\ VerifiedPackage(Tree(c).previous, Tree(c))
  BY <1>1 DEF Eligible, MainGate
<1>3. p \in DOMAIN prs /\ prs[p].merge = c /\ prs[p].ci \in [head: Nat, base: Nat, status: Status]
  <2>1. p \in DOMAIN prs /\ prs[p].merge = c
    BY <1>0, <1>1, <1>2 DEF PrsInv
  <2> QED BY <1>0, <2>1, PullRequest DEF PrSet
<1>4. Tree(c).event # 0 => prs[p].ci = [head |-> prs[p].generated, base |-> c - 1, status |-> "success"]
  BY <1>2, <1>3 DEF CandidateGate
<1>5. Replaced(c)
  BY <1>2 DEF Replaced, VerifiedPackage
<1> QED BY <1>1, <1>2, <1>3, <1>4, <1>5 DEF Public, TestedLanding

\* What the publisher works on.
LEMMA AtWork ==
  ASSUME ReleaseInv, publisher # Resting
  PROVE  /\ Public(publisher.source) /\ publisher.source \in 1..Tip /\ publisher.source # 0
         /\ Version \in Packages /\ Version = Tree(publisher.source).package
<1>1. Public(publisher.source) /\ publisher.source \in 1..Tip
  BY DEF ReleaseInv, PublicInv, Public
<1>2. publisher.source # 0
  BY <1>1, Elements DEF ReleaseInv
<1>3. Version \in Packages
  BY <1>1 DEF ReleaseInv, TreesInv, Sane, Version
<1> QED BY <1>1, <1>2, <1>3 DEF Version

LEMMA PublisherStep ==
  ASSUME ReleaseInv, [Next]_vars, MainGrows, LandedKept, StoreGrows
  PROVE  /\ publisher' # Resting => Public(publisher.source)'
         /\ publisher'.pc \in Tagged => (releases[Version].tag = publisher.source)'
<1>0. TypeInv /\ publisher \in PublisherSet /\ Resting.pc = "idle" /\ PublicInv
      /\ releases \in [Packages -> ReleaseSet]
  BY DEF ReleaseInv, TypeInv, Resting
<1>1. ASSUME NEW c \in 1..Tip, Eligible(c), publisher'.source = c
      PROVE  Public(publisher.source)'
  <2>1. Public(c)'
    BY <1>1, EligibleIsPublic, PublicKept
  <2> QED BY <1>1, <2>1 DEF Public, TestedLanding, Replaced
<1>2. ASSUME publisher # Resting, publisher'.source = publisher.source
      PROVE  Public(publisher.source)'
  <2>1. PICK c : c = publisher.source
    OBVIOUS
  <2>2. Public(c)
    BY <1>2, <2>1, AtWork
  <2>3. Public(c)'
    BY <2>2, PublicKept
  <2> QED BY <1>2, <2>1, <2>3 DEF Public, TestedLanding, Replaced
<1>3. ASSUME publisher # Resting, publisher'.source = publisher.source,
             releases'[Version].tag = publisher.source
      PROVE  (releases[Version].tag = publisher.source)'
  <2>1. PICK c, v : c = publisher.source /\ v = Version
    OBVIOUS
  <2>2. c \in 1..Tip /\ v = Tree(c).package
    BY <1>3, <2>1, AtWork
  <2>3. main'[c].tree = Tree(c)
    BY <2>2 DEF MainGrows, Tree
  <2>4. Version' = v
    BY <1>3, <2>1, <2>2, <2>3 DEF Version, Tree
  <2> QED BY <1>3, <2>1, <2>4
<1>4. ASSUME publisher.pc \in Tagged
      PROVE  publisher # Resting /\ releases'[Version].tag = publisher.source
  <2>1. publisher # Resting
    BY <1>0, <1>4 DEF Tagged
  <2>2. releases[Version].tag = publisher.source /\ Version \in Packages /\ publisher.source # 0
    BY <1>0, <1>4, <2>1, AtWork DEF PublicInv
  <2>3. PICK v : v = Version
    OBVIOUS
  <2>4. releases'[v].tag = releases[v].tag
    BY <2>2, <2>3 DEF StoreGrows
  <2> QED BY <2>1, <2>2, <2>3, <2>4
<1>5. CASE publisher' = Resting
  BY <1>0, <1>5 DEF Tagged
<1>6. CASE publisher' = publisher
  BY <1>2, <1>3, <1>4, <1>6
<1>7. CASE publisher.pc \in Tagged /\ publisher'.source = publisher.source
  BY <1>2, <1>3, <1>4, <1>7
<1>8. ASSUME NEW c \in 1..Tip, Prepare(c)
      PROVE  \/ publisher' = publisher
             \/ Public(publisher.source)' /\ publisher'.pc \notin Tagged
  <2>1. \/ publisher' = publisher
        \/ /\ Eligible(c)
           /\ \E head : publisher' = [pc |-> "release", source |-> c, head |-> head,
                                      published |-> Published(Tree(c).package) = Files]
    BY <1>8 DEF Prepare
  <2>2. \/ publisher' = publisher
        \/ Eligible(c) /\ publisher'.source = c /\ publisher'.pc = "release"
    BY <2>1
  <2> QED BY <1>1, <2>2 DEF Tagged
<1>9. CASE CreatesTag
  <2>1. publisher.pc = "tag" /\ publisher # Resting
    BY <1>0, <1>9 DEF CreatesTag
  <2>2. publisher'.source = publisher.source
    BY <1>0, <1>9 DEF CreatesTag, PublisherSet
  <2>3. PICK v, c : v = Version /\ c = IF releases[v].tag = 0 THEN publisher.source ELSE releases[v].tag
    OBVIOUS
  <2>4. v \in Packages /\ releases' = [releases EXCEPT ![v].tag = c]
    BY <1>9, <2>1, <2>3, AtWork DEF CreatesTag
  <2>5. releases[v] \in ReleaseSet
    BY <1>0, <2>4
  <2>6. releases'[v].tag = c
    BY <1>0, <2>4, <2>5 DEF ReleaseSet
  <2>7. c = publisher.source
    BY <1>0, <2>1, <2>3 DEF PublicInv
  <2> QED BY <1>2, <1>3, <2>1, <2>2, <2>3, <2>6, <2>7
<1>10. CASE UploadAsset \/ Preflight \/ Upload \/ VerifyPublication
  <2>1. publisher.pc \in Tagged
    BY <1>10 DEF UploadAsset, Preflight, Upload, VerifyPublication, Tagged
  <2>2. publisher'.source = publisher.source
    BY <1>0, <1>10 DEF UploadAsset, Preflight, Upload, VerifyPublication, Goes, PublisherSet
  <2> QED BY <1>7, <2>1, <2>2
<1>14. CASE GithubRelease
  <2>1. publisher.pc = "release" /\ publisher # Resting /\ releases' = releases
    BY <1>0, <1>14 DEF GithubRelease, Goes
  <2>2. publisher'.source = publisher.source /\ publisher'.pc = "tag"
    BY <1>0, <1>14 DEF GithubRelease, Goes, PublisherSet
  <2> QED BY <1>2, <2>1, <2>2 DEF Tagged
<1>11. CASE MovesLatest \/ Refused \/ PublisherFails
  BY <1>5, <1>11 DEF MovesLatest, Refused, PublisherFails, Rests
<1>12. CASE Outside \/ UNCHANGED vars
  BY <1>6, <1>12 DEF Outside, vars, HubReleases, Push, Edit, MergedByHand, CandidateCI, CandidateRerun,
                     MainCI, MainRerun
<1>13. CASE Decides \/ Reconcile \/ AdapterFails \/ (\E r \in runs : Publication(r)) \/ Reporting
  BY <1>6, <1>13 DEF Decides, Reconcile, AdapterFails, Publication, Reporting, Reports, Retains, World, Pushes,
                     Opens, Supersedes, Inspects, UpdatesBranch, Records, Merges
<1> QED BY <1>6, <1>8, <1>9, <1>10, <1>11, <1>12, <1>13, <1>14 DEF Next, Publish

\* Only the tag step creates tags, and only retain() keeps receipts.
LEMMA ReleasesMove ==
  ASSUME TypeInv, [Next]_vars
  PROVE  /\ CreatesTag \/ \A v \in Packages : releases'[v].tag = releases[v].tag
         /\ Retains \/ \A v \in Packages : releases'[v].receipt = releases[v].receipt
<1>0. releases \in [Packages -> ReleaseSet]
  BY DEF TypeInv
<1>1. CASE releases' = releases
  BY <1>1
<1>2. CASE CreatesTag
  <2>1. PICK u, c : releases' = [releases EXCEPT ![u].tag = c]
    BY <1>2 DEF CreatesTag
  <2>2. \A v \in Packages : releases'[v].receipt = releases[v].receipt
    BY <1>0, <2>1 DEF ReleaseSet
  <2> QED BY <1>2, <2>2
<1>3. CASE UploadAsset
  <2>1. PICK u, f, c : releases' = releases \/ releases' = [releases EXCEPT ![u].assets[f] = c]
    BY <1>3 DEF UploadAsset
  <2>2. \A v \in Packages : releases'[v].receipt = releases[v].receipt /\ releases'[v].tag = releases[v].tag
    BY <1>0, <2>1 DEF ReleaseSet
  <2> QED BY <2>2
<1>4. CASE Retains
  <2>1. PICK u, c : releases' = releases \/ releases' = [releases EXCEPT ![u].receipt = c]
    BY <1>4 DEF Retains
  <2>2. \A v \in Packages : releases'[v].tag = releases[v].tag
    BY <1>0, <2>1 DEF ReleaseSet
  <2> QED BY <1>4, <2>2
<1>5. CASE Outside \/ UNCHANGED vars
  BY <1>1, <1>5 DEF Outside, vars, HubReleases, Push, Edit, MergedByHand, CandidateCI, CandidateRerun,
                    MainCI, MainRerun
<1>6. CASE \/ (\E c \in 1..Tip : Prepare(c)) \/ GithubRelease \/ Preflight \/ Upload \/ VerifyPublication
           \/ MovesLatest \/ Refused \/ PublisherFails
  BY <1>1, <1>6 DEF Prepare, GithubRelease, Preflight, Upload, VerifyPublication, MovesLatest, Refused,
                    PublisherFails, Goes
<1>7. CASE Decides \/ Reconcile \/ AdapterFails \/ (\E r \in runs : Publication(r)) \/ Reports
  BY <1>1, <1>7 DEF Decides, Reconcile, AdapterFails, Publication, Reports, World, Pushes, Opens, Supersedes,
                    Inspects, UpdatesBranch, Records, Merges
<1> QED BY <1>2, <1>3, <1>4, <1>5, <1>6, <1>7 DEF Next, Publish, Reporting

\* How the publisher comes to the steps that write after a check.
LEMMA PublisherChecks ==
  ASSUME TypeInv, [Next]_vars, publisher'.pc \in {"tag", "latest"}
  PROVE  \/ publisher' = publisher /\ latest' = latest /\ ~ CreatesTag
         \/ GithubRelease /\ publisher'.pc = "tag"
         \/ VerifyPublication /\ publisher'.pc = "latest"
<1>0. publisher \in PublisherSet /\ Resting.pc = "idle"
  BY DEF TypeInv, Resting
<1>g. ASSUME NEW pc, Goes(pc) PROVE publisher'.pc = pc
  BY <1>0, <1>g DEF Goes, PublisherSet
<1>1. CASE Outside \/ UNCHANGED vars
  <2>1. UNCHANGED <<publisher, latest, releases>>
    BY <1>1 DEF Outside, vars, HubReleases, Push, Edit, MergedByHand, CandidateCI, CandidateRerun,
                MainCI, MainRerun
  <2>2. ~ CreatesTag
    <3>1. CreatesTag => publisher.pc = "tag" /\ publisher'.pc = "assets"
      BY <1>0 DEF CreatesTag, PublisherSet
    <3> QED BY <2>1, <3>1
  <2> QED BY <2>1, <2>2
<1>2. CASE Decides \/ Reconcile \/ AdapterFails \/ (\E r \in runs : Publication(r)) \/ Reporting
  <2>1. UNCHANGED <<publisher, latest>>
    BY <1>2 DEF Decides, Reconcile, AdapterFails, Publication, Reporting, Reports, Retains, World, Pushes,
                Opens, Supersedes, Inspects, UpdatesBranch, Records, Merges
  <2>2. ~ CreatesTag
    <3>1. CreatesTag => publisher.pc = "tag" /\ publisher'.pc = "assets"
      BY <1>0 DEF CreatesTag, PublisherSet
    <3> QED BY <2>1, <3>1
  <2> QED BY <2>1, <2>2
<1>3. ASSUME NEW c \in 1..Tip, Prepare(c) PROVE publisher' = publisher /\ latest' = latest /\ ~ CreatesTag
  <2>1. publisher = Resting /\ latest' = latest
    BY <1>3 DEF Prepare
  <2>2. publisher' = publisher \/ publisher'.pc = "release"
    BY <1>3 DEF Prepare
  <2> QED BY <1>0, <2>1, <2>2 DEF CreatesTag
<1>4. CASE GithubRelease
  BY <1>4, <1>g DEF GithubRelease
<1>5. CASE VerifyPublication
  BY <1>5, <1>g DEF VerifyPublication
<1>6. CASE Preflight
  BY <1>6, <1>g DEF Preflight
<1>7. CASE CreatesTag \/ UploadAsset \/ Upload
  <2>1. publisher'.pc \in {"assets", "preflight", "upload", "verify"}
    BY <1>0, <1>7 DEF CreatesTag, UploadAsset, Upload, PublisherSet
  <2> QED BY <2>1
<1>8. CASE MovesLatest \/ Refused \/ PublisherFails
  BY <1>0, <1>8 DEF MovesLatest, Refused, PublisherFails, Rests
<1> QED BY <1>1, <1>2, <1>3, <1>4, <1>5, <1>6, <1>7, <1>8 DEF Next, Publish

\* What a check found still holds when the publisher writes.
LEMMA ChecksHold ==
  ASSUME ReleaseInv, TypeInv', [Next]_vars, MainGrows, StoreGrows
  PROVE  /\ publisher'.pc = "tag" => (releases[Version].tag \in {0, publisher.source})'
         /\ publisher'.pc = "latest" =>
              (latest <= Version /\ \A f \in Files : pypi[Version][f] = publisher.source)'
<1> SUFFICES ASSUME publisher'.pc \in {"tag", "latest"}
             PROVE  /\ publisher'.pc = "tag" => (releases[Version].tag \in {0, publisher.source})'
                    /\ publisher'.pc = "latest" =>
                         (latest <= Version /\ \A f \in Files : pypi[Version][f] = publisher.source)'
  OBVIOUS
<1>0. TypeInv /\ PublicInv /\ Resting.pc = "idle" /\ publisher \in PublisherSet
  BY DEF ReleaseInv, TypeInv, Resting
<1>1. PICK c, v : c = publisher.source /\ v = Version
  OBVIOUS
<1>2. /\ publisher # Resting /\ publisher'.source = c /\ latest' = latest
      /\ publisher'.pc = "tag" => ~ CreatesTag /\ releases[v].tag \in {0, c}
      /\ publisher'.pc = "latest" => latest <= v /\ \A f \in Files : pypi[v][f] = c
  <2>1. CASE publisher' = publisher /\ latest' = latest /\ ~ CreatesTag
    BY <1>0, <1>1, <2>1 DEF PublicInv
  <2>2. CASE GithubRelease /\ publisher'.pc = "tag"
    <3>1. publisher.pc = "release" /\ releases[v].tag \in {0, c} /\ Goes("tag")
      BY <1>1, <2>2 DEF GithubRelease
    <3>2. ~ CreatesTag
      BY <3>1 DEF CreatesTag
    <3> QED BY <1>0, <1>1, <2>2, <3>1, <3>2 DEF Goes, PublisherSet
  <2>3. CASE VerifyPublication /\ publisher'.pc = "latest"
    <3>1. /\ publisher.pc = "verify" /\ \A f \in Files : pypi[v][f] = c
          /\ Goes("latest") /\ Tree(Tip) = Tree(c)
      BY <1>1, <2>3 DEF VerifyPublication, Wanted, CurrentIntent
    <3>2. latest <= v
      BY <1>0, <1>1, <3>1 DEF PublicInv, Version
    <3> QED BY <1>0, <1>1, <2>3, <3>1, <3>2 DEF Goes, PublisherSet
  <2> QED BY <1>0, <2>1, <2>2, <2>3, PublisherChecks
<1>3. c \in 1..Tip /\ c # 0 /\ v = Tree(c).package /\ v \in Packages /\ main'[c].tree = Tree(c)
  BY <1>1, <1>2, AtWork DEF MainGrows, Tree
<1>4. Version' = v
  BY <1>2, <1>3 DEF Version, Tree
<1>5. publisher'.pc = "tag" => releases'[v].tag = releases[v].tag
  BY <1>0, <1>2, <1>3, ReleasesMove
<1>6. (\A f \in Files : pypi[v][f] = c) => \A f \in Files : pypi'[v][f] = c
  BY <1>3 DEF StoreGrows
<1> QED BY <1>2, <1>4, <1>5, <1>6

LEMMA RunsStep ==
  ASSUME ReleaseInv, [Next]_vars, MainGrows, StoreGrows
  PROVE  \A r \in runs' : /\ r.source \in 1..Len(main') /\ main'[r.source].pr # Nobody
                          /\ r.ok => \A f \in Files : pypi'[main'[r.source].tree.package][f] = r.source
<1>0. /\ TypeInv /\ PublicInv /\ TreesInv /\ Resting.pc = "idle" /\ 1..Tip \subseteq 1..Len(main')
      /\ \A c \in 1..Tip : c # 0 /\ main'[c].tree = Tree(c) /\ main'[c].pr = main[c].pr
  <2>1. Tip \in Nat
    BY Elements DEF ReleaseInv
  <2> QED BY <2>1 DEF ReleaseInv, Resting, MainGrows, Tree
<1> DEFINE Good(r) == /\ r.source \in 1..Len(main') /\ main'[r.source].pr # Nobody
                      /\ r.ok => \A f \in Files : pypi'[main'[r.source].tree.package][f] = r.source
<1>1. ASSUME NEW c \in 1..Tip, main[c].pr # Nobody, NEW ok, NEW head,
             ok => \A f \in Files : pypi[Tree(c).package][f] = c
      PROVE  Good([source |-> c, ok |-> ok, head |-> head])
  <2>1. PICK v : v = Tree(c).package /\ v \in Packages
    BY <1>0 DEF TreesInv, Sane
  <2>2. ok => \A f \in Files : pypi'[v][f] = c
    BY <1>0, <1>1, <2>1 DEF StoreGrows
  <2> QED BY <1>0, <1>1, <2>1, <2>2
<1>2. ASSUME NEW r \in runs PROVE Good(r)
  <2>1. PICK c, v : c = r.source /\ v = Tree(c).package
    OBVIOUS
  <2>2. /\ c \in 1..Tip /\ main[c].pr # Nobody /\ v \in Packages
        /\ r.ok => \A f \in Files : pypi[v][f] = c
    BY <1>0, <2>1 DEF PublicInv, TreesInv, Sane
  <2>3. r.ok => \A f \in Files : pypi'[v][f] = c
    BY <1>0, <2>2 DEF StoreGrows
  <2> QED BY <1>0, <2>1, <2>2, <2>3
<1>3. CASE runs' = runs
  BY <1>2, <1>3
<1>4. ASSUME NEW c \in 1..Tip, main[c].pr # Nobody, NEW ok, NEW head,
             ok => \A f \in Files : pypi[Tree(c).package][f] = c,
             runs' = runs \cup {[source |-> c, ok |-> ok, head |-> head]}
      PROVE  \A r \in runs' : Good(r)
  <2>1. Good([source |-> c, ok |-> ok, head |-> head])
    BY <1>1, <1>4
  <2> HIDE DEF Good
  <2> QED BY <1>2, <1>4, <2>1
<1>5. ASSUME NEW c \in 1..Tip, Prepare(c) PROVE \A r \in runs' : Good(r)
  <2>1. /\ main[c].pr # Nobody
        /\ runs' = runs \/ runs' = runs \cup {[source |-> c, ok |-> FALSE, head |-> 0]}
    BY <1>5 DEF Prepare
  <2> HIDE DEF Good
  <2> QED BY <1>2, <1>4, <2>1
<1>6. ASSUME publisher # Resting, Completed(FALSE) PROVE \A r \in runs' : Good(r)
  <2>1. PICK c : c = publisher.source
    OBVIOUS
  <2>2. /\ c \in 1..Tip /\ main[c].pr # Nobody
        /\ runs' = runs \cup {[source |-> c, ok |-> FALSE, head |-> 0]}
    BY <1>6, <2>1, AtWork DEF Completed, Public
  <2> HIDE DEF Good
  <2> QED BY <1>4, <2>2
<1>7. CASE MovesLatest
  <2>1. PICK c, head : c = publisher.source /\ head = publisher.head
    OBVIOUS
  <2>2. publisher # Resting
    BY <1>0, <1>7 DEF MovesLatest
  <2>3. /\ c \in 1..Tip /\ main[c].pr # Nobody
        /\ \A f \in Files : pypi[Tree(c).package][f] = c
    BY <1>0, <1>7, <2>1, <2>2, AtWork DEF MovesLatest, PublicInv, Public, Version
  <2>4. PICK ok : ok = TRUE
    OBVIOUS
  <2>5. runs' = runs \cup {[source |-> c, ok |-> ok, head |-> head]}
    BY <1>7, <2>1, <2>4 DEF MovesLatest, Completed
  <2> HIDE DEF Good
  <2>6. \A r \in runs' : Good(r)
    BY <1>4, <2>3, <2>5
  <2> QED BY <2>6 DEF Good
<1>8. CASE Refused \/ PublisherFails
  <2>1. publisher # Resting /\ Completed(FALSE)
    BY <1>0, <1>8 DEF Refused, PublisherFails
  <2> QED BY <1>6, <2>1
<1>9. CASE \/ GithubRelease \/ CreatesTag \/ UploadAsset \/ Preflight \/ Upload \/ VerifyPublication
           \/ Outside \/ UNCHANGED vars
  BY <1>3, <1>9 DEF Outside, vars, HubReleases, Push, Edit, MergedByHand, CandidateCI, CandidateRerun,
                    MainCI, MainRerun, GithubRelease, CreatesTag, UploadAsset, Preflight, Upload,
                    VerifyPublication, Goes
<1>10. CASE Decides \/ Reconcile \/ AdapterFails \/ (\E r \in runs : Publication(r)) \/ Reporting
  BY <1>3, <1>10 DEF Decides, Reconcile, AdapterFails, Publication, Reporting, Reports, Retains, World, Pushes,
                     Opens, Supersedes, Inspects, UpdatesBranch, Records, Merges
<1> QED BY <1>5, <1>7, <1>8, <1>9, <1>10 DEF Next, Publish

\* What is public under a version, step by step.
Store(v) ==
  LET c == releases[v].tag IN
  /\ releases[v].receipt \in Known
  /\ \A f \in Files : pypi[v][f] \in {0, c} /\ releases[v].assets[f] \in {0, c}
  /\ c # 0 => /\ c \in 1..Tip /\ Tree(c).package = v
              /\ main[c].pr # Nobody => Public(c)

\* A version whose tag, files and assets stay.
LEMMA StoreKept ==
  ASSUME ReleaseInv, MainGrows, LandedKept, StoreGrows, NEW v \in Packages,
         releases'[v].tag = releases[v].tag, releases'[v].receipt \in Known',
         \A f \in Files : /\ pypi'[v][f] \in {0, releases[v].tag}
                          /\ releases'[v].assets[f] \in {0, releases[v].tag}
  PROVE  Store(v)'
<1>1. PICK c : c = releases[v].tag
  OBVIOUS
<1>2. c # 0 => c \in 1..Tip /\ Tree(c).package = v /\ (main[c].pr # Nobody => Public(c))
  BY <1>1 DEF ReleaseInv, PublicInv
<1>3. Public(c) => Public(c)'
  BY PublicKept
<1>4. c \in 1..Tip => main'[c].tree = Tree(c) /\ main'[c].pr = main[c].pr /\ c \in 1..Len(main')
  <2>1. Tip \in Nat
    BY Elements DEF ReleaseInv
  <2> QED BY <2>1 DEF MainGrows, Tree
<1>5. c # 0 => c \in 1..Len(main') /\ main'[c].tree.package = v /\ (main'[c].pr # Nobody => Public(c)')
  BY <1>2, <1>3, <1>4
<1> QED BY <1>1, <1>5 DEF Store, Tip, Tree, Public, TestedLanding, Replaced

LEMMA StoreStep ==
  ASSUME ReleaseInv, TypeInv', [Next]_vars, MainGrows, LandedKept, StoreGrows
  PROVE  \A v \in Packages : Store(v)'
<1>0. /\ TypeInv /\ PublicInv /\ JobInv /\ TreesInv /\ Resting.pc = "idle" /\ Known \subseteq Known'
      /\ releases \in [Packages -> ReleaseSet] /\ pypi \in [Packages -> [Files -> Nat]]
      /\ \A v \in Packages : releases[v] \in ReleaseSet /\ releases[v].assets \in [Files -> Nat]
  BY DEF ReleaseInv, Resting, TypeInv, StoreGrows, Known, ReleaseSet
<1>1. \A v \in Packages :
        /\ releases[v].receipt \in Known'
        /\ \A f \in Files : pypi[v][f] \in {0, releases[v].tag} /\ releases[v].assets[f] \in {0, releases[v].tag}
  BY <1>0 DEF PublicInv
<1>2. CASE UNCHANGED <<releases, pypi>>
  BY <1>1, <1>2, StoreKept
<1>3. CASE CreatesTag
  <2>1. publisher # Resting /\ publisher.pc = "tag"
    BY <1>0, <1>3 DEF CreatesTag
  <2>2. PICK c, v : c = publisher.source /\ v = Version
    OBVIOUS
  <2>3. /\ v \in Packages /\ Public(c) /\ c \in 1..Tip /\ v = Tree(c).package /\ releases[v].tag \in {0, c}
        /\ releases' = [releases EXCEPT ![v].tag = c] /\ pypi' = pypi
    <3>1. releases[v].tag \in {0, c}
      BY <1>0, <2>1, <2>2 DEF PublicInv
    <3>2. (IF releases[v].tag = 0 THEN c ELSE releases[v].tag) = c
      BY <3>1
    <3>3. releases' = [releases EXCEPT ![v].tag = c] /\ pypi' = pypi
      BY <1>3, <2>2, <3>2 DEF CreatesTag
    <3> QED BY <2>1, <2>2, <3>1, <3>3, AtWork
  <2>4. ASSUME NEW u \in Packages, u # v PROVE Store(u)'
    <3>1. releases'[u] = releases[u] /\ pypi'[u] = pypi[u]
      BY <1>0, <2>3, <2>4
    <3> QED BY <1>1, <3>1, StoreKept
  <2>5. Store(v)'
    <3>1. releases'[v] = [releases[v] EXCEPT !.tag = c]
      BY <1>0, <2>3
    <3>2. /\ releases'[v].tag = c /\ releases'[v].receipt = releases[v].receipt
          /\ releases'[v].assets = releases[v].assets
      BY <1>0, <2>3, <3>1 DEF ReleaseSet
    <3>3. /\ releases'[v].receipt \in Known'
          /\ \A f \in Files : pypi'[v][f] \in {0, c} /\ releases'[v].assets[f] \in {0, c}
      BY <1>1, <2>3, <3>2
    <3>4. Public(c)'
      BY <2>3, PublicKept
    <3>5. c \in 1..Len(main') /\ main'[c].tree = Tree(c)
      BY <2>3, <3>4 DEF MainGrows, Public, Tip, Tree
    <3> QED BY <2>3, <3>2, <3>3, <3>4, <3>5 DEF Store, Tip, Tree, Public, TestedLanding, Replaced
  <2> QED BY <2>4, <2>5
<1>4. CASE UploadAsset
  <2>1. CASE releases' = releases
    BY <1>2, <1>4, <2>1 DEF UploadAsset
  <2>2. CASE releases' # releases
    <3>1. publisher.pc \in Tagged /\ publisher # Resting
      BY <1>0, <1>4 DEF UploadAsset, Tagged
    <3>2. PICK c, v, g : /\ c = publisher.source /\ v = Version
                         /\ g = First({f \in Files : releases[Version].assets[f] = 0})
      OBVIOUS
    <3>3. /\ v \in Packages /\ releases[v].tag = c /\ g \in Files
          /\ releases' = [releases EXCEPT ![v].assets[g] = c] /\ pypi' = pypi
      <4>1. g \in Files
        BY <3>2 DEF First, Files
      <4>2. releases' = [releases EXCEPT ![v].assets[g] = c] /\ pypi' = pypi
        BY <1>4, <2>2, <3>2 DEF UploadAsset
      <4> QED BY <1>0, <3>1, <3>2, <4>1, <4>2, AtWork DEF PublicInv
    <3>4. ASSUME NEW u \in Packages, u # v PROVE Store(u)'
      <4>1. releases'[u] = releases[u] /\ pypi'[u] = pypi[u]
        BY <1>0, <3>3, <3>4
      <4> QED BY <1>1, <4>1, StoreKept
    <3>5. Store(v)'
      <4>1. releases'[v] = [releases[v] EXCEPT !.assets = [releases[v].assets EXCEPT ![g] = c]]
        BY <1>0, <3>3
      <4>2. /\ releases'[v].tag = releases[v].tag /\ releases'[v].receipt = releases[v].receipt
            /\ releases'[v].assets = [releases[v].assets EXCEPT ![g] = c]
        BY <1>0, <3>3, <4>1 DEF ReleaseSet
      <4>3. \A f \in Files : releases'[v].assets[f] \in {0, releases[v].tag}
        BY <1>0, <1>1, <3>3, <4>2
      <4> QED BY <1>1, <3>3, <4>2, <4>3, StoreKept
    <3> QED BY <3>4, <3>5
  <2> QED BY <2>1, <2>2
<1>5. CASE Upload /\ pypi' # pypi
  <2>1. publisher.pc \in Tagged /\ publisher # Resting
    BY <1>0, <1>5 DEF Upload, Tagged
  <2>2. PICK c, v, g : /\ c = publisher.source /\ v = Version /\ g \in Files
                       /\ pypi' = [pypi EXCEPT ![v][g] = c] /\ releases' = releases
    <3>1. \A files : First(files) \in Files
      BY DEF First, Files
    <3> QED BY <1>5, <3>1 DEF Upload
  <2>3. v \in Packages /\ releases[v].tag = c
    BY <1>0, <2>1, <2>2, AtWork DEF PublicInv
  <2>4. ASSUME NEW u \in Packages PROVE Store(u)'
    <3>1. CASE u # v
      <4>1. pypi'[u] = pypi[u]
        BY <1>0, <2>2, <3>1
      <4> QED BY <1>1, <2>2, <4>1, StoreKept
    <3>2. CASE u = v
      <4>1. pypi'[u] = [pypi[u] EXCEPT ![g] = c] /\ pypi[u] \in [Files -> Nat]
        BY <1>0, <2>2, <3>2
      <4>2. \A f \in Files : pypi'[u][f] \in {0, releases[u].tag}
        BY <1>1, <2>3, <3>2, <4>1
      <4> QED BY <1>1, <2>2, <4>2, StoreKept
    <3> QED BY <3>1, <3>2
  <2> QED BY <2>4
<1>6. CASE Retains
  <2>1. CASE releases' = releases
    BY <1>2, <1>6, <2>1 DEF Retains
  <2>2. CASE releases' # releases
    <3>1. PICK v : v = Landing(job.pr).package
      OBVIOUS
    <3>2. releases' = [releases EXCEPT ![v].receipt = job.event] /\ pypi' = pypi
      BY <1>6, <2>2, <3>1 DEF Retains
    <3>3. job.event \in Known'
      <4>1. job.event \in ready
        BY <1>0, <1>6 DEF JobInv, Retains
      <4> QED BY <1>0, <4>1 DEF Known
    <3>4. ASSUME NEW u \in Packages PROVE Store(u)'
      <4>1. releases'[u] = IF u = v THEN [releases[u] EXCEPT !.receipt = job.event] ELSE releases[u]
        BY <1>0, <3>2
      <4>2. /\ releases'[u].tag = releases[u].tag /\ releases'[u].assets = releases[u].assets
            /\ releases'[u].receipt \in {releases[u].receipt, job.event}
        BY <1>0, <4>1 DEF ReleaseSet
      <4>3. releases'[u].receipt \in Known'
        BY <1>1, <3>3, <4>2
      <4> QED BY <1>1, <3>2, <4>2, <4>3, StoreKept
    <3> QED BY <3>4
  <2> QED BY <2>1, <2>2
<1>7. CASE Outside \/ UNCHANGED vars
  BY <1>2, <1>7 DEF Outside, vars, HubReleases, Push, Edit, MergedByHand, CandidateCI, CandidateRerun,
                    MainCI, MainRerun
<1>8. CASE \/ (\E c \in 1..Tip : Prepare(c)) \/ GithubRelease \/ Preflight \/ VerifyPublication
           \/ MovesLatest \/ Refused \/ PublisherFails \/ (Upload /\ pypi' = pypi)
  BY <1>2, <1>8 DEF Prepare, GithubRelease, Preflight, VerifyPublication, MovesLatest, Refused,
                    PublisherFails, Upload, Goes
<1>9. CASE Decides \/ Reconcile \/ AdapterFails \/ (\E r \in runs : Publication(r)) \/ Reports
  BY <1>2, <1>9 DEF Decides, Reconcile, AdapterFails, Publication, Reports, World, Pushes, Opens, Supersedes,
                    Inspects, UpdatesBranch, Records, Merges
<1> QED BY <1>3, <1>4, <1>5, <1>6, <1>7, <1>8, <1>9 DEF Next, Publish, Reporting

\* Only the last step of the publisher moves the pointer, and only collect() tells the hub.
LEMMA LatestMoves ==
  ASSUME [Next]_vars
  PROVE  latest' = latest \/ MovesLatest
<1>1. CASE Outside \/ UNCHANGED vars
  BY <1>1 DEF Outside, vars, HubReleases, Push, Edit, MergedByHand, CandidateCI, CandidateRerun,
                  MainCI, MainRerun
<1>2. CASE Publish \/ PublisherFails
  BY <1>2 DEF Publish, Prepare, GithubRelease, CreatesTag, UploadAsset, Preflight, Upload,
              VerifyPublication, Refused, PublisherFails, Goes
<1>3. CASE Decides \/ Reconcile \/ AdapterFails \/ (\E r \in runs : Publication(r)) \/ Reporting
  BY <1>3 DEF Decides, Reconcile, AdapterFails, Publication, Reporting, Reports, Retains, World, Pushes,
              Opens, Supersedes, Inspects, UpdatesBranch, Records, Merges
<1> QED BY <1>1, <1>2, <1>3 DEF Next

LEMMA ToldMoves ==
  ASSUME [Next]_vars
  PROVE  told' = told \/ Reports
<1>1. CASE Outside \/ UNCHANGED vars
  BY <1>1 DEF Outside, vars, HubReleases, Push, Edit, MergedByHand, CandidateCI, CandidateRerun,
                    MainCI, MainRerun
<1>2. CASE Publish \/ PublisherFails
  BY <1>2 DEF Publish, Prepare, GithubRelease, CreatesTag, UploadAsset, Preflight, Upload,
              VerifyPublication, MovesLatest, Refused, PublisherFails, Goes
<1>3. CASE Decides \/ Reconcile \/ AdapterFails \/ (\E r \in runs : Publication(r)) \/ Retains
  BY <1>3 DEF Decides, Reconcile, AdapterFails, Publication, Retains, World, Pushes,
                    Opens, Supersedes, Inspects, UpdatesBranch, Records, Merges
<1> QED BY <1>1, <1>2, <1>3 DEF Next, Reporting

\* A kept receipt was told, and its version serves what it says.
LEMMA ReceiptsStep ==
  ASSUME ReleaseInv, TypeInv', [Next]_vars, Effects, MainGrows, StoreGrows, NEW v \in Packages,
         StoredReceipt(v)'
  PROVE  (told[releases[v].receipt] = "verified" /\ ServedAs(v, releases[v].receipt))'
<1>0. TypeInv /\ PublicInv /\ JobInv /\ ready \subseteq Events /\ releases'[v].receipt # 0
  BY DEF ReleaseInv, TypeInv, StoredReceipt
<1>1. PICK e : e = releases'[v].receipt
  OBVIOUS
<1>2. CASE e = releases[v].receipt
  <2>1. told[e] = "verified" /\ ServedAs(v, e) /\ e \in Events
    BY <1>0, <1>1, <1>2 DEF PublicInv, StoredReceipt, Known
  <2>2. told'[e] = "verified"
    <3>1. CASE told' = told
      BY <2>1, <3>1
    <3>2. CASE Reports
      <4>1. told \in [Events -> {"nothing", "progress", "verified"}]
        BY <1>0 DEF TypeInv
      <4>2. CASE MayTell(job.event, job.state)
        <5>1. job.state = "verified" \/ job.event # e
          BY <1>2, <4>2 DEF MayTell
        <5> QED BY <2>1, <3>2, <4>1, <4>2, <5>1 DEF Reports
      <4>3. CASE ~ MayTell(job.event, job.state)
        BY <2>1, <3>2, <4>3 DEF Reports
      <4> QED BY <4>2, <4>3
    <3> QED BY <3>1, <3>2, ToldMoves
  <2>3. ServedAs(v, e)'
    BY <1>0, <2>1, ServedAsKept
  <2> QED BY <1>1, <2>2, <2>3 DEF ServedAs
<1>3. CASE e # releases[v].receipt
  <2>1. Retains
    BY <1>0, <1>1, <1>3, ReleasesMove
  <2>2. PICK p, u, d : p = job.pr /\ u = Landing(job.pr).package /\ d = job.event
    OBVIOUS
  <2>3. job.state = "verified" /\ told[d] = "verified" /\ told' = told
    BY <1>0, <2>1, <2>2 DEF Retains, JobInv
  <2>4. v = u /\ e = d
    <3>1. releases' = releases \/ releases' = [releases EXCEPT ![u].receipt = d]
      BY <2>1, <2>2 DEF Retains
    <3>2. releases \in [Packages -> ReleaseSet]
      BY <1>0 DEF TypeInv
    <3> QED BY <1>1, <1>3, <3>1, <3>2 DEF ReleaseSet
  <2>5. ServedAs(v, e)
    BY <1>0, <2>2, <2>3, <2>4 DEF JobInv, ServedAs
  <2>6. ServedAs(v, e)'
    BY <1>0, <2>5, ServedAsKept
  <2> QED BY <1>1, <2>3, <2>4, <2>6 DEF ServedAs
<1> QED BY <1>2, <1>3

LEMMA PublicStep ==
  ASSUME ReleaseInv, TypeInv', TreesInv', [Next]_vars, Effects, MainGrows, LandedKept, StoreGrows
  PROVE  PublicInv'
<1>0. TypeInv /\ PublicInv /\ JobInv /\ Resting.pc = "idle"
  BY DEF ReleaseInv, Resting
<1>1. \A v \in Packages : Store(v)'
  BY StoreStep
<1>2. latest' <= main'[Len(main')].tree.package
  <2>0. latest \in Nat /\ latest <= Tree(Tip).package
    BY <1>0, Positive DEF TypeInv, PublicInv
  <2>1. CASE latest' = latest
    BY <1>0, <2>0, <2>1, TipGrows
  <2>2. CASE MovesLatest
    <3>1. publisher # Resting /\ latest' = Version
      BY <1>0, <2>2 DEF MovesLatest
    <3>2. PICK c, v : c = publisher.source /\ v = Version
      OBVIOUS
    <3>3. c \in 1..Tip /\ v = Tree(c).package /\ v \in Nat
      BY <3>1, <3>2, AtWork, Positive
    <3>4. Tree(c).package = Tree(Tip).package \/ Tree(c).package < Tree(Tip).package
      BY <3>3, Elements DEF ReleaseInv, TreesInv
    <3>5. v <= Tree(Tip).package
      BY <1>0, <3>3, <3>4, TipGrows
    <3> QED BY <1>0, <3>1, <3>2, <3>3, <3>5, TipGrows
  <2>3. latest' = latest \/ MovesLatest
    BY LatestMoves
  <2> QED BY <2>1, <2>2, <2>3
<1>3. \A e \in Events : told'[e] = "verified" => Served(e)'
  <2> SUFFICES ASSUME NEW e \in Events, told'[e] = "verified" PROVE Served(e)'
    OBVIOUS
  <2>1. Served(e)
    <3>1. CASE told'[e] = told[e]
      BY <1>0, <3>1 DEF PublicInv
    <3>2. CASE Reports /\ told'[e] # told[e]
      <4>1. e = job.event /\ job.state = "verified"
        BY <1>0, <3>2 DEF Reports, TypeInv
      <4>2. PICK v : v = Landing(job.pr).package
        OBVIOUS
      <4>3. ServedAs(v, e) /\ Merged(job.pr)
        BY <1>0, <4>1, <4>2 DEF JobInv, ServedAs
      <4>4. v \in Packages
        BY <4>2, <4>3, MergedKept
      <4> QED BY <4>3, <4>4 DEF Served
    <3>3. told' = told \/ Reports
      BY ToldMoves
    <3> QED BY <3>1, <3>2, <3>3
  <2> QED BY <1>0, <2>1, ServedKept
<1>4. /\ publisher' # Resting => Public(publisher.source)'
      /\ publisher'.pc \in Tagged => (releases[Version].tag = publisher.source)'
  BY PublisherStep
<1>5. \A r \in runs' : /\ r.source \in 1..Len(main') /\ main'[r.source].pr # Nobody
                       /\ r.ok => \A f \in Files : pypi'[main'[r.source].tree.package][f] = r.source
  BY RunsStep
<1>6. (publisher.pc \in Tagged => releases[Version].tag = publisher.source)'
  BY <1>4
<1>7. /\ (publisher.pc = "tag" => releases[Version].tag \in {0, publisher.source})'
      /\ (publisher.pc = "latest" =>
            latest <= Version /\ \A f \in Files : pypi[Version][f] = publisher.source)'
  BY ChecksHold
<1>8. (\A v \in Packages : StoredReceipt(v) => /\ told[releases[v].receipt] = "verified"
                                               /\ ServedAs(v, releases[v].receipt))'
  BY ReceiptsStep
<1> QED BY <1>1, <1>2, <1>3, <1>4, <1>5, <1>6, <1>7, <1>8 DEF PublicInv, Store, Tree, Tip

-----------------------------------------------------------------------------
(* The invariant.                                                           *)

LEMMA ReleaseStep ==
  ASSUME ReleaseInv, [Next]_vars
  PROVE  ReleaseInv'
<1>1. Effects /\ StoreGrows
  BY EffectsStep, StoreGrowsStep
<1>2. MainGrows /\ LandedKept
  BY <1>1, MainGrowsStep, LandedKeptStep
<1>3. TypeInv'
  BY TypesStep
<1>4. TreesInv' /\ OnceInv'
  BY <1>1, TreesStep, OnceStep
<1>5. BranchInv'
  BY <1>1, <1>2, BranchStep
<1>6. PrsInv'
  BY <1>1, <1>2, PrsStep
<1>7. JobInv'
  BY <1>1, <1>2, <1>3, JobStep
<1>8. PublicInv'
  BY <1>1, <1>2, <1>3, <1>4, PublicStep
<1> QED BY <1>3, <1>4, <1>5, <1>6, <1>7, <1>8 DEF ReleaseInv

\* The two ways the chain starts.
FirstTree == [package |-> 0, event |-> 1, rejected |-> {}, rollback |-> NoVersion, previous |-> NoVersion]
SecondTree == [package |-> 1, event |-> 2, rejected |-> {}, rollback |-> NoVersion, previous |-> 0]

LEMMA InitialStates ==
  ASSUME Init
  PROVE  \/ ready = {} /\ main = <<Pushed(Baseline(0))>> /\ latest = 0
            /\ \A v \in Packages : LET c == IF v = 0 THEN 1 ELSE 0 IN
                 /\ releases[v] = [tag |-> c, assets |-> [f \in Files |-> c], receipt |-> 0]
                 /\ pypi[v] = [f \in Files |-> c]
         \/ ready = {1, 2} /\ main = <<Pushed(FirstTree), Pushed(SecondTree)>> /\ latest = 1
            /\ \A v \in Packages : LET c == IF v \in {0, 1} THEN v + 1 ELSE 0 IN
                 /\ releases[v] = [tag |-> c, assets |-> [f \in Files |-> c], receipt |-> c]
                 /\ pypi[v] = [f \in Files |-> c]
<1>1. PICK start \in Starting :
        /\ ready = start.ready /\ main = start.main /\ latest = Max(start.packages)
        /\ pypi = [v \in Packages |-> [f \in Files |-> IF v \in start.packages THEN v + 1 ELSE 0]]
        /\ releases = [v \in Packages |->
             LET c == IF v \in start.packages THEN v + 1 ELSE 0 IN
             [tag |-> c, assets |-> [f \in Files |-> c],
              receipt |-> IF c = 0 THEN 0 ELSE main[c].tree.event]]
  BY DEF Init
<1>2. /\ UpdateFiles(Baseline(-1), 1, NoVersion) = FirstTree
      /\ UpdateFiles(UpdateFiles(Baseline(-1), 1, NoVersion), 2, NoVersion) = SecondTree
  BY DEF UpdateFiles, Baseline, FirstTree, SecondTree, NoVersion
<1>3. \/ start = [ready |-> {}, main |-> <<Pushed(Baseline(0))>>, packages |-> {0}]
      \/ start = [ready |-> {1, 2}, packages |-> {0, 1}, main |-> <<Pushed(FirstTree), Pushed(SecondTree)>>]
  BY <1>2 DEF Starting
<1>p. Packages \subseteq Nat
  BY Positive
<1>4. CASE start = [ready |-> {}, main |-> <<Pushed(Baseline(0))>>, packages |-> {0}]
  <2>1. ready = {} /\ main = <<Pushed(Baseline(0))>> /\ start.packages = {0}
    BY <1>1, <1>4
  <2>2. latest = 0
    <3>1. {0} \in SUBSET Nat /\ {0} # {} /\ \A y \in {0} : y <= 0
      OBVIOUS
    <3>2. Max({0}) \in {0}
      BY <3>1, MaxOfNats
    <3> QED BY <1>1, <2>1, <3>2
  <2>3. main[1].tree.event = 0
    <3>1. main[1] = Pushed(Baseline(0))
      BY <2>1
    <3> QED BY <3>1 DEF Pushed, Baseline
  <2>4. ASSUME NEW v \in Packages
        PROVE  LET c == IF v = 0 THEN 1 ELSE 0 IN
                 /\ releases[v] = [tag |-> c, assets |-> [f \in Files |-> c], receipt |-> 0]
                 /\ pypi[v] = [f \in Files |-> c]
    <3>1. PICK c : c = IF v = 0 THEN 1 ELSE 0
      OBVIOUS
    <3>2. (IF v \in start.packages THEN v + 1 ELSE 0) = c
      BY <1>p, <2>1, <3>1
    <3>3. pypi[v] = [f \in Files |-> c]
      BY <1>1, <3>2
    <3>4. releases[v] = [tag |-> c, assets |-> [f \in Files |-> c], receipt |-> IF c = 0 THEN 0 ELSE main[c].tree.event]
      BY <1>1, <3>2
    <3>5. (IF c = 0 THEN 0 ELSE main[c].tree.event) = 0
      BY <2>3, <3>1
    <3> QED BY <3>1, <3>3, <3>4, <3>5
  <2> QED BY <2>1, <2>2, <2>4
<1>5. CASE start = [ready |-> {1, 2}, packages |-> {0, 1}, main |-> <<Pushed(FirstTree), Pushed(SecondTree)>>]
  <2>1. ready = {1, 2} /\ main = <<Pushed(FirstTree), Pushed(SecondTree)>> /\ start.packages = {0, 1}
    BY <1>1, <1>5
  <2>2. latest = 1
    <3>1. {0, 1} \in SUBSET Nat /\ {0, 1} # {} /\ \A y \in {0, 1} : y <= 1
      OBVIOUS
    <3>2. Max({0, 1}) \in {0, 1} /\ \A y \in {0, 1} : Max({0, 1}) >= y
      BY <3>1, MaxOfNats
    <3>3. Max({0, 1}) = 1
      BY <3>2
    <3> QED BY <1>1, <2>1, <3>3
  <2>3. main[1].tree.event = 1 /\ main[2].tree.event = 2
    <3>1. main[1] = Pushed(FirstTree) /\ main[2] = Pushed(SecondTree)
      BY <2>1
    <3> QED BY <3>1 DEF Pushed, FirstTree, SecondTree
  <2>4. ASSUME NEW v \in Packages
        PROVE  LET c == IF v \in {0, 1} THEN v + 1 ELSE 0 IN
                 /\ releases[v] = [tag |-> c, assets |-> [f \in Files |-> c], receipt |-> c]
                 /\ pypi[v] = [f \in Files |-> c]
    <3>1. PICK c : c = IF v \in {0, 1} THEN v + 1 ELSE 0
      OBVIOUS
    <3>2. (IF v \in start.packages THEN v + 1 ELSE 0) = c
      BY <2>1, <3>1
    <3>3. pypi[v] = [f \in Files |-> c]
      BY <1>1, <3>2
    <3>4. releases[v] = [tag |-> c, assets |-> [f \in Files |-> c], receipt |-> IF c = 0 THEN 0 ELSE main[c].tree.event]
      BY <1>1, <3>2
    <3>5. (IF c = 0 THEN 0 ELSE main[c].tree.event) = c
      BY <2>3, <3>1
    <3> QED BY <3>1, <3>3, <3>4, <3>5
  <2> QED BY <2>1, <2>2, <2>4
<1> QED BY <1>3, <1>4, <1>5

\* What the initial states have in common.
LEMMA InitialTrees ==
  ASSUME Init
  PROVE  /\ main \in Seq(CommitSet) /\ Tip \in Nat \ {0} /\ ready \in SUBSET Events
         /\ \A c \in 1..Tip : main[c].pr = Nobody
         /\ TreesInv /\ OnceInv
         /\ latest \in Packages /\ latest <= Tree(Tip).package
         /\ \A e \in ready : Served(e)
         /\ \A v \in Packages : StoredReceipt(v) =>
              releases[v].receipt \in ready /\ ServedAs(v, releases[v].receipt)
         /\ \A v \in Packages :
              LET c == releases[v].tag IN
              /\ releases[v] \in ReleaseSet /\ pypi[v] \in [Files -> Nat]
              /\ releases[v].receipt \in Known
              /\ \A f \in Files : pypi[v][f] \in {0, c} /\ releases[v].assets[f] \in {0, c}
              /\ c # 0 => c \in 1..Tip /\ Tree(c).package = v
<1>0. /\ Packages \subseteq Nat /\ 0 \in Packages /\ 1 \in Packages /\ ready \in SUBSET Events
      /\ Files = {"wheel", "sdist"}
  BY Positive DEF Init, Files
<1>1. CASE /\ ready = {} /\ main = <<Pushed(Baseline(0))>> /\ latest = 0
           /\ \A v \in Packages : LET c == IF v = 0 THEN 1 ELSE 0 IN
                /\ releases[v] = [tag |-> c, assets |-> [f \in Files |-> c], receipt |-> 0]
                /\ pypi[v] = [f \in Files |-> c]
  <2>1. /\ Tip = 1 /\ main[1] = Pushed(Baseline(0)) /\ main[1].pr = Nobody /\ main[1].tree = Baseline(0)
        /\ Tree(1) = Baseline(0)
    BY <1>1 DEF Tip, Pushed, Tree
  <2>2. /\ Baseline(0).package = 0 /\ Baseline(0).event = 0 /\ Baseline(0).rejected = {}
        /\ Baseline(0).previous = -1 /\ Baseline(0) \in TreeSet
    BY DEF Baseline, NoVersion, TreeSet
  <2>3. main \in Seq(CommitSet)
    <3>1. Pushed(Baseline(0)) \in CommitSet
      BY <2>2 DEF Pushed, CommitSet, Status, Nobody
    <3> QED BY <1>1, <3>1
  <2>4. Sane(Tree(1))
    BY <1>0, <2>1, <2>2 DEF Sane, Known
  <2>5. 1..Tip = {1} /\ 2..Tip = {} /\ 1..1 = {1}
    BY <2>1
  <2>6. TreesInv
    BY <2>1, <2>2, <2>4, <2>5 DEF TreesInv
  <2>o. OnceInv
    BY <2>5 DEF OnceInv
  <2>7. ASSUME NEW v \in Packages
        PROVE  LET c == releases[v].tag IN
               /\ releases[v] \in ReleaseSet /\ pypi[v] \in [Files -> Nat]
               /\ releases[v].receipt \in Known
               /\ \A f \in Files : pypi[v][f] \in {0, c} /\ releases[v].assets[f] \in {0, c}
               /\ c # 0 => c \in 1..Tip /\ Tree(c).package = v
    <3>1. PICK c : c = IF v = 0 THEN 1 ELSE 0
      OBVIOUS
    <3>2. /\ releases[v] = [tag |-> c, assets |-> [f \in Files |-> c], receipt |-> 0]
          /\ pypi[v] = [f \in Files |-> c] /\ c \in Nat
      BY <1>1, <3>1
    <3>3. c # 0 => c \in 1..Tip /\ Tree(c).package = v
      BY <2>1, <2>2, <3>1
    <3> QED BY <3>2, <3>3 DEF ReleaseSet, Known
  <2>r. ASSUME NEW v \in Packages PROVE ~ StoredReceipt(v)
    <3>1. PICK c : c = IF v = 0 THEN 1 ELSE 0
      OBVIOUS
    <3>2. releases[v] = [tag |-> c, assets |-> [f \in Files |-> c], receipt |-> 0]
      BY <1>1, <3>1
    <3> QED BY <3>2 DEF StoredReceipt
  <2> QED BY <1>0, <1>1, <2>1, <2>2, <2>3, <2>5, <2>6, <2>7, <2>o, <2>r
<1>2. CASE /\ ready = {1, 2} /\ main = <<Pushed(FirstTree), Pushed(SecondTree)>> /\ latest = 1
           /\ \A v \in Packages : LET c == IF v \in {0, 1} THEN v + 1 ELSE 0 IN
                /\ releases[v] = [tag |-> c, assets |-> [f \in Files |-> c], receipt |-> c]
                /\ pypi[v] = [f \in Files |-> c]
  <2>1. /\ Tip = 2 /\ main[1].pr = Nobody /\ main[1].tree = FirstTree /\ main[2].pr = Nobody
        /\ main[2].tree = SecondTree /\ Tree(1) = FirstTree /\ Tree(2) = SecondTree
    BY <1>2 DEF Tip, Pushed, Tree
  <2>2. /\ FirstTree.package = 0 /\ FirstTree.event = 1 /\ FirstTree.rejected = {}
        /\ FirstTree.previous = 0 - 1 /\ FirstTree \in TreeSet
        /\ SecondTree.package = 1 /\ SecondTree.event = 2 /\ SecondTree.rejected = {}
        /\ SecondTree.previous = 0 /\ SecondTree \in TreeSet
    BY DEF FirstTree, SecondTree, NoVersion, TreeSet
  <2>3. main \in Seq(CommitSet)
    <3>1. Pushed(FirstTree) \in CommitSet /\ Pushed(SecondTree) \in CommitSet
      BY <2>2 DEF Pushed, CommitSet, Status, Nobody
    <3> QED BY <1>2, <3>1
  <2>4. Sane(Tree(1)) /\ Sane(Tree(2))
    BY <1>0, <1>2, <2>1, <2>2 DEF Sane, Known
  <2>5. 1..Tip = {1, 2} /\ 2..Tip = {2} /\ 1..1 = {1} /\ 1..2 = {1, 2}
    BY <2>1
  <2>6. TreesInv
    <3>1. Step(Tree(1), Tree(2))
      BY <2>1, <2>2, <2>4 DEF Step
    <3>2. \A c \in 2..Tip : Step(Tree(c - 1), Tree(c))
      BY <2>5, <3>1
    <3>3. \A d \in 1..Tip : \A c \in 1..d : Tree(c) = Tree(d) \/ Tree(c).package < Tree(d).package
      BY <2>1, <2>2, <2>5
    <3>4. \A c \in 1..Tip : Tree(c).event <= Tree(Tip).event
      BY <2>1, <2>2, <2>5
    <3> QED BY <2>4, <2>5, <3>2, <3>3, <3>4 DEF TreesInv
  <2>o. OnceInv
    BY <2>1, <2>2, <2>5 DEF OnceInv, Unseen
  <2>7. ASSUME NEW v \in Packages
        PROVE  LET c == releases[v].tag IN
               /\ releases[v] \in ReleaseSet /\ pypi[v] \in [Files -> Nat]
               /\ releases[v].receipt \in Known
               /\ \A f \in Files : pypi[v][f] \in {0, c} /\ releases[v].assets[f] \in {0, c}
               /\ c # 0 => c \in 1..Tip /\ Tree(c).package = v
    <3>1. PICK c : c = IF v \in {0, 1} THEN v + 1 ELSE 0
      OBVIOUS
    <3>0. c \in {0, 1, 2} /\ c \in Nat /\ c \in Known
      <4>1. c \in {0, 1, 2}
        BY <1>0, <3>1
      <4> QED BY <1>2, <4>1 DEF Known
    <3>2. /\ releases[v] = [tag |-> c, assets |-> [f \in Files |-> c], receipt |-> c]
          /\ pypi[v] = [f \in Files |-> c] /\ c \in Nat /\ c \in Known
      BY <1>2, <3>0, <3>1
    <3>3. c # 0 => c \in 1..Tip /\ Tree(c).package = v
      BY <2>1, <2>2, <3>1
    <3> QED BY <3>2, <3>3 DEF ReleaseSet
  <2>8. ASSUME NEW v \in {0, 1} PROVE ServedAs(v, v + 1) /\ releases[v].receipt = v + 1
    <3>1. PICK e : e = v + 1
      OBVIOUS
    <3>2. v \in Packages /\ e \in {1, 2} /\ e # 0
      BY <1>0, <2>8, <3>1
    <3>3. /\ releases[v] = [tag |-> e, assets |-> [f \in Files |-> e], receipt |-> e]
          /\ pypi[v] = [f \in Files |-> e]
      BY <1>2, <3>1, <3>2
    <3>4. Published(v) = Files /\ releases[v].assets = pypi[v] /\ releases[v].tag = e
      BY <3>2, <3>3 DEF Published
    <3>5. e \in 1..Tip /\ Tree(e).event = e
      BY <2>1, <2>2, <3>2
    <3> QED BY <3>1, <3>3, <3>4, <3>5 DEF ServedAs
  <2>9. ASSUME NEW e \in ready PROVE Served(e)
    <3>1. PICK v \in {0, 1} : v + 1 = e
      BY <1>2, <2>9
    <3> QED BY <1>0, <2>8, <3>1 DEF Served
  <2>10. ASSUME NEW v \in Packages, StoredReceipt(v)
         PROVE  releases[v].receipt \in ready /\ ServedAs(v, releases[v].receipt)
    <3>1. v \in {0, 1}
      <4>1. v \notin {0, 1} => releases[v].receipt = 0
        <5>1. PICK c : c = IF v \in {0, 1} THEN v + 1 ELSE 0
          OBVIOUS
        <5>2. releases[v] = [tag |-> c, assets |-> [f \in Files |-> c], receipt |-> c]
          BY <1>2, <5>1
        <5> QED BY <5>1, <5>2
      <4> QED BY <2>10, <4>1 DEF StoredReceipt
    <3>2. ServedAs(v, v + 1) /\ releases[v].receipt = v + 1
      BY <2>8, <3>1
    <3>3. v + 1 \in ready
      BY <1>2, <3>1
    <3> QED BY <3>2, <3>3
  <2> QED BY <1>0, <1>2, <2>1, <2>2, <2>3, <2>5, <2>6, <2>7, <2>9, <2>10, <2>o
<1> QED BY <1>1, <1>2, InitialStates

LEMMA ReleaseStarts ==
  ASSUME Init
  PROVE  ReleaseInv
<1>0. Resting.pc = "idle" /\ Idle.pc = "idle" /\ Idle.state = "pending"
  BY DEF Resting, Idle
<1>1. /\ branches = [n \in {} |-> 0] /\ prs = <<>> /\ runs = {} /\ job = Idle /\ publisher = Resting
      /\ told = [e \in Events |-> IF e \in ready THEN "verified" ELSE "nothing"]
      /\ DOMAIN releases = Packages /\ releases = [v \in DOMAIN releases |-> releases[v]]
      /\ DOMAIN pypi = Packages /\ pypi = [v \in DOMAIN pypi |-> pypi[v]]
  BY DEF Init
<1>2. TypeInv
  <2>1. main \in Seq(CommitSet) /\ Tip # 0 /\ ready \in SUBSET Events /\ latest \in Packages
    BY InitialTrees
  <2>2. pypi \in [Packages -> [Files -> Nat]] /\ releases \in [Packages -> ReleaseSet]
    <3>1. \A v \in Packages : releases[v] \in ReleaseSet /\ pypi[v] \in [Files -> Nat]
      BY InitialTrees
    <3> QED BY <1>1, <3>1
  <2>3. branches \in [DOMAIN branches -> BranchSet] /\ DOMAIN branches \subseteq NameSet
    BY <1>1
  <2>4. prs \in Seq(PrSet)
    BY <1>1, EmptySeq
  <2>5. told \in [Events -> {"nothing", "progress", "verified"}]
    BY <1>1
  <2> QED BY <1>1, <2>1, <2>2, <2>3, <2>4, <2>5, JobTypes DEF TypeInv
<1>3. TreesInv /\ OnceInv
  BY InitialTrees
<1>4. BranchInv
  BY <1>1 DEF BranchInv
<1>5. PrsInv
  <2>1. DOMAIN prs = {}
    BY <1>1
  <2> QED BY <2>1, InitialTrees DEF PrsInv
<1>6. JobInv
  BY <1>0, <1>1 DEF JobInv
<1>7. PublicInv
  <2>1. \A e \in Events : told[e] = "verified" => Served(e)
    BY <1>1, InitialTrees
  <2>2. publisher.pc \notin Tagged /\ publisher.pc # "tag" /\ publisher.pc # "latest"
    BY <1>0, <1>1 DEF Tagged
  <2>3. \A v \in Packages : StoredReceipt(v) =>
          told[releases[v].receipt] = "verified" /\ ServedAs(v, releases[v].receipt)
    BY <1>1, InitialTrees
  <2> QED BY <1>1, <2>1, <2>2, <2>3, InitialTrees DEF PublicInv
<1> QED BY <1>2, <1>3, <1>4, <1>5, <1>6, <1>7 DEF ReleaseInv

-----------------------------------------------------------------------------
(* What the runs check.                                                     *)

\* Every state of the release chain satisfies the invariant.
THEOREM ReleaseInvariance == Spec => []ReleaseInv
<1>1. Init => ReleaseInv
  BY ReleaseStarts
<1>2. ReleaseInv /\ [Next]_vars => ReleaseInv'
  BY ReleaseStep
<1> QED BY <1>1, <1>2, PTL DEF Spec

\* Whatever is public under a version comes from one commit, a tested landing of that version that
\* replaces a public one: release.yml and publishing.py against everything that moves while they run.
THEOREM PublicIsTested == Spec => []PublishedIsTested
<1>1. ReleaseInv => PublishedIsTested
  <2> SUFFICES ASSUME ReleaseInv, NEW v \in Packages, NEW f \in Files
               PROVE  LET c == releases[v].tag IN
                      /\ pypi[v][f] \in {0, c} /\ releases[v].assets[f] \in {0, c}
                      /\ c # 0 => /\ Tree(c).package = v
                                  /\ main[c].pr # Nobody => TestedLanding(c) /\ Replaces(c)
    BY DEF PublishedIsTested
  <2>1. PICK c : c = releases[v].tag
    OBVIOUS
  <2>2. /\ pypi[v][f] \in {0, c} /\ releases[v].assets[f] \in {0, c}
        /\ c # 0 => /\ c \in 1..Tip /\ Tree(c).package = v
                    /\ main[c].pr # Nobody => Public(c)
    BY <2>1 DEF ReleaseInv, PublicInv
  <2>3. ASSUME c \in 1..Tip, Public(c) PROVE TestedLanding(c) /\ Replaces(c)
    BY <2>3 DEF Public, Replaced, Replaces, ReleaseInv, TreesInv, Sane
  <2> QED BY <2>1, <2>2, <2>3
<1> QED BY <1>1, ReleaseInvariance, PTL

\* Main never has what a rollback rejected, forgets no rejection, and goes back only to a release with
\* a verified receipt: update_files() and verify_local() over every history of main.
THEOREM RejectedNeverReturns == Spec => []RejectedStaysOut
<1>1. ReleaseInv => RejectedStaysOut
  <2> SUFFICES ASSUME ReleaseInv, NEW c \in 2..Tip
               PROVE  LET tree == Tree(c) before == Tree(c - 1) IN
                      /\ tree.event \notin tree.rejected
                      /\ before.rejected \subseteq tree.rejected
                      /\ tree.event < before.event =>
                           /\ before.event \in tree.rejected
                           /\ releases[tree.rollback].receipt = tree.event
                           /\ Published(tree.rollback) = Files
    BY DEF RejectedStaysOut
  <2>1. /\ c \in 1..Tip /\ c - 1 \in 1..Tip /\ TreesInv
        /\ Tree(c).event \in Nat /\ Tree(c - 1).event \in Nat
    <3>1. c \in 1..Tip /\ c - 1 \in 1..Tip
      BY Elements DEF ReleaseInv
    <3> QED BY <3>1, Elements DEF ReleaseInv, TreeSet
  <2>2. Sane(Tree(c))
    BY <2>1 DEF TreesInv
  <2>3. Tree(c) = Tree(c - 1) \/ Step(Tree(c - 1), Tree(c))
    BY <2>1 DEF TreesInv
  <2>4. CASE Tree(c) = Tree(c - 1)
    BY <2>1, <2>2, <2>4 DEF Sane
  <2>5. CASE Step(Tree(c - 1), Tree(c))
    BY <2>1, <2>2, <2>5 DEF Sane, Step, Receipted
  <2> QED BY <2>3, <2>4, <2>5
<1> QED BY <1>1, ReleaseInvariance, PTL

\* A verified receipt is of a version that is served whole: publication() and retain().
THEOREM ReceiptsAreTrue == Spec => []VerifiedIsServed
<1>1. ReleaseInv => VerifiedIsServed
  BY DEF ReleaseInv, PublicInv, VerifiedIsServed, Served, ServedAs
<1> QED BY <1>1, ReleaseInvariance, PTL

\* A release has one open pull request, and is applied once, however often its dispatch comes and
\* whatever crashed: create_pr() and reconcile().
THEOREM ProposedOnce == Spec => []OneProposal
<1>1. ReleaseInv => OneProposal
  <2> SUFFICES ASSUME ReleaseInv PROVE OneProposal
    OBVIOUS
  <2>0. TypeInv /\ PrsInv /\ OnceInv /\ Tip \in Nat
    BY Elements DEF ReleaseInv
  <2>1. ASSUME NEW p \in OpenOf("release"), NEW q \in OpenOf("release"), prs[p].event = prs[q].event
        PROVE  p = q
    <3>1. ASSUME NEW r \in OpenOf("release")
          PROVE  /\ r \in DOMAIN prs /\ Alive(r)
                 /\ prs[r].name = [kind |-> "release", event |-> prs[r].event, package |-> 0, base |-> 0]
      <4>1. r \in DOMAIN prs /\ prs[r].open /\ prs[r].kind = "release"
        BY <3>1 DEF OpenOf, OpenPrs
      <4>2. PICK name : name = prs[r].name
        OBVIOUS
      <4>3. name \in NameSet /\ name.kind = "release" /\ name.event = prs[r].event /\ NameInv(name)
        BY <2>0, <4>1, <4>2, Elements DEF PrSet, PrsInv, PrInv
      <4>4. name.package = 0 /\ name.base = 0
        BY <4>3 DEF NameInv
      <4>5. name = [kind |-> "release", event |-> prs[r].event, package |-> 0, base |-> 0]
        BY <4>3, <4>4 DEF NameSet
      <4> QED BY <4>1, <4>2, <4>5 DEF Alive
    <3>2. PICK e : e = prs[p].event
      OBVIOUS
    <3>3. p \in DOMAIN prs /\ Alive(p) /\ prs[p].name = [kind |-> "release", event |-> e, package |-> 0, base |-> 0]
      BY <3>1, <3>2
    <3>4. q \in DOMAIN prs /\ Alive(q) /\ prs[q].name = [kind |-> "release", event |-> e, package |-> 0, base |-> 0]
      BY <2>1, <3>1, <3>2
    <3> QED BY <2>0, <3>3, <3>4 DEF PrsInv
  <2>2. ASSUME NEW c \in 2..Tip, NEW d \in 1..(c - 1), Tree(c).event = Tree(d).event
        PROVE  Tree(c - 1).event = Tree(c).event \/ Tree(c).rollback # NoVersion
    BY <2>0, <2>2 DEF OnceInv, Unseen
  <2> QED BY <2>1, <2>2 DEF OneProposal
<1> QED BY <1>1, ReleaseInvariance, PTL

\* GitHub's latest release names a version that is published whole, and never goes back:
\* what verify_publication() checked still holds when it moves the pointer.
THEOREM LatestOnlyAdvances == Spec => LatestAdvances
<1>1. ReleaseInv /\ [Next]_vars => [latest' >= latest /\ (latest' # latest => Published(latest') = Files)]_vars
  <2> SUFFICES ASSUME ReleaseInv, [Next]_vars
               PROVE  latest' >= latest /\ (latest' # latest => Published(latest') = Files)
    OBVIOUS
  <2>0. TypeInv /\ PublicInv /\ latest \in Nat
    BY Positive DEF ReleaseInv, TypeInv
  <2>1. CASE latest' = latest
    BY <2>0, <2>1
  <2>2. CASE MovesLatest
    <3>1. PICK v, c : v = Version /\ c = publisher.source
      OBVIOUS
    <3>2. latest' = v /\ latest <= v /\ \A f \in Files : pypi[v][f] = c
      BY <2>0, <2>2, <3>1 DEF MovesLatest, PublicInv
    <3>3. publisher # Resting
      BY <2>2 DEF MovesLatest, Resting
    <3>4. c # 0 /\ v \in Nat
      BY <3>1, <3>3, AtWork, Positive
    <3>5. Published(v) = Files
      BY <3>2, <3>4 DEF Published
    <3> QED BY <2>0, <3>2, <3>4, <3>5
  <2>3. latest' = latest \/ MovesLatest
    BY LatestMoves
  <2> QED BY <2>1, <2>2, <2>3
<1> QED BY <1>1, ReleaseInvariance, PTL DEF Spec, LatestAdvances

\* A receipt that is kept with a version was told, is the last thing told of its release, and is
\* true of the version: publication(), collect() and retain(), over every break between them.
THEOREM KeptReceiptsAreTrue == Spec => []KeptReceiptsHold
<1>1. ReleaseInv => KeptReceiptsHold
  <2> SUFFICES ASSUME ReleaseInv, NEW v \in Packages, StoredReceipt(v)
               PROVE  /\ told[releases[v].receipt] = "verified"
                      /\ VerifiedReceipt(v)
                      /\ Tree(releases[v].tag).event = releases[v].receipt
    BY DEF KeptReceiptsHold
  <2>1. PICK e, c : e = releases[v].receipt /\ c = releases[v].tag
    OBVIOUS
  <2>2. /\ told[e] = "verified" /\ Published(v) = Files /\ releases[v].assets = pypi[v]
        /\ c \in 1..Tip /\ Tree(c).event = e /\ e # 0
    BY <2>1 DEF ReleaseInv, PublicInv, ServedAs, StoredReceipt
  <2>3. c # 0
    BY <2>2, Elements DEF ReleaseInv
  <2>4. Tree(c).package = v /\ \A f \in Files : pypi[v][f] = c
    BY <2>1, <2>2, <2>3 DEF ReleaseInv, PublicInv, Published
  <2>5. VerifyLocal(Tree(c))
    BY <2>2 DEF ReleaseInv, TreesInv, Sane, VerifyLocal
  <2>6. VerifiedPackage(v, Nothing)
    BY <2>1, <2>2, <2>4, <2>5 DEF VerifiedPackage
  <2> QED BY <2>1, <2>2, <2>6 DEF VerifiedReceipt
<1> QED BY <1>1, ReleaseInvariance, PTL
=============================================================================
