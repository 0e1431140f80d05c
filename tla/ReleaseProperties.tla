------------------------- MODULE ReleaseProperties -------------------------
(***************************************************************************)
(* What the release chain promises, whatever GitHub, PyPI, the hub, CI and *)
(* people do between its steps.                                            *)
(***************************************************************************)
EXTENDS ReleaseChain

\* The commit landed with the very head that the App recorded and that CI tested on the
\* commit before it, and its own CI succeeded.
TestedLanding(c) ==
    LET p == main[c].pr IN
    /\ p # Nobody
    /\ prs[p].merge = c
    /\ Branch(p).head = prs[p].generated /\ prs[p].base = c - 1
    /\ main[c].ci = "success"
    /\ Tree(c).event # 0 => prs[p].ci = [head |-> prs[p].generated, base |-> c - 1,
                                         status |-> "success"]

\* What the commit's package replaces is public whole: a rollback can follow "previous".
Replaces(c) ==
    LET u == Tree(c).previous IN
    Tree(c).event # 0 => u < Tree(c).package /\ Published(u) = Files

\* Everything that is public under a version (the files on PyPI, the assets, the tag) comes
\* from one commit, which is a tested landing of that version and replaces a public one,
\* whatever moved while the publisher ran.
PublishedIsTested ==
    \A v \in Packages : \A f \in Files :
        LET c == releases[v].tag IN
        /\ pypi[v][f] \in {0, c} /\ releases[v].assets[f] \in {0, c}
        /\ c # 0 => /\ Tree(c).package = v
                    /\ main[c].pr # Nobody => TestedLanding(c) /\ Replaces(c)

\* The latest pointer names a version that is published whole, and moves only forward.
LatestAdvances ==
    [][/\ latest' >= latest
       /\ latest' # latest => Published(latest') = Files]_vars

\* Main never has a release that a rollback rejected, never forgets a rejection, and goes
\* back only to a release with a verified receipt.
RejectedStaysOut ==
    \A c \in 2..Tip :
        LET tree == Tree(c) before == Tree(c - 1) IN
        /\ tree.event \notin tree.rejected
        /\ before.rejected \subseteq tree.rejected
        /\ tree.event < before.event =>
               /\ before.event \in tree.rejected
               /\ releases[tree.rollback].receipt = tree.event
               /\ Published(tree.rollback) = Files

\* A receipt that is kept with a version was told before, nothing else is told after it, and
\* it stays true of that version: recover_applied() and a rollback, which trust it, are right
\* to, however many jobs broke between the telling and the keeping.
KeptReceiptsHold ==
    \A v \in Packages : StoredReceipt(v) =>
        /\ told[releases[v].receipt] = "verified"
        /\ VerifiedReceipt(v)
        /\ Tree(releases[v].tag).event = releases[v].receipt

\* What is told to be verified is served whole, under a version of that very release; what is
\* served was tested by PublishedIsTested.
VerifiedIsServed ==
    \A e \in Events : told[e] = "verified" =>
        \E v \in Packages : /\ Published(v) = Files /\ releases[v].assets = pypi[v]
                            /\ Tree(releases[v].tag).event = e

\* A release has one open pull request, however often its dispatch comes and whatever crashed,
\* and is never applied to a main that has it.
OneProposal ==
    /\ \A p, q \in OpenOf("release") : prs[p].event = prs[q].event => p = q
    /\ \A c \in 2..Tip : \A d \in 1..(c - 1) :
           Tree(c).event = Tree(d).event => 
              \/ Tree(c - 1).event = Tree(c).event \/ Tree(c).rollback # NoVersion

\* A release of the hub is published in the end, it or a newer one.
EveryReleaseIsPublished ==
    \A e \in Events : (e \in ready) ~> (Tree(releases[latest].tag).event >= e)
=============================================================================
