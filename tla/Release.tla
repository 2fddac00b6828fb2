------------------------------- MODULE Release -------------------------------
(***************************************************************************)
(* The release scripts: prepare-release-cut bumps the version in five      *)
(* files, finalize-release commits, tags, pushes, packs, bundles and       *)
(* publishes, and two publishers bring the bundled source to GitHub, one   *)
(* through its API and one with `git push`.  One operator runs one script  *)
(* at a time; the working tree is edited and others push meanwhile, a call *)
(* may fail before or after it took effect, and a script may be killed.    *)
(***************************************************************************)
EXTENDS Naturals, Sequences, SequencesExt, FiniteSets, FiniteSetsExt

CONSTANTS
  Selections,   \* the sets of actions a finalize run may be asked for
  MaxRuns,      \* runs of anything but the bundle publisher
  MaxEdits,     \* edits of the working tree
  MaxPushes,    \* commits others push
  MaxFaults,    \* calls that fail
  MaxKills      \* scripts that are killed

\* Mutant: an order in which the server's own version comes last.
CutOrderConfigLast == <<"package", "lock", "python", "changelog", "config">>

\* plannedFiles: the files of the cut, in the order in which they are written.
CutOrder == <<"package", "lock", "config", "python", "changelog">>

Files == {CutOrder[i] : i \in DOMAIN CutOrder}
Surfaces == Files \ {"changelog"}

\* The order in which execute runs the selected actions.
Actions == <<"commit", "tag", "push", "pack", "bundle", "npm", "pypi">>

ASSUME ReleaseAssumption ==
  /\ Selections \subseteq SUBSET {Actions[i] : i \in DOMAIN Actions}
  /\ MaxRuns \in Nat /\ MaxEdits \in Nat /\ MaxPushes \in Nat
  /\ MaxFaults \in Nat /\ MaxKills \in Nat

\* A tree: the files that carry the new version, and what else it holds.
Theirs == MaxEdits + 1
Trees == [files: SUBSET Files, content: 0..Theirs]

\* A commit is its history: equal trees, parents and dates make the same commit.
Entry(tree, by) == [tree |-> tree, by |-> by]
TreeOf(commit) == Last(commit).tree
Child(commit, tree, by) == Append(commit, Entry(tree, by))

None == <<>>   \* no commit, tag, package or bundle
Tag(commit, by) == [commit |-> commit, by |-> by]
Bundle(commit) == [commit |-> commit, tag |-> Tag(commit, "release")]

\* The bundle and the API publisher date their commits a second after HEAD.
ReleaseCommit(parent, tree) == Child(parent, tree, "release")

VARIABLES
  work,            \* the working tree
  head, upstream,  \* the local branch, and what was last seen of the remote one
  localTag,
  remote,          \* [master, tag]
  bundle,          \* audrey-<version>.git.bundle
  report,          \* release-git-object-report.json
  tarball, npm,    \* the packed tree and the published one
  dist, pypi,      \* likewise for the Python package
  script, pc,
  todo,            \* finalize: the actions that are left
  built,           \* finalize: the commit of the bundle; the API publisher: its tree's commit
  seen,            \* the publishers: the refs and the report they read at the start
  forced,          \* --force
  runs, edits, pushes, faults, kills

source == <<head, upstream, localTag, remote, bundle, report>>
packages == <<tarball, npm, dist, pypi>>
control == <<script, pc, todo, built, seen, forced>>
counters == <<runs, edits, pushes, kills>>
vars == <<work, source, packages, control, counters, faults>>

Works == UNCHANGED faults
Fails == faults < MaxFaults /\ faults' = faults + 1
-----------------------------------------------------------------------------
(* verify-release-readiness *)

Cut(tree) == tree.files \cap (Surfaces \ {"config"})

\* versionChecks reads the package, its lock and the Python version.
VersionCheck ==
  CASE Cut(work) = Surfaces \ {"config"} -> "passed"
    [] Cut(work) = {} -> "pending"
    [] OTHER -> "failed"

ChangelogCheck == IF "changelog" \in work.files THEN "passed" ELSE "pending"

\* Mutant: takes the bundle for the present tree's.
HandoffUsableUnread == report # None /\ bundle # None /\ bundle = report

\* releaseSourceHandoffStatus: the bundle of the present tree, with the report on it.
HandoffUsable ==
  /\ report # None
  /\ work = TreeOf(report.commit)
  /\ bundle # None /\ bundle = report

\* remoteReleaseRefs: what ls-remote says of the branch and the tag.
Holds(refs) == remote.master = refs.commit /\ remote.tag = refs.tag

HandoffPublished == Holds(report)

\* remoteBranchFreshnessStatus
Fresh == upstream = remote.master

\* The lane without a bundle: everything committed, pushed and tagged at HEAD, the tag
\* as the local repository has it.
GitReady ==
  /\ Fresh /\ head = upstream
  /\ work = TreeOf(head)
  /\ localTag # None /\ localTag.commit = head

\* A report on a bundle that is not usable adds its own blockers to that lane.
SourceControlCheck ==
  IF (IF HandoffUsable THEN HandoffPublished ELSE report = None /\ GitReady)
    THEN "passed" ELSE "pending"

\* A built distribution carries the version it was built for, and verifies.
DistCheck == IF dist # None THEN "passed" ELSE "pending"

\* Published, or ready to be: a package is no more than pending until it carries the version.
NpmCheck == IF "package" \in work.files THEN "passed" ELSE "pending"
PypiCheck == IF "python" \in work.files THEN "passed" ELSE "pending"

Checks == <<VersionCheck, SourceControlCheck, ChangelogCheck, DistCheck, NpmCheck, PypiCheck>>

\* --allow-pending lets everything but a failed check pass.
Coherent == \A i \in DOMAIN Checks : Checks[i] # "failed"

\* The items of audit-release-completion; what it asks of the paper is left out.
AuditLocal == "package" \in work.files /\ Coherent
AuditSource ==
  /\ bundle # None /\ report # None
  /\ remote.master = report.commit /\ remote.tag # None
AuditNpm == tarball # None /\ npm # None
AuditPypi == dist # None /\ pypi # None
AuditComplete == AuditLocal /\ AuditSource /\ AuditNpm /\ AuditPypi
-----------------------------------------------------------------------------
OldTree == [files |-> {}, content |-> 0]
Root == <<Entry(OldTree, "other")>>

Init ==
  /\ work = OldTree /\ head = Root /\ upstream = Root /\ localTag = None
  /\ remote = [master |-> Root, tag |-> None]
  /\ bundle = None /\ report = None
  /\ tarball = None /\ npm = None /\ dist = None /\ pypi = None
  /\ script = "none" /\ pc = "idle" /\ todo = {} /\ built = None /\ seen = None
  /\ forced = FALSE
  /\ runs = 0 /\ edits = 0 /\ pushes = 0 /\ faults = 0 /\ kills = 0

Start(name, label) ==
  /\ pc = "idle" /\ script' = name /\ pc' = label

Counted == runs < MaxRuns /\ runs' = runs + 1

\* A throw, a failed assertOk or the end of the script.
End ==
  /\ script' = "none" /\ pc' = "idle" /\ todo' = {} /\ built' = None /\ seen' = None
  /\ forced' = FALSE
At(label) == pc' = label /\ UNCHANGED <<script, todo, seen, forced>>
-----------------------------------------------------------------------------
(* prepare-release-cut --apply *)

Aligned == work.files \cap Surfaces \in {{}, Surfaces}

StartCut ==
  /\ Start("cut", "cut") /\ Counted /\ Aligned
  /\ UNCHANGED <<work, source, packages, todo, built, seen, forced, edits, pushes, kills>> /\ Works

Unwritten == {i \in DOMAIN CutOrder : CutOrder[i] \notin work.files}

\* The contents were computed before the first write; each write may fail.
CutFile ==
  /\ pc = "cut"
  /\ UNCHANGED <<source, packages, counters>>
  /\ \/ /\ Unwritten # {} /\ Works
        /\ work' = [work EXCEPT !.files = @ \cup {CutOrder[Min(Unwritten)]}]
        /\ At("cut") /\ UNCHANGED built
     \/ Unwritten # {} /\ Fails /\ UNCHANGED work /\ End
     \/ Unwritten = {} /\ Works /\ UNCHANGED work /\ End
-----------------------------------------------------------------------------
(* finalize-release --apply *)

\* npm publishes what it has packed itself.
Selected(selection) == selection \cup (IF "npm" \in selection THEN {"pack"} ELSE {})

StartFinalize(selection) ==
  /\ Start("finalize", "finalize") /\ Counted
  /\ "package" \in work.files /\ Coherent
  /\ todo' = Selected(selection)
  /\ UNCHANGED <<work, source, packages, built, seen, forced, edits, pushes, kills>> /\ Works

NextAction == Actions[Min({i \in DOMAIN Actions : Actions[i] \in todo})]

Doing(action) == pc = "finalize" /\ todo # {} /\ NextAction = action
Done == pc' = "finalize" /\ todo' = todo \ {NextAction} /\ UNCHANGED <<script, built, seen, forced>>

Frame == UNCHANGED <<work, counters>>

\* git refuses an empty commit.
Commit ==
  /\ Doing("commit") /\ Frame /\ UNCHANGED <<upstream, localTag, remote, bundle, report, packages>>
  /\ \/ Works /\ work # TreeOf(head) /\ head' = Child(head, work, "git") /\ Done
     \/ Works /\ work = TreeOf(head) /\ UNCHANGED head /\ End
     \/ Fails /\ UNCHANGED head /\ End

MakeTag ==
  /\ Doing("tag") /\ Frame /\ UNCHANGED <<head, upstream, remote, bundle, report, packages>>
  /\ \/ Works /\ localTag = None /\ localTag' = Tag(head, "git") /\ Done
     \/ Works /\ localTag # None /\ UNCHANGED localTag /\ End
     \/ Fails /\ UNCHANGED localTag /\ End

FastForward(commit) == IsPrefix(remote.master, commit)

\* `git push HEAD:master --follow-tags`: the refs are updated one by one, each on its own.
Pushed(commit, tag, refs) ==
  [master |-> IF "master" \in refs /\ FastForward(commit) THEN commit ELSE remote.master,
   tag |-> IF "tag" \in refs /\ remote.tag = None THEN tag ELSE remote.tag]

Followed == IF localTag # None /\ IsPrefix(localTag.commit, head) THEN localTag ELSE None

PushHead ==
  /\ Doing("push") /\ Frame /\ UNCHANGED <<head, localTag, bundle, report, packages>>
  /\ \/ /\ Works /\ remote' = Pushed(head, Followed, {"master", "tag"})
        /\ IF FastForward(head) THEN upstream' = head /\ Done ELSE UNCHANGED upstream /\ End
     \/ /\ Fails /\ End /\ UNCHANGED upstream
        /\ \E refs \in SUBSET {"master", "tag"} : remote' = Pushed(head, Followed, refs)

Pack ==
  /\ Doing("pack") /\ Frame /\ UNCHANGED <<source, npm, dist, pypi>>
  /\ \/ Works /\ tarball' = work /\ Done
     \/ Fails /\ UNCHANGED tarball /\ End

\* Mutant: goes on although git could not write the tree.
WriteTreeUnasserted ==
  /\ Doing("bundle") /\ built = None /\ Frame /\ UNCHANGED <<source, packages>>
  /\ \/ Works /\ built' = ReleaseCommit(head, work) /\ At("bundle")
     \/ Fails /\ UNCHANGED built /\ At("bundle")

\* createSourceBundle: a commit on HEAD of the tree as it is, in an index of its own.
WriteTree ==
  /\ Doing("bundle") /\ built = None /\ Frame /\ UNCHANGED <<source, packages>>
  /\ \/ Works /\ built' = ReleaseCommit(head, work) /\ At("bundle")
     \/ Fails /\ End

\* A bundle whose verification fails is there all the same.
WriteBundle ==
  /\ pc = "bundle" /\ Frame /\ UNCHANGED <<head, upstream, localTag, remote, report, packages>>
  /\ \/ Works /\ bundle' = Bundle(built) /\ At("report") /\ UNCHANGED built
     \/ Fails /\ bundle' \in {bundle, Bundle(built)} /\ End

WriteReport ==
  /\ pc = "report" /\ Frame /\ UNCHANGED <<head, upstream, localTag, remote, bundle, packages>>
  /\ pc' = "finalize" /\ todo' = todo \ {"bundle"} /\ UNCHANGED <<script, seen, forced>>
  /\ report' = Bundle(built) /\ built' = None /\ Works

\* A registry takes a version once.
PublishNpm ==
  /\ Doing("npm") /\ Frame /\ UNCHANGED <<source, tarball, dist, pypi>>
  /\ \/ Works /\ npm = None /\ npm' = tarball /\ Done
     \/ Works /\ npm # None /\ UNCHANGED npm /\ End
     \/ Fails /\ npm' \in {npm, IF npm = None THEN tarball ELSE npm} /\ End

BuildPython ==
  /\ Doing("pypi") /\ Frame /\ UNCHANGED <<source, tarball, npm, pypi>>
  /\ \/ Works /\ dist' = work /\ At("upload") /\ UNCHANGED built
     \/ Fails /\ UNCHANGED dist /\ End

UploadPython ==
  /\ pc = "upload" /\ Frame /\ UNCHANGED <<source, tarball, npm, dist>>
  /\ \/ Works /\ pypi = None /\ pypi' = dist /\ Done
     \/ Works /\ pypi # None /\ UNCHANGED pypi /\ End
     \/ Fails /\ pypi' \in {pypi, IF pypi = None THEN dist ELSE pypi} /\ End

Finished ==
  /\ pc = "finalize" /\ todo = {} /\ End
  /\ Frame /\ UNCHANGED <<source, packages>> /\ Works
-----------------------------------------------------------------------------
(* publish-release-github-api --apply *)

\* remoteRefs, and collectChangedPaths with changedEntries, as they are now.
RemoteRefs == remote
Entries == [head |-> head, tree |-> work]

\* localState: the blockers.
ApiMayStart(force) ==
  /\ RemoteRefs.master = head \/ force
  /\ RemoteRefs.tag = None
  /\ report # None

StartApi(force) ==
  /\ Start("api", "blobs") /\ Counted /\ ApiMayStart(force)
  /\ seen' = [branch |-> RemoteRefs.master, entries |-> Entries, expected |-> report]
  /\ forced' = force
  /\ UNCHANGED <<work, source, packages, todo, built, edits, pushes, kills>> /\ Works

\* The tree base with the changes that lead from one tree to another.
Overlay(base, from, to) ==
  [files |-> {f \in Files : f \in IF (f \in from.files) = (f \in to.files)
                                   THEN base.files ELSE to.files},
   content |-> IF from.content = to.content THEN base.content ELSE to.content]

\* The listed paths are read again for the upload; a path that changed since without
\* being listed is not.
UploadedTrees ==
  {Overlay(TreeOf(seen.branch), TreeOf(seen.entries.head), tree) : tree \in {seen.entries.tree, work}}

\* Mutant: trusts what it has uploaded.
MatchesUnchecked(commit) == TRUE

Matches(commit) == commit = seen.expected.commit

UploadBlobs ==
  /\ pc = "blobs" /\ Frame /\ UNCHANGED <<source, packages>>
  /\ \/ /\ Works
        /\ \E tree \in UploadedTrees :
             LET commit == ReleaseCommit(seen.branch, tree) IN
             IF Matches(commit) THEN built' = commit /\ At("branch") ELSE End
     \/ Fails /\ End

\* Mutant: sends force with every update.
MayMoveAlways(commit) == TRUE

MayMove(commit) == FastForward(commit) \/ forced

MoveBranch ==
  /\ pc = "branch" /\ Frame /\ UNCHANGED <<head, upstream, localTag, bundle, report, packages>>
  /\ \/ /\ Works /\ MayMove(built) /\ remote' = [remote EXCEPT !.master = built]
        /\ At("tag") /\ UNCHANGED built
     \/ Works /\ ~MayMove(built) /\ UNCHANGED remote /\ End
     \/ /\ Fails /\ End
        /\ remote' \in {remote, [remote EXCEPT !.master = IF MayMove(built) THEN built ELSE @]}

CreateTag ==
  /\ pc = "tag" /\ Frame /\ UNCHANGED <<head, upstream, localTag, bundle, report, packages>>
  /\ \/ Works /\ remote' = Pushed(built, Tag(built, "release"), {"tag"})
     \/ Fails /\ remote' \in {remote, Pushed(built, Tag(built, "release"), {"tag"})}
  /\ End
-----------------------------------------------------------------------------
(* publish-release-bundle --apply *)

\* Mutant: takes a remote branch that has the release for a finished publication.
MayPublishAhead ==
  bundle # None /\ remote.tag = None /\ ~IsPrefix(bundle.commit, remote.master)

\* planPublish: what the remote holds may be half of the bundle.
MayPublish ==
  /\ bundle # None
  /\ remote.tag \in {None, bundle.tag}
  /\ ~Holds(bundle)

StartBundle ==
  /\ Start("bundle", "push") /\ MayPublish
  /\ seen' = bundle
  /\ UNCHANGED <<work, source, packages, todo, built, forced, counters>> /\ Works

\* The two refs of the push are accepted or refused one by one.
PushBundle ==
  /\ pc = "push" /\ Frame /\ UNCHANGED <<head, upstream, localTag, bundle, report, packages>>
  /\ End
  /\ \/ Works /\ remote' = Pushed(seen.commit, seen.tag, {"master", "tag"})
     \/ Fails /\ \E refs \in SUBSET {"master", "tag"} :
                   remote' = Pushed(seen.commit, seen.tag, refs)
-----------------------------------------------------------------------------
(* The operator, the others and the faults. *)

Edit ==
  /\ edits < MaxEdits /\ edits' = edits + 1
  /\ work' = [work EXCEPT !.content = edits + 1]
  /\ UNCHANGED <<source, packages, control, runs, pushes, kills>> /\ Works

\* Between two scripts: the tree is reset to HEAD, or the remote branch is pulled.
Restore ==
  /\ pc = "idle" /\ work' = TreeOf(head)
  /\ UNCHANGED <<source, packages, control, counters>> /\ Works

Pull ==
  /\ pc = "idle" /\ upstream' = remote.master
  /\ IF work = TreeOf(head) /\ FastForward(remote.master) /\ IsPrefix(head, remote.master)
       THEN head' = remote.master /\ work' = TreeOf(remote.master)
       ELSE UNCHANGED <<head, work>>
  /\ UNCHANGED <<localTag, remote, bundle, report, packages, control, counters>> /\ Works

OtherPush ==
  /\ pushes < MaxPushes /\ pushes' = pushes + 1
  /\ remote' = [remote EXCEPT !.master =
                  Child(@, [TreeOf(@) EXCEPT !.content = Theirs], "other")]
  /\ UNCHANGED <<work, head, upstream, localTag, bundle, report, packages, control, runs, edits, kills>>
  /\ Works

Kill ==
  /\ pc # "idle" /\ kills < MaxKills /\ kills' = kills + 1
  /\ End
  /\ UNCHANGED <<work, source, packages, runs, edits, pushes>> /\ Works

Step ==
  \/ CutFile
  \/ Commit \/ MakeTag \/ PushHead \/ Pack \/ WriteTree \/ WriteBundle \/ WriteReport
  \/ PublishNpm \/ BuildPython \/ UploadPython \/ Finished
  \/ UploadBlobs \/ MoveBranch \/ CreateTag
  \/ PushBundle

Next ==
  \/ Step
  \/ StartCut \/ StartBundle
  \/ \E selection \in Selections : StartFinalize(selection)
  \/ \E force \in BOOLEAN : StartApi(force)
  \/ Edit \/ Restore \/ Pull \/ OtherPush \/ Kill

Spec == Init /\ [][Next]_vars

\* A script that runs goes on, and the operator runs the bundle publisher until it has
\* nothing left to publish.
FairSpec == Spec /\ WF_vars(Step) /\ WF_vars(StartBundle)
-----------------------------------------------------------------------------
Commits == Seq([tree : Trees, by : {"git", "release", "other"}])

SourceOK ==
  /\ work \in Trees /\ {tarball, npm, dist, pypi} \subseteq Trees \cup {None}
  /\ {head, upstream, remote.master} \subseteq Commits \ {None}

\* The actions that are left are finalize's, in a run of finalize.
ControlOK ==
  /\ script \in {"none", "cut", "finalize", "api", "bundle"}
  /\ pc \in {"idle"} \cup
       CASE script = "none" -> {}
         [] script = "cut" -> {"cut"}
         [] script = "finalize" -> {"finalize", "bundle", "report", "upload"}
         [] script = "api" -> {"blobs", "branch", "tag"}
         [] script = "bundle" -> {"push"}
  /\ todo \subseteq {Actions[i] : i \in DOMAIN Actions}
  /\ pc \in {"bundle", "report"} => "bundle" \in todo /\ built # None
  /\ pc = "upload" => "pypi" \in todo /\ dist # None

CountersOK ==
  /\ runs \in 0..MaxRuns /\ edits \in 0..MaxEdits /\ pushes \in 0..MaxPushes
  /\ faults \in 0..MaxFaults /\ kills \in 0..MaxKills

\* The scripts go through their steps in order, and nothing is published under a name
\* that was not asked for.
TypeOK == SourceOK /\ ControlOK /\ CountersOK

Whole(tree) == Surfaces \subseteq tree.files

\* Whatever a registry or the remote has of the release carries the version on every
\* surface, the server's own too, which the readiness check does not read: it is the
\* order in which prepare-release-cut writes its files that keeps a cut that broke off
\* from passing for a finished one.
RegistriesAreWhole == \A tree \in {npm, pypi} \ {None} : Whole(tree)
BranchIsWhole ==
  \A i \in DOMAIN remote.master :
    remote.master[i].by # "other" => Whole(remote.master[i].tree)
TagIsWhole == remote.tag # None => Whole(TreeOf(remote.tag.commit))

PublishedIsWhole == RegistriesAreWhole /\ BranchIsWhole /\ TagIsWhole

\* When source control is reported ready, the remote branch is at the tree that is here,
\* and a release tag names that commit: whatever was edited, pushed by others, or half
\* done by a publisher or a bundle run since.  And when the audit is complete, whatever
\* the world sees carries the version (it does not compare the tag with the branch).
ReadyIsHere ==
  SourceControlCheck = "passed" =>
    /\ TreeOf(remote.master) = work
    /\ \E tag \in {localTag, remote.tag} \ {None} : tag.commit = remote.master
CompleteIsWhole ==
  AuditComplete =>
    \A tree \in {TreeOf(remote.master), TreeOf(remote.tag.commit), npm, pypi} : Whole(tree)

ReadyIsPublished == ReadyIsHere /\ CompleteIsWhole

\* No script takes a commit of another off the remote branch, however its reading of the
\* refs and its update of them are interleaved with pushes; only --force may.
RemoteKeepsCommits ==
  [][IsPrefix(remote.master, remote.master') \/ (script = "api" /\ forced)]_vars

\* A publisher moves the branch to a commit that was bundled and reported or to none:
\* the API publisher reads the files again, and a tree edited meanwhile stays out.
PublishesWhatWasBundled ==
  [][(script \in {"api", "bundle"} /\ pc # "idle"
       /\ remote.master # remote.master' /\ Last(remote.master').by # "other")
     => remote.master' = IF script = "api" THEN seen.expected.commit ELSE seen.commit]_vars

\* A publication that ended between the branch and the tag is completed: the bundle
\* publisher still takes it, although the branch already has the release, or has gone on.
PublicationCompletes ==
  (bundle # None /\ IsPrefix(bundle.commit, remote.master) /\ remote.tag = None)
    ~> remote.tag # None
=============================================================================
