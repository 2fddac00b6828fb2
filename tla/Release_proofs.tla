---------------------------- MODULE Release_proofs ----------------------------
(***************************************************************************)
(* What the release scripts keep, for any number of runs, edits, pushes,   *)
(* faults and kills: the remote branch keeps the commits of others, a      *)
(* publisher moves it to what was bundled and reported, and everything     *)
(* that is published carries the version on every surface.                 *)
(***************************************************************************)
EXTENDS Release, SequenceTheorems, TLAPS

\* What the tag names is the release only if the run that made it committed first:
\* --all does, and a --tag of its own names whatever is at HEAD.
TagsWhatItCommits == \A selection \in Selections : "tag" \in selection => "commit" \in selection

Histories == Commits \ {None}
Tags == [commit : Histories, by : {"git", "release"}]
Bundles == {Bundle(commit) : commit \in Histories}

\* The files are written in the order of the cut.
InOrder(files) == \A i \in 2..5 : CutOrder[i] \in files => CutOrder[i - 1] \in files

\* A commit of ours carries the version, and none has half of a cut out of order.
SoundEntry(entry) == InOrder(entry.tree.files) /\ (entry.by # "other" => Whole(entry.tree))
Sound(commit) == \A i \in DOMAIN commit : SoundEntry(commit[i])
Released(commit) == Sound(commit) /\ Whole(TreeOf(commit))

\* What the publishers read at the start is what had been bundled then.
ControlInv ==
  /\ script = "none" <=> pc = "idle"
  /\ script # "finalize" => todo = {}
  /\ built \in Commits /\ (script \notin {"finalize", "api"} => built = None)
  /\ script = "api" => /\ seen.branch \in Histories /\ seen.expected \in Bundles
                       /\ Released(seen.expected.commit)
  /\ pc = "upload" => NextAction = "pypi"
  /\ pc \in {"branch", "tag"} => built = seen.expected.commit
  /\ script = "bundle" => seen \in Bundles /\ Released(seen.commit)

\* The typing of the refs, that TypeOK leaves out.
RefsInv ==
  /\ remote = [master |-> remote.master, tag |-> remote.tag]
  /\ {localTag, remote.tag} \subseteq Tags \cup {None}
  /\ {bundle, report} \subseteq Bundles \cup {None}

\* What finalize has checked at its start stays so while it runs.
WorkInv == InOrder(work.files) /\ (script = "finalize" => Whole(work))

CommitsInv ==
  /\ Sound(head) /\ Sound(remote.master)
  /\ script = "finalize" /\ built # None => Released(built)
  /\ \A b \in {bundle, report} \ {None} : Released(b.commit)

PackagesInv == \A tree \in {tarball, npm, dist, pypi} \ {None} : Whole(tree)

\* A tag is made by a run of finalize that has committed, or by a publisher.
TagsInv ==
  /\ \A tag \in {localTag, remote.tag} \ {None} : Whole(TreeOf(tag.commit))
  /\ "tag" \in todo /\ "commit" \notin todo => Whole(TreeOf(head))

IInv == TypeOK /\ ControlInv /\ RefsInv /\ WorkInv /\ CommitsInv /\ PackagesInv
-----------------------------------------------------------------------------
(* The files of the version cut are the files of a tree.                     *)
LEMMA CutFacts ==
  /\ DOMAIN CutOrder = 1..5 /\ DOMAIN Actions = 1..7
  /\ CutOrder[1] = "package" /\ CutOrder[2] = "lock" /\ CutOrder[3] = "config"
  /\ CutOrder[4] = "python" /\ CutOrder[5] = "changelog"
  /\ Surfaces = {"package", "lock", "config", "python"}
  /\ Files = {"package", "lock", "config", "python", "changelog"}
<1>1. DOMAIN CutOrder = 1..5 /\ DOMAIN Actions = 1..7
  BY DEF CutOrder, Actions
<1>2. /\ CutOrder[1] = "package" /\ CutOrder[2] = "lock" /\ CutOrder[3] = "config"
      /\ CutOrder[4] = "python" /\ CutOrder[5] = "changelog"
  BY DEF CutOrder
<1>3. Files = {"package", "lock", "config", "python", "changelog"}
  BY <1>1, <1>2 DEF Files
<1> QED
  BY <1>1, <1>2, <1>3 DEF Surfaces

(* The least of a few numbers is one of them.                                *)
LEMMA MinIsLeast ==
  ASSUME NEW S \in SUBSET (1..7), S # {}
  PROVE  Min(S) \in S /\ \A i \in S : Min(S) <= i
<1>1. PICK s \in S : TRUE
  OBVIOUS
<1>2. \E i \in S : \A j \in S : i <= j
  <2>1. CASE 1 \in S BY <2>1
  <2>2. CASE 1 \notin S /\ 2 \in S BY <2>2
  <2>3. CASE 1 \notin S /\ 2 \notin S /\ 3 \in S BY <2>3
  <2>4. CASE S \cap (1..3) = {} /\ 4 \in S BY <2>4
  <2>5. CASE S \cap (1..4) = {} /\ 5 \in S BY <2>5
  <2>6. CASE S \cap (1..5) = {} /\ 6 \in S BY <2>6
  <2>7. CASE S \cap (1..6) = {}
    <3>1. \A i \in S : i \in 1..7 /\ i \notin 1..6 BY <2>7
    <3>2. s = 7 /\ \A i \in S : i = 7 BY <3>1
    <3> QED
      BY <3>2
  <2> QED
    BY <2>1, <2>2, <2>3, <2>4, <2>5, <2>6, <2>7
<1> QED
  BY <1>2 DEF Min

(* The first action that is left: the tag only when there is no commit left. *)
LEMMA NextActionIsFirst ==
  ASSUME todo \subseteq {Actions[i] : i \in DOMAIN Actions}, todo # {}
  PROVE  NextAction \in todo /\ (NextAction = "tag" => "commit" \notin todo)
<1> DEFINE left == {i \in DOMAIN Actions : Actions[i] \in todo}
<1>1. left \in SUBSET (1..7) /\ left # {}
  BY CutFacts
<1>2. Min(left) \in left /\ \A i \in left : Min(left) <= i
  BY <1>1, MinIsLeast
<1>3. NextAction = Actions[Min(left)]
  BY DEF NextAction
<1>4. Actions[1] = "commit" /\ \A i \in 1..7 : Actions[i] = "tag" => i = 2
  BY DEF Actions
<1> QED
  BY <1>1, <1>2, <1>3, <1>4, CutFacts

(* Records are something.                                                    *)
LEMMA SomeIsNotNone ==
  /\ None \in Commits
  /\ \A tree \in Trees : tree # None
  /\ \A commit, by : Tag(commit, by) # None /\ Bundle(commit) # None
<1>1. None \in Commits
  BY DEF None, Commits
<1>2. DOMAIN None = {}
  BY DEF None
<1>3. \A tree \in Trees : DOMAIN tree = {"files", "content"}
  BY DEF Trees
<1>4. \A commit, by : DOMAIN Tag(commit, by) = {"commit", "by"}
                      /\ DOMAIN Bundle(commit) = {"commit", "tag"}
  BY DEF Tag, Bundle
<1> QED
  BY <1>1, <1>2, <1>3, <1>4

(* A commit on top of a history.                                             *)
LEMMA ChildOf ==
  ASSUME NEW commit \in Commits, NEW tree \in Trees, NEW by \in {"git", "release", "other"}
  PROVE  /\ Child(commit, tree, by) \in Histories
         /\ Last(Child(commit, tree, by)) = Entry(tree, by)
         /\ TreeOf(Child(commit, tree, by)) = tree
         /\ IsPrefix(commit, Child(commit, tree, by))
         /\ Sound(commit) /\ SoundEntry(Entry(tree, by)) => Sound(Child(commit, tree, by))
<1> DEFINE entry == Entry(tree, by)
           child == Append(commit, entry)
<1>1. entry \in [tree : Trees, by : {"git", "release", "other"}] /\ entry.tree = tree
  BY DEF Entry
<1> HIDE DEF entry
<1>2. /\ child \in Commits /\ Len(child) = Len(commit) + 1
      /\ child[Len(child)] = entry /\ \A i \in 1..Len(commit) : child[i] = commit[i]
  BY <1>1, AppendProperties DEF Commits
<1>3. child # None
  BY <1>2 DEF None, Commits
<1>4. IsPrefix(commit, child)
  BY <1>2 DEF IsPrefix, Commits
<1>5. Sound(commit) /\ SoundEntry(entry) => Sound(child)
  BY <1>2 DEF Sound, Commits
<1>6. Child(commit, tree, by) = child
  BY DEF Child, entry
<1> QED
  BY <1>1, <1>2, <1>3, <1>4, <1>5, <1>6 DEF Histories, TreeOf, Last, entry

(* A branch moves to itself without being forced.                            *)
LEMMA PrefixOfItself == \A commit \in Commits : IsPrefix(commit, commit)
  BY DEF IsPrefix, Commits

(* The last entry of a history.                                              *)
LEMMA LastOf ==
  ASSUME NEW commit \in Histories
  PROVE  /\ Last(commit) \in [tree : Trees, by : {"git", "release", "other"}]
         /\ TreeOf(commit) \in Trees
         /\ Sound(commit) => SoundEntry(Last(commit))
<1> DEFINE entries == [tree : Trees, by : {"git", "release", "other"}]
<1>1. commit \in Seq(entries) /\ commit # <<>>
  BY DEF Histories, None, Commits
<1> HIDE DEF entries
<1>2. Len(commit) \in 1..Len(commit) /\ DOMAIN commit = 1..Len(commit)
  BY <1>1, EmptySeq, LenProperties
<1>3. Last(commit) \in entries
  BY <1>1, <1>2, ElementOfSeq DEF Last
<1>4. TreeOf(commit) \in Trees
  BY <1>3 DEF entries, TreeOf
<1> QED
  BY <1>2, <1>3, <1>4 DEF entries, Sound, Last
-----------------------------------------------------------------------------
(* Which script is at a label.                                               *)
LEMMA ScriptAt ==
  ASSUME ControlOK, ControlInv
  PROVE  /\ pc = "idle" => script = "none" /\ todo = {}
         /\ pc = "cut" => script = "cut"
         /\ pc \in {"finalize", "bundle", "report", "upload"} => script = "finalize"
         /\ pc \in {"blobs", "branch", "tag"} => script = "api"
         /\ pc = "push" => script = "bundle"
<1>1. CASE script = "none" BY <1>1 DEF ControlOK, ControlInv
<1>2. CASE script = "cut" BY <1>2 DEF ControlOK, ControlInv
<1>3. CASE script = "finalize" BY <1>3 DEF ControlOK, ControlInv
<1>4. CASE script = "api" BY <1>4 DEF ControlOK, ControlInv
<1>5. CASE script = "bundle" BY <1>5 DEF ControlOK, ControlInv
<1> QED
  BY <1>1, <1>2, <1>3, <1>4, <1>5 DEF ControlOK

(* A push takes a ref or refuses it.                                         *)
LEMMA PushedRefs ==
  ASSUME NEW commit \in Commits, NEW tag, NEW refs, remote.master \in Commits
  PROVE  LET after == Pushed(commit, tag, refs)
         IN /\ after = [master |-> after.master, tag |-> after.tag]
            /\ after.master \in {remote.master, commit} /\ after.tag \in {remote.tag, tag}
            /\ IsPrefix(remote.master, after.master)
  BY PrefixOfItself DEF Pushed, FastForward

\* The steps that write the remote's refs.
Remote(master, tag) == remote' = [master |-> master, tag |-> tag]

FinalizeMoves ==
  /\ script = "finalize"
  /\ \E master \in {remote.master, head}, tag \in {remote.tag, localTag, None} :
       Remote(master, tag) /\ IsPrefix(remote.master, master)
ApiMoves ==
  /\ script = "api"
  /\ \/ /\ Remote(seen.expected.commit, remote.tag)
        /\ IsPrefix(remote.master, seen.expected.commit) \/ forced
     \/ \E tag \in {remote.tag, Tag(seen.expected.commit, "release")} : Remote(remote.master, tag)
BundleMoves ==
  /\ script = "bundle"
  /\ \E master \in {remote.master, seen.commit}, tag \in {remote.tag, seen.tag} :
       Remote(master, tag) /\ IsPrefix(remote.master, master)
OtherMoves ==
  Remote(Child(remote.master, [TreeOf(remote.master) EXCEPT !.content = Theirs], "other"),
         remote.tag)

(* The steps that move the remote, and how.                                  *)
LEMMA RemoteMoves ==
  ASSUME IInv, [Next]_vars
  PROVE  UNCHANGED remote \/ FinalizeMoves \/ ApiMoves \/ BundleMoves \/ OtherMoves
<1>0. /\ {head, remote.master} \subseteq Commits
      /\ remote = [master |-> remote.master, tag |-> remote.tag]
  BY DEF IInv, TypeOK, SourceOK, RefsInv
<1>1. CASE PushHead
  <2>1. script = "finalize"
    BY <1>1, ScriptAt DEF PushHead, Doing, IInv, TypeOK
  <2>2. PICK refs : remote' = Pushed(head, Followed, refs)
    BY <1>1 DEF PushHead
  <2>3. Followed \in {localTag, None}
    BY DEF Followed
  <2>4. FinalizeMoves
    BY <1>0, <2>1, <2>2, <2>3, PushedRefs DEF FinalizeMoves, Remote
  <2> QED
    BY <2>4
<1>2. CASE MoveBranch
  <2>1. script = "api" /\ built = seen.expected.commit
    BY <1>2, ScriptAt DEF MoveBranch, IInv, TypeOK, ControlInv
  <2>2. \/ UNCHANGED remote
        \/ MayMove(built) /\ remote' = [remote EXCEPT !.master = built]
    <3>1. [remote EXCEPT !.master = remote.master] = remote
      BY <1>0
    <3> QED
      BY <1>2, <3>1 DEF MoveBranch
  <2>3. [remote EXCEPT !.master = built] = [master |-> built, tag |-> remote.tag]
    BY <1>0
  <2> QED
    BY <2>1, <2>2, <2>3 DEF ApiMoves, Remote, MayMove, FastForward
<1>3. CASE CreateTag
  <2>1. script = "api" /\ built = seen.expected.commit
    BY <1>3, ScriptAt DEF CreateTag, IInv, TypeOK, ControlInv
  <2>2. UNCHANGED remote \/ remote' = Pushed(built, Tag(built, "release"), {"tag"})
    BY <1>3 DEF CreateTag
  <2>3. Pushed(built, Tag(built, "release"), {"tag"})
          = [master |-> remote.master,
             tag |-> IF remote.tag = None THEN Tag(built, "release") ELSE remote.tag]
    BY DEF Pushed
  <2> QED
    BY <2>1, <2>2, <2>3 DEF ApiMoves, Remote
<1>4. CASE PushBundle
  <2>1. script = "bundle" /\ seen.commit \in Commits
    <3>1. script = "bundle" /\ seen \in Bundles
      BY <1>4, ScriptAt DEF PushBundle, IInv, TypeOK, ControlInv
    <3> QED
      BY <3>1 DEF Bundles, Bundle, Histories
  <2>2. PICK refs : remote' = Pushed(seen.commit, seen.tag, refs)
    BY <1>4 DEF PushBundle
  <2> QED
    BY <1>0, <2>1, <2>2, PushedRefs DEF BundleMoves, Remote
<1>5. CASE OtherPush
  BY <1>0, <1>5 DEF OtherPush, OtherMoves, Remote
<1>6. CASE UNCHANGED remote
  BY <1>6
<1> QED
  BY <1>1, <1>2, <1>3, <1>4, <1>5, <1>6 DEF Next, Step, vars, source, CutFile, Commit, MakeTag,
       Pack,
     WriteTree, WriteBundle, WriteReport, PublishNpm, BuildPython, UploadPython, Finished,
     UploadBlobs, StartCut, StartBundle, StartFinalize, StartApi, Edit, Restore, Pull, Kill

(* The steps that write the branch, what was last seen of the remote one, and the tag. *)
LEMMA HeadMoves ==
  ASSUME IInv, [Next]_vars
  PROVE  \/ UNCHANGED head
         \/ Doing("commit") /\ head' = Child(head, work, "git") /\ UNCHANGED work
         \/ pc = "idle" /\ head' = remote.master
<1>1. CASE Commit
  BY <1>1 DEF Commit, Frame
<1>2. CASE Pull
  BY <1>2 DEF Pull
<1>3. CASE UNCHANGED head
  BY <1>3
<1> QED
  BY <1>1, <1>2, <1>3 DEF Next, Step, vars, source, CutFile, MakeTag, PushHead, Pack, WriteTree,
        WriteBundle, WriteReport, PublishNpm, BuildPython, UploadPython, Finished,
        UploadBlobs, MoveBranch, CreateTag, PushBundle, StartCut, StartBundle,
        StartFinalize, StartApi, Edit, Restore, OtherPush, Kill

(* What was last seen of the remote branch was there or has been pushed.     *)
LEMMA UpstreamMoves ==
  ASSUME IInv, [Next]_vars
  PROVE  upstream' \in {upstream, head, remote.master}
<1>1. CASE PushHead
  BY <1>1 DEF PushHead
<1>2. CASE Pull
  BY <1>2 DEF Pull
<1>3. CASE UNCHANGED upstream
  BY <1>3
<1> QED
  BY <1>1, <1>2, <1>3 DEF Next, Step, vars, source, CutFile, Commit, MakeTag, Pack, WriteTree,
        WriteBundle, WriteReport, PublishNpm, BuildPython, UploadPython, Finished,
        UploadBlobs, MoveBranch, CreateTag, PushBundle, StartCut, StartBundle,
        StartFinalize, StartApi, Edit, Restore, OtherPush, Kill

(* A tag is made at HEAD and never moved.                                    *)
LEMMA TagMoves ==
  ASSUME IInv, [Next]_vars
  PROVE  UNCHANGED localTag \/ (Doing("tag") /\ localTag' = Tag(head, "git"))
<1>1. CASE MakeTag
  BY <1>1 DEF MakeTag
<1>2. CASE UNCHANGED localTag
  BY <1>2
<1> QED
  BY <1>1, <1>2 DEF Next, Step, vars, source, CutFile, Commit, PushHead, Pack, WriteTree,
        WriteBundle, WriteReport, PublishNpm, BuildPython, UploadPython, Finished,
        UploadBlobs, MoveBranch, CreateTag, PushBundle, StartCut, StartBundle,
        StartFinalize, StartApi, Edit, Restore, Pull, OtherPush, Kill

(* The bundle and its report are written from one commit.                    *)
LEMMA BundleWrites ==
  ASSUME IInv, [Next]_vars
  PROVE  \/ UNCHANGED <<bundle, report>>
         \/ /\ pc \in {"bundle", "report"}
            /\ bundle' \in {bundle, Bundle(built)} /\ report' \in {report, Bundle(built)}
<1>1. CASE WriteBundle
  BY <1>1 DEF WriteBundle
<1>2. CASE WriteReport
  BY <1>2 DEF WriteReport
<1>3. CASE UNCHANGED <<bundle, report>>
  BY <1>3
<1> QED
  BY <1>1, <1>2, <1>3 DEF Next, Step, vars, source, CutFile, Commit, MakeTag, PushHead, Pack,
       WriteTree,
        PublishNpm, BuildPython, UploadPython, Finished, UploadBlobs, MoveBranch,
        CreateTag, PushBundle, StartCut, StartBundle, StartFinalize, StartApi, Edit,
        Restore, Pull, OtherPush, Kill

(* A package holds the tree that a run of finalize packed or built.          *)
LEMMA PackageWrites ==
  ASSUME IInv, [Next]_vars
  PROVE  \/ UNCHANGED packages
         \/ /\ script = "finalize"
            /\ tarball' \in {tarball, work} /\ npm' \in {npm, tarball}
            /\ dist' \in {dist, work} /\ pypi' \in {pypi, dist}
<1>1. CASE Pack
  BY <1>1, ScriptAt DEF Pack, Doing, IInv, TypeOK
<1>2. CASE PublishNpm
  BY <1>2, ScriptAt DEF PublishNpm, Doing, IInv, TypeOK
<1>3. CASE BuildPython
  BY <1>3, ScriptAt DEF BuildPython, Doing, IInv, TypeOK
<1>4. CASE UploadPython
  BY <1>4, ScriptAt DEF UploadPython, IInv, TypeOK
<1>5. CASE UNCHANGED packages
  BY <1>5
<1> QED
  BY <1>1, <1>2, <1>3, <1>4, <1>5 DEF Next, Step, vars, CutFile, Commit, MakeTag, PushHead,
       WriteTree, WriteBundle,
        WriteReport, Finished, UploadBlobs, MoveBranch, CreateTag, PushBundle, StartCut,
        StartBundle, StartFinalize, StartApi, Edit, Restore, Pull, OtherPush, Kill

(* The working tree is cut, edited, or replaced between two scripts.         *)
LEMMA WorkMoves ==
  ASSUME IInv, [Next]_vars
  PROVE  \/ UNCHANGED work
         \/ /\ pc = "cut" /\ Unwritten # {} /\ UNCHANGED script
            /\ work' = [work EXCEPT !.files = @ \cup {CutOrder[Min(Unwritten)]}]
         \/ /\ edits < MaxEdits /\ UNCHANGED script
            /\ work' = [work EXCEPT !.content = edits + 1]
         \/ /\ pc = "idle" /\ UNCHANGED script
            /\ work' \in {TreeOf(head), TreeOf(remote.master)}
<1>1. CASE CutFile
  BY <1>1 DEF CutFile, At
<1>2. CASE Edit
  BY <1>2 DEF Edit, control
<1>3. CASE Restore
  BY <1>3 DEF Restore, control
<1>4. CASE Pull
  BY <1>4 DEF Pull, control
<1>5. CASE UNCHANGED work
  BY <1>5
<1> QED
  BY <1>1, <1>2, <1>3, <1>4, <1>5 DEF Next, Step, vars, Frame, Commit, MakeTag, PushHead, Pack,
       WriteTree,
        WriteBundle, WriteReport, PublishNpm, BuildPython, UploadPython, Finished,
        UploadBlobs, MoveBranch, CreateTag, PushBundle, StartCut, StartBundle,
        StartFinalize, StartApi, OtherPush, Kill
-----------------------------------------------------------------------------
(* Trees, commits and packages stay what git and the registries can hold.    *)
LEMMA SourceStep ==
  ASSUME IInv, [Next]_vars
  PROVE  SourceOK' /\ RefsInv'
<1>0. SourceOK /\ RefsInv /\ ControlInv /\ ControlOK /\ CountersOK
  BY DEF IInv, TypeOK
<1>1. {TreeOf(head), TreeOf(remote.master)} \subseteq Trees
  BY <1>0, LastOf DEF SourceOK, Histories
<1>2. work' \in Trees
  <2>1. CASE pc = "cut" /\ Unwritten # {}
             /\ work' = [work EXCEPT !.files = @ \cup {CutOrder[Min(Unwritten)]}]
    <3>1. Min(Unwritten) \in Unwritten
      BY <2>1, MinIsLeast, CutFacts DEF Unwritten
    <3>2. CutOrder[Min(Unwritten)] \in Files
      BY <3>1 DEF Unwritten, Files
    <3> QED
      BY <1>0, <2>1, <3>2 DEF SourceOK, Trees
  <2>2. CASE edits < MaxEdits /\ work' = [work EXCEPT !.content = edits + 1]
    <3>1. edits + 1 \in 0..Theirs
      BY <1>0, <2>2, ReleaseAssumption DEF CountersOK, Theirs
    <3> QED
      BY <1>0, <2>2, <3>1 DEF SourceOK, Trees
  <2> QED
    BY <1>0, <1>1, <2>1, <2>2, WorkMoves DEF SourceOK
<1>3. head' \in Histories /\ upstream' \in Histories
  BY <1>0, ChildOf, HeadMoves, UpstreamMoves DEF SourceOK, Histories
<1>4. {tarball, npm, dist, pypi}' \subseteq Trees \cup {None}
  BY <1>0, PackageWrites DEF SourceOK, packages
<1>5. localTag' \in Tags \cup {None}
  BY <1>0, TagMoves DEF SourceOK, RefsInv, Tags, Tag, Histories
<1>6. {bundle, report}' \subseteq Bundles \cup {None}
  <2>1. pc \in {"bundle", "report"} => Bundle(built) \in Bundles
    BY <1>0 DEF ControlOK, ControlInv, Bundles, Histories
  <2> QED
    BY <1>0, <2>1, BundleWrites DEF RefsInv
<1>7. /\ remote' = [master |-> remote'.master, tag |-> remote'.tag]
      /\ remote'.master \in Histories /\ remote'.tag \in Tags \cup {None}
  <2>1. ASSUME NEW b \in Bundles
        PROVE  /\ b.commit \in Histories /\ b.tag \in Tags
               /\ Tag(b.commit, "release") \in Tags
    BY DEF Bundles, Bundle, Tag, Tags
  <2>2. remote.master \in Histories /\ head \in Histories
        /\ {localTag, remote.tag} \subseteq Tags \cup {None}
    BY <1>0 DEF SourceOK, RefsInv, Histories
  <2>3. CASE UNCHANGED remote
    BY <1>0, <2>2, <2>3 DEF RefsInv
  <2>4. CASE FinalizeMoves
    BY <2>2, <2>4 DEF FinalizeMoves, Remote
  <2>5. CASE ApiMoves
    BY <1>0, <2>1, <2>2, <2>5 DEF ApiMoves, Remote, ControlInv
  <2>6. CASE BundleMoves
    BY <1>0, <2>1, <2>2, <2>6 DEF BundleMoves, Remote, ControlInv
  <2>7. CASE OtherMoves
    <3>1. [TreeOf(remote.master) EXCEPT !.content = Theirs] \in Trees
      BY <1>1, ReleaseAssumption DEF Trees, Theirs
    <3> QED
      BY <2>2, <2>7, <3>1, ChildOf DEF OtherMoves, Remote, Histories
  <2> QED
    BY <2>3, <2>4, <2>5, <2>6, <2>7, RemoteMoves
<1> QED
  BY <1>2, <1>3, <1>4, <1>5, <1>6, <1>7 DEF SourceOK, RefsInv, Histories

(* A script that has ended leaves nothing behind.                            *)
LEMMA EndedControl ==
  ASSUME End
  PROVE  ControlOK' /\ ControlInv'
<1>1. ControlOK'
  BY DEF End, ControlOK
<1>2. ControlInv'
  BY SomeIsNotNone DEF End, ControlInv
<1> QED
  BY <1>1, <1>2

(* A run of finalize goes on.                                                *)
LEMMA FinalizeControl ==
  ASSUME ControlOK, ControlInv, script = "finalize", UNCHANGED script, todo' \subseteq todo,
         pc' \in {"finalize", "bundle", "report", "upload"}, built' \in Commits,
         pc' \in {"bundle", "report"} => "bundle" \in todo' /\ built' # None,
         pc' = "upload" => "pypi" \in todo' /\ dist' # None /\ NextAction' = "pypi"
  PROVE  ControlOK' /\ ControlInv'
<1>1. ControlOK'
  BY DEF ControlOK
<1>2. ControlInv'
  BY DEF ControlInv
<1> QED
  BY <1>1, <1>2

(* A script is where its steps have brought it, on what it has read.         *)
LEMMA ControlStep ==
  ASSUME IInv, [Next]_vars
  PROVE  ControlOK' /\ ControlInv'
<1>0. /\ ControlOK /\ ControlInv /\ RefsInv /\ CommitsInv
      /\ work \in Trees /\ {head, remote.master} \subseteq Commits
      /\ remote.master \in Histories
  BY DEF IInv, TypeOK, SourceOK, Histories
<1> DEFINE Finalizes == script = "finalize" /\ (pc = "finalize" /\ todo # {} => NextAction \in todo)
<1>a. pc \in {"finalize", "bundle", "report", "upload"} => Finalizes
  BY <1>0, ScriptAt, NextActionIsFirst DEF ControlOK
<1>b. ASSUME Done, pc \in {"finalize", "upload"}
      PROVE  ControlOK' /\ ControlInv'
  BY <1>0, <1>a, <1>b, FinalizeControl DEF Done, ControlInv
<1>1. CASE CutFile
  <2>1. CASE End
    BY <2>1, EndedControl
  <2>2. CASE At("cut") /\ UNCHANGED built
    <3>1. script = "cut"
      BY <1>0, <1>1, ScriptAt DEF CutFile
    <3>2. ControlOK'
      BY <1>0, <2>2, <3>1 DEF ControlOK, At
    <3>3. ControlInv'
      BY <1>0, <2>2, <3>1 DEF ControlInv, At
    <3> QED
      BY <3>2, <3>3
  <2> QED
    BY <1>1, <2>1, <2>2 DEF CutFile
<1>2. CASE Commit \/ MakeTag \/ PushHead \/ Pack \/ PublishNpm \/ UploadPython \/ Finished
  BY <1>2, <1>b, EndedControl DEF Commit, MakeTag, PushHead, Pack, PublishNpm, UploadPython,
       Finished,
     Doing
<1>3. CASE WriteTree
  <2>1. CASE built' = ReleaseCommit(head, work) /\ At("bundle")
    <3>1. built' \in Histories
      BY <1>0, <2>1, ChildOf DEF ReleaseCommit
    <3> QED
      BY <1>0, <1>3, <1>a, <2>1, <3>1, FinalizeControl DEF WriteTree, Doing, At, Histories
  <2> QED
    BY <1>3, <2>1, EndedControl DEF WriteTree
<1>4. CASE WriteBundle
  <2>1. CASE At("report") /\ UNCHANGED built
    BY <1>0, <1>4, <1>a, <2>1, FinalizeControl DEF WriteBundle, At, ControlOK, ControlInv
  <2> QED
    BY <1>4, <2>1, EndedControl DEF WriteBundle
<1>5. CASE WriteReport
  BY <1>0, <1>5, <1>a, SomeIsNotNone, FinalizeControl DEF WriteReport
<1>6. CASE BuildPython
  <2>1. CASE dist' = work /\ At("upload") /\ UNCHANGED built
    <3>1. NextAction' = NextAction
      BY <2>1 DEF At, NextAction
    <3> QED
      BY <1>0, <1>6, <1>a, <2>1, <3>1, SomeIsNotNone, FinalizeControl
         DEF BuildPython, Doing, At, ControlInv
  <2> QED
    BY <1>6, <2>1, EndedControl DEF BuildPython
<1>7. CASE UploadBlobs
  <2>1. CASE At("branch") /\ built' = seen.expected.commit
    <3>1. script = "api" /\ built' \in Commits
      BY <1>0, <1>7, <2>1, ScriptAt DEF UploadBlobs, ControlInv, Bundles, Bundle, Histories
    <3>2. ControlOK'
      BY <1>0, <2>1, <3>1 DEF ControlOK, At
    <3>3. ControlInv'
      BY <1>0, <2>1, <3>1 DEF ControlInv, At
    <3> QED
      BY <3>2, <3>3
  <2> QED
    BY <1>7, <2>1, EndedControl DEF UploadBlobs, Matches
<1>8. CASE MoveBranch
  <2>1. CASE At("tag") /\ UNCHANGED built
    <3>1. script = "api" /\ pc = "branch"
      BY <1>0, <1>8, ScriptAt DEF MoveBranch
    <3>2. ControlOK'
      BY <1>0, <2>1, <3>1 DEF ControlOK, At
    <3>3. ControlInv'
      BY <1>0, <2>1, <3>1 DEF ControlInv, At
    <3> QED
      BY <3>2, <3>3
  <2> QED
    BY <1>8, <2>1, EndedControl DEF MoveBranch
<1>9. CASE CreateTag \/ PushBundle \/ Kill
  BY <1>9, EndedControl DEF CreateTag, PushBundle, Kill
<1>10. CASE StartCut
  <2>1. script' = "cut" /\ pc' = "cut" /\ todo' = {} /\ built' = None
    BY <1>0, <1>10, ScriptAt DEF StartCut, Start, ControlInv
  <2>2. ControlOK'
    BY <1>0, <2>1 DEF ControlOK
  <2>3. ControlInv'
    BY <1>0, <2>1, SomeIsNotNone DEF ControlInv
  <2> QED
    BY <2>2, <2>3
<1>11. CASE StartBundle
  <2>1. /\ script' = "bundle" /\ pc' = "push" /\ todo' = {} /\ built' = None
        /\ seen' = bundle /\ bundle # None
    BY <1>0, <1>11, ScriptAt DEF StartBundle, Start, MayPublish, ControlInv
  <2>2. ControlOK'
    BY <1>0, <2>1 DEF ControlOK
  <2>3. bundle \in Bundles /\ Released(bundle.commit)
    BY <1>0, <2>1 DEF RefsInv, CommitsInv
  <2>4. ControlInv'
    BY <1>0, <2>1, <2>3, SomeIsNotNone DEF ControlInv
  <2> QED
    BY <2>2, <2>4
<1>12. CASE \E selection \in Selections : StartFinalize(selection)
  <2>1. PICK selection \in Selections : StartFinalize(selection)
    BY <1>12
  <2>2. script' = "finalize" /\ pc' = "finalize" /\ UNCHANGED built
    BY <2>1 DEF StartFinalize, Start
  <2>3. todo' \subseteq {Actions[i] : i \in DOMAIN Actions}
    <3>1. Actions[4] = "pack" /\ DOMAIN Actions = 1..7
      BY DEF Actions
    <3>2. selection \subseteq {Actions[i] : i \in DOMAIN Actions}
      BY ReleaseAssumption
    <3> QED
      BY <2>1, <3>1, <3>2 DEF StartFinalize, Selected
  <2>4. ControlOK'
    BY <2>2, <2>3 DEF ControlOK
  <2>5. ControlInv'
    BY <1>0, <2>2 DEF ControlInv
  <2> QED
    BY <2>4, <2>5
<1>13. CASE \E force \in BOOLEAN : StartApi(force)
  <2>1. /\ script' = "api" /\ pc' = "blobs" /\ todo' = {} /\ UNCHANGED built
        /\ seen' = [branch |-> remote.master, entries |-> Entries, expected |-> report]
        /\ report # None
    BY <1>0, <1>13, ScriptAt DEF StartApi, Start, ApiMayStart, RemoteRefs
  <2>2. ControlOK'
    BY <1>0, <2>1 DEF ControlOK
  <2>3. report \in Bundles /\ Released(report.commit)
    BY <1>0, <2>1 DEF RefsInv, CommitsInv
  <2>4. ControlInv'
    BY <1>0, <2>1, <2>3 DEF ControlInv
  <2> QED
    BY <2>2, <2>4
<1>14. CASE UNCHANGED <<script, pc, todo, built, seen, dist>>
  <2>1. ControlOK'
    BY <1>0, <1>14 DEF ControlOK
  <2>2. ControlInv'
    <3>1. NextAction' = NextAction
      BY <1>14 DEF NextAction
    <3> QED
      BY <1>0, <1>14, <3>1 DEF ControlInv
  <2> QED
    BY <2>1, <2>2
<1> QED
  BY <1>1, <1>2, <1>3, <1>4, <1>5, <1>6, <1>7, <1>8, <1>9, <1>10, <1>11, <1>12, <1>13, <1>14
     DEF Next, Step, vars, control, packages, Edit, Restore, Pull, OtherPush

(* The counters stay within their bounds.                                    *)
LEMMA CountersStep ==
  ASSUME IInv, [Next]_vars
  PROVE  CountersOK'
<1> USE ReleaseAssumption DEF CountersOK, Works, Fails, Counted, counters, Frame, vars
<1>0. CountersOK
  BY DEF IInv, TypeOK
<1>1. CASE Step
  BY <1>0, <1>1 DEF Step, CutFile, Commit, MakeTag, PushHead, Pack, WriteTree, WriteBundle,
     WriteReport, PublishNpm, BuildPython, UploadPython, Finished, UploadBlobs, MoveBranch,
     CreateTag, PushBundle
<1>2. CASE StartCut \/ StartBundle
  BY <1>0, <1>2 DEF StartCut, StartBundle
<1>3. CASE \E selection \in Selections : StartFinalize(selection)
  BY <1>0, <1>3 DEF StartFinalize
<1>4. CASE \E force \in BOOLEAN : StartApi(force)
  BY <1>0, <1>4 DEF StartApi
<1>5. CASE Edit \/ Restore \/ Pull \/ OtherPush \/ Kill
  BY <1>0, <1>5 DEF Edit, Restore, Pull, OtherPush, Kill
<1> QED
  BY <1>0, <1>1, <1>2, <1>3, <1>4, <1>5 DEF Next
-----------------------------------------------------------------------------
(* The readiness check does not read the server's own version, and need not: *)
(* the Python version is written after it.                                   *)
LEMMA CoherentIsWhole ==
  ASSUME InOrder(work.files), "package" \in work.files, Coherent
  PROVE  Whole(work)
<1>1. VersionCheck # "failed"
  <2>1. 1 \in DOMAIN Checks /\ Checks[1] = VersionCheck
    BY DEF Checks
  <2> QED
    BY <2>1 DEF Coherent
<1>2. Cut(work) # {}
  BY CutFacts DEF Cut
<1>3. Cut(work) = Surfaces \ {"config"}
  BY <1>1, <1>2 DEF VersionCheck
<1>4. "config" \in work.files
  <2>1. 4 \in 2..5 /\ CutOrder[4] \in work.files /\ CutOrder[4 - 1] = "config"
    BY <1>3, CutFacts DEF Cut
  <2> QED
    BY <2>1 DEF InOrder
<1> QED
  BY <1>3, <1>4, CutFacts DEF Whole, Cut

(* The next file of the cut leaves no gap.                                   *)
LEMMA CutInOrder ==
  ASSUME NEW files, InOrder(files), NEW next \in 1..5,
         \A i \in 1..5 : CutOrder[i] \notin files => next <= i
  PROVE  InOrder(files \cup {CutOrder[next]})
<1> SUFFICES ASSUME NEW i \in 2..5, CutOrder[i] \in files \cup {CutOrder[next]}
             PROVE  CutOrder[i - 1] \in files \cup {CutOrder[next]}
  BY DEF InOrder
<1>1. CASE CutOrder[i] \in files
  BY <1>1 DEF InOrder
<1>2. CASE CutOrder[i] = CutOrder[next]
  <2>1. i = next
    BY <1>2, CutFacts
  <2>2. i - 1 \in 1..5 /\ ~(next <= i - 1)
    BY <2>1
  <2> QED
    BY <2>2
<1> QED
  BY <1>1, <1>2

(* A run of finalize goes on or starts.                                      *)
LEMMA FinalizeStarts ==
  ASSUME [Next]_vars, script' = "finalize"
  PROVE  UNCHANGED script \/ \E selection \in Selections : StartFinalize(selection)
<1>1. CASE UNCHANGED script
  BY <1>1
<1>2. CASE \E selection \in Selections : StartFinalize(selection)
  BY <1>2
<1> QED
  BY <1>1, <1>2 DEF Next, Step, vars, control, End, At, Done, Start, CutFile, Commit, MakeTag,
       PushHead,
     Pack, WriteTree, WriteBundle, WriteReport, PublishNpm, BuildPython, UploadPython, Finished,
     UploadBlobs, MoveBranch, CreateTag, PushBundle, StartCut, StartBundle, StartApi, Edit, Restore,
     Pull, OtherPush, Kill

(* The working tree is cut in order, and a run of finalize is of a whole one. *)
LEMMA WorkStep ==
  ASSUME IInv, [Next]_vars
  PROVE  WorkInv'
<1>0. /\ WorkInv /\ ControlOK /\ ControlInv /\ work \in Trees
      /\ {head, remote.master} \subseteq Histories /\ Sound(head) /\ Sound(remote.master)
  BY DEF IInv, TypeOK, SourceOK, CommitsInv, Histories
<1>1. InOrder(work'.files) /\ (script = "finalize" => work'.files = work.files)
  <2>1. CASE pc = "cut" /\ Unwritten # {}
             /\ work' = [work EXCEPT !.files = @ \cup {CutOrder[Min(Unwritten)]}]
    <3>1. Unwritten \subseteq 1..5 /\ Min(Unwritten) \in Unwritten
          /\ \A i \in Unwritten : Min(Unwritten) <= i
      <4>1. Unwritten \subseteq 1..5
        BY CutFacts DEF Unwritten
      <4> QED
        BY <2>1, <4>1, MinIsLeast
    <3>2. \A i \in 1..5 : CutOrder[i] \notin work.files => Min(Unwritten) <= i
      BY <3>1, CutFacts DEF Unwritten
    <3>3. InOrder(work.files \cup {CutOrder[Min(Unwritten)]})
      BY <1>0, <3>1, <3>2, CutInOrder DEF WorkInv
    <3>4. work'.files = work.files \cup {CutOrder[Min(Unwritten)]}
      BY <1>0, <2>1 DEF Trees
    <3>5. script = "cut"
      BY <1>0, <2>1, ScriptAt
    <3> QED
      BY <3>3, <3>4, <3>5
  <2>2. CASE work' = [work EXCEPT !.content = edits + 1]
    <3>1. work'.files = work.files
      BY <1>0, <2>2 DEF Trees
    <3> QED
      BY <1>0, <3>1 DEF WorkInv
  <2>3. CASE pc = "idle" /\ work' \in {TreeOf(head), TreeOf(remote.master)}
    <3>1. script # "finalize"
      BY <1>0, <2>3, ScriptAt
    <3> QED
      BY <1>0, <2>3, <3>1, LastOf DEF TreeOf, SoundEntry
  <2>4. CASE UNCHANGED work
    BY <1>0, <2>4 DEF WorkInv
  <2> QED
    BY <2>1, <2>2, <2>3, <2>4, WorkMoves
<1>2. script' = "finalize" => Whole(work')
  <2>1. CASE UNCHANGED script
    BY <1>0, <1>1, <2>1 DEF WorkInv, Whole
  <2>2. CASE \E selection \in Selections : StartFinalize(selection)
    <3>1. "package" \in work.files /\ Coherent /\ UNCHANGED work
      BY <2>2 DEF StartFinalize
    <3> QED
      BY <1>0, <3>1, CoherentIsWhole DEF WorkInv
  <2> QED
    BY <2>1, <2>2, FinalizeStarts
<1> QED
  BY <1>1, <1>2 DEF WorkInv

(* What a commit of the present tree keeps.                                  *)
LEMMA WorkIsSound ==
  ASSUME IInv, script = "finalize", NEW by \in {"git", "release"}
  PROVE  LET commit == Child(head, work, by)
         IN commit \in Histories /\ Released(commit)
<1>1. work \in Trees /\ head \in Commits /\ Sound(head) /\ InOrder(work.files) /\ Whole(work)
  BY DEF IInv, TypeOK, SourceOK, CommitsInv, WorkInv
<1>2. SoundEntry(Entry(work, by))
  BY <1>1 DEF SoundEntry, Entry
<1> QED
  BY <1>1, <1>2, ChildOf DEF Released

(* finalize builds a commit on HEAD of the tree that is there.               *)
LEMMA BuiltMoves ==
  ASSUME IInv, [Next]_vars, script' = "finalize", built' # None
  PROVE  \/ UNCHANGED <<script, built>>
         \/ Doing("bundle") /\ built' = ReleaseCommit(head, work)
<1>0. ControlOK /\ ControlInv
  BY DEF IInv, TypeOK
<1>1. CASE UNCHANGED <<script, built>>
  BY <1>1
<1>2. CASE WriteTree
  BY <1>2 DEF WriteTree, End
<1>3. CASE \E selection \in Selections : StartFinalize(selection)
  BY <1>0, <1>3, ScriptAt DEF StartFinalize, Start, ControlInv
<1>4. CASE UploadBlobs
  BY <1>0, <1>4, ScriptAt DEF UploadBlobs, End, At
<1> QED
  BY <1>1, <1>2, <1>3, <1>4 DEF Next, Step, vars, control, End, At, Done, Start, CutFile,
       Commit, MakeTag,
     PushHead, Pack, WriteBundle, WriteReport, PublishNpm, BuildPython, UploadPython, Finished,
     MoveBranch, CreateTag, PushBundle, StartCut, StartBundle, StartApi, Edit, Restore, Pull,
     OtherPush, Kill

(* A commit that a script made is of a whole tree.                           *)
LEMMA CommitsStep ==
  ASSUME IInv, [Next]_vars
  PROVE  CommitsInv'
<1>0. /\ CommitsInv /\ ControlOK /\ ControlInv /\ RefsInv
      /\ remote.master \in Histories
  BY DEF IInv, TypeOK, SourceOK, Histories
<1>1. Sound(head')
  <2>1. CASE Doing("commit") /\ head' = Child(head, work, "git")
    BY <1>0, <2>1, ScriptAt, WorkIsSound DEF Doing, Released
  <2> QED
    BY <1>0, <2>1, HeadMoves DEF CommitsInv
<1>2. Sound(remote'.master)
  <2>1. CASE ApiMoves
    BY <1>0, <2>1 DEF ApiMoves, Remote, ControlInv, CommitsInv, Released
  <2>2. CASE BundleMoves
    BY <1>0, <2>2 DEF BundleMoves, Remote, ControlInv, CommitsInv, Released
  <2>3. CASE FinalizeMoves
    BY <1>0, <2>3 DEF FinalizeMoves, Remote, CommitsInv
  <2>4. CASE OtherMoves
    <3> DEFINE tree == [TreeOf(remote.master) EXCEPT !.content = Theirs]
    <3>1. TreeOf(remote.master) \in Trees /\ SoundEntry(Last(remote.master))
      BY <1>0, LastOf DEF CommitsInv
    <3>2. tree \in Trees /\ tree.files = TreeOf(remote.master).files
      BY <3>1, ReleaseAssumption DEF Trees, Theirs
    <3>3. SoundEntry(Entry(tree, "other"))
      BY <3>1, <3>2 DEF SoundEntry, Entry, TreeOf
    <3>4. Sound(Child(remote.master, tree, "other"))
      BY <1>0, <3>2, <3>3, ChildOf DEF CommitsInv, Histories
    <3> QED
      BY <2>4, <3>4 DEF OtherMoves, Remote
  <2> QED
    BY <1>0, <2>1, <2>2, <2>3, <2>4, RemoteMoves DEF CommitsInv
<1>3. script' = "finalize" /\ built' # None => Released(built')
  <2> SUFFICES ASSUME script' = "finalize", built' # None PROVE Released(built')
    OBVIOUS
  <2>1. CASE Doing("bundle") /\ built' = ReleaseCommit(head, work)
    BY <1>0, <2>1, ScriptAt, WorkIsSound DEF Doing, ReleaseCommit
  <2>2. CASE UNCHANGED <<script, built>>
    BY <1>0, <2>2 DEF CommitsInv
  <2> QED
    BY <2>1, <2>2, BuiltMoves
<1>4. \A b \in {bundle, report}' \ {None} : Released(b.commit)
  <2>1. CASE pc \in {"bundle", "report"} /\ bundle' \in {bundle, Bundle(built)}
             /\ report' \in {report, Bundle(built)}
    <3>1. Released(built) /\ Bundle(built).commit = built
      BY <1>0, <2>1, ScriptAt DEF CommitsInv, ControlOK, Bundle
    <3> QED
      BY <1>0, <2>1, <3>1 DEF CommitsInv
  <2> QED
    BY <1>0, <2>1, BundleWrites DEF CommitsInv
<1> QED
  BY <1>1, <1>2, <1>3, <1>4 DEF CommitsInv

(* A package that was packed, built or published is whole.                   *)
LEMMA PackagesStep ==
  ASSUME IInv, [Next]_vars
  PROVE  PackagesInv'
<1>1. PackagesInv /\ (script = "finalize" => Whole(work))
  BY DEF IInv, WorkInv
<1> QED
  BY <1>1, PackageWrites DEF PackagesInv, packages

(* The repository before the cut.                                            *)
LEMMA InitIInv == Init => IInv
<1> SUFFICES ASSUME Init PROVE IInv
  OBVIOUS
<1>1. OldTree \in Trees /\ InOrder(OldTree.files)
  BY ReleaseAssumption, CutFacts DEF OldTree, Trees, Theirs, InOrder
<1>2. Root \in Commits /\ Root # None /\ Sound(Root)
  <2>1. Entry(OldTree, "other") \in [tree : Trees, by : {"git", "release", "other"}]
        /\ SoundEntry(Entry(OldTree, "other"))
    BY <1>1 DEF Entry, SoundEntry
  <2>2. /\ Root \in Commits /\ Len(Root) = 1 /\ DOMAIN Root = {1}
        /\ Root[1] = Entry(OldTree, "other")
    BY <2>1 DEF Root, Commits
  <2> QED
    BY <2>1, <2>2 DEF Sound, None
<1>3. TypeOK
  BY <1>1, <1>2, ReleaseAssumption DEF Init, TypeOK, SourceOK, ControlOK, CountersOK
<1>4. ControlInv
  BY SomeIsNotNone DEF Init, ControlInv
<1>5. RefsInv /\ CommitsInv /\ PackagesInv
  BY <1>2 DEF Init, RefsInv, CommitsInv, PackagesInv
<1>6. WorkInv
  BY <1>1 DEF Init, WorkInv
<1> QED
  BY <1>3, <1>4, <1>5, <1>6 DEF IInv

(* The inductive invariant of the release scripts.                           *)
THEOREM ReleaseInvariant == Spec => []IInv
<1>1. IInv /\ [Next]_vars => IInv'
  BY SourceStep, ControlStep, CountersStep, WorkStep, CommitsStep, PackagesStep DEF IInv, TypeOK
<1> QED
  BY <1>1, InitIInv, PTL DEF Spec

(* The scripts go through their steps in order, on refs and packages that    *)
(* are what git and the registries can hold.                                 *)
THEOREM TypeCorrect == Spec => []TypeOK
<1>1. IInv => TypeOK
  BY DEF IInv
<1> QED
  BY <1>1, ReleaseInvariant, PTL

(* No script takes a commit of others off the remote branch.                 *)
THEOREM CommitsAreKept == Spec => RemoteKeepsCommits
<1>1. IInv /\ [Next]_vars
        => [IsPrefix(remote.master, remote.master') \/ (script = "api" /\ forced)]_vars
  <2> SUFFICES ASSUME IInv, [Next]_vars
               PROVE  IsPrefix(remote.master, remote.master') \/ (script = "api" /\ forced)
    OBVIOUS
  <2>1. remote.master \in Histories /\ remote.master \in Commits
    BY DEF IInv, TypeOK, SourceOK, Histories
  <2>2. CASE UNCHANGED remote
    BY <2>1, <2>2, PrefixOfItself
  <2>3. CASE FinalizeMoves
    BY <2>3 DEF FinalizeMoves, Remote
  <2>4. CASE ApiMoves
    BY <2>1, <2>4, PrefixOfItself DEF ApiMoves, Remote
  <2>5. CASE BundleMoves
    BY <2>5 DEF BundleMoves, Remote
  <2>6. CASE OtherMoves
    <3>1. [TreeOf(remote.master) EXCEPT !.content = Theirs] \in Trees
      BY <2>1, LastOf, ReleaseAssumption DEF Trees, Theirs
    <3> QED
      BY <2>1, <2>6, <3>1, ChildOf DEF OtherMoves, Remote
  <2> QED
    BY <2>2, <2>3, <2>4, <2>5, <2>6, RemoteMoves
<1> QED
  BY <1>1, ReleaseInvariant, PTL DEF RemoteKeepsCommits, Spec

(* A publisher moves the branch to what was bundled and reported, or not.    *)
THEOREM BundledIsPublished == Spec => PublishesWhatWasBundled
<1>1. IInv /\ [Next]_vars
        => [(script \in {"api", "bundle"} /\ pc # "idle"
              /\ remote.master # remote.master' /\ Last(remote.master').by # "other")
             => remote.master' = IF script = "api" THEN seen.expected.commit ELSE seen.commit]_vars
  <2> SUFFICES ASSUME IInv, [Next]_vars, script \in {"api", "bundle"},
                      remote.master # remote.master', Last(remote.master').by # "other"
               PROVE  remote.master' = IF script = "api" THEN seen.expected.commit ELSE seen.commit
    OBVIOUS
  <2>1. remote.master \in Histories /\ remote.master \in Commits
    BY DEF IInv, TypeOK, SourceOK, Histories
  <2>2. ~OtherMoves
    <3> SUFFICES ASSUME OtherMoves PROVE FALSE
      OBVIOUS
    <3> DEFINE tree == [TreeOf(remote.master) EXCEPT !.content = Theirs]
    <3>1. remote'.master = Child(remote.master, tree, "other")
      BY DEF OtherMoves, Remote
    <3>2. tree \in Trees
      BY <2>1, LastOf, ReleaseAssumption DEF Trees, Theirs
    <3> HIDE DEF tree
    <3>3. Last(Child(remote.master, tree, "other")) = Entry(tree, "other")
      BY <2>1, <3>2, ChildOf
    <3>4. Last(Child(remote.master, tree, "other")).by = "other"
      BY <3>3 DEF Entry
    <3> QED
      BY <3>1, <3>4
  <2> QED
    BY <2>2, RemoteMoves DEF FinalizeMoves, ApiMoves, BundleMoves, Remote
<1> QED
  BY <1>1, ReleaseInvariant, PTL DEF PublishesWhatWasBundled, Spec

(* What the registries and the branch have carries the version, whatever     *)
(* finalize was asked for.                                                   *)
THEOREM PackagesAreWhole == Spec => [](RegistriesAreWhole /\ BranchIsWhole)
<1>1. IInv => RegistriesAreWhole
  BY DEF IInv, PackagesInv, RegistriesAreWhole
<1>2. IInv => BranchIsWhole
  BY DEF IInv, CommitsInv, Sound, SoundEntry, BranchIsWhole
<1> QED
  BY <1>1, <1>2, ReleaseInvariant, PTL

(* An action is taken off the list when it is done.                          *)
LEMMA TodoMoves ==
  ASSUME IInv, [Next]_vars, script' = "finalize", UNCHANGED script
  PROVE  /\ todo' \subseteq todo
         /\ "commit" \in todo \ todo' => Doing("commit") /\ head' = Child(head, work, "git")
<1>0. ControlOK /\ ControlInv
  BY DEF IInv, TypeOK
<1>1. CASE Commit
  BY <1>1 DEF Commit, Done, Doing, End
<1>2. CASE MakeTag \/ PushHead \/ Pack \/ PublishNpm
  BY <1>2 DEF MakeTag, PushHead, Pack, PublishNpm, Done, Doing, End
<1>3. CASE UploadPython
  BY <1>0, <1>3 DEF UploadPython, Done, End, ControlInv
<1>4. CASE WriteReport
  BY <1>4 DEF WriteReport
<1>5. CASE UNCHANGED todo
  BY <1>5
<1>6. CASE pc = "idle"
  BY <1>0, <1>6, ScriptAt
<1> QED
  BY <1>1, <1>2, <1>3, <1>4, <1>5, <1>6 DEF Next, Step, vars, control, End, At, Start, CutFile,
     WriteTree, WriteBundle, BuildPython, Finished, UploadBlobs, MoveBranch, CreateTag, PushBundle,
     StartCut, StartBundle, StartFinalize, StartApi, Edit, Restore, Pull, OtherPush, Kill

(* When every run that tags commits first, what the tag names carries it too. *)
LEMMA TagsAreWhole ==
  ASSUME TagsWhatItCommits
  PROVE  Spec => []TagsInv
<1>1. Init => TagsInv
  BY DEF Init, TagsInv
<1>2. IInv /\ TagsInv /\ [Next]_vars => TagsInv'
  <2> SUFFICES ASSUME IInv, TagsInv, [Next]_vars PROVE TagsInv'
    OBVIOUS
  <2>0. ControlOK /\ ControlInv /\ RefsInv
    BY DEF IInv, TypeOK
  <2>1. localTag' # None => Whole(TreeOf(localTag'.commit))
    <3>1. CASE Doing("tag") /\ localTag' = Tag(head, "git")
      <4>1. "tag" \in todo /\ "commit" \notin todo
        BY <2>0, <3>1, NextActionIsFirst DEF Doing, ControlOK
      <4> QED
        BY <3>1, <4>1 DEF TagsInv, Tag
    <3> QED
      BY <3>1, TagMoves DEF TagsInv
  <2>2. remote'.tag # None => Whole(TreeOf(remote'.tag.commit))
    <3>1. ASSUME NEW b \in Bundles, Released(b.commit)
          PROVE  /\ Whole(TreeOf(b.tag.commit))
                 /\ Whole(TreeOf(Tag(b.commit, "release").commit))
      BY <3>1 DEF Bundles, Bundle, Tag, Released
    <3> QED
      BY <2>0, <3>1, RemoteMoves DEF FinalizeMoves, ApiMoves, BundleMoves, OtherMoves, Remote,
           TagsInv,
         ControlInv
  <2>3. "tag" \in todo' /\ "commit" \notin todo' => Whole(TreeOf(head'))
    <3> SUFFICES ASSUME "tag" \in todo', "commit" \notin todo'
                 PROVE  Whole(TreeOf(head'))
      OBVIOUS
    <3>1. CASE Doing("commit") /\ head' = Child(head, work, "git")
      BY <2>0, <3>1, ScriptAt, WorkIsSound DEF Doing, Released
    <3>2. script' = "finalize"
      BY ControlStep DEF ControlInv
    <3>3. CASE \E selection \in Selections : StartFinalize(selection)
      BY <3>3 DEF StartFinalize, Selected, TagsWhatItCommits
    <3>4. CASE UNCHANGED script
      <4>1. pc # "idle"
        BY <2>0, <3>2, <3>4, ScriptAt
      <4>2. CASE UNCHANGED head
        BY <3>1, <3>2, <3>4, <4>2, TodoMoves DEF TagsInv
      <4> QED
        BY <3>1, <4>1, <4>2, HeadMoves
    <3> QED
      BY <3>2, <3>3, <3>4, FinalizeStarts
  <2> QED
    BY <2>1, <2>2, <2>3 DEF TagsInv
<1> QED
  BY <1>1, <1>2, ReleaseInvariant, PTL DEF Spec

(* Everything that is published carries the version on every surface.        *)
THEOREM EverythingIsWhole ==
  ASSUME TagsWhatItCommits
  PROVE  Spec => []PublishedIsWhole
<1>1. TagsInv => TagIsWhole
  BY DEF TagsInv, TagIsWhole
<1> QED
  BY <1>1, PackagesAreWhole, TagsAreWhole, PTL DEF PublishedIsWhole

(* Source control that is reported ready is the tree that is here, on the    *)
(* branch and under a tag.                                                   *)
THEOREM ReadyIsOnTheBranch == Spec => []ReadyIsHere
<1>1. IInv => ReadyIsHere
  <2> SUFFICES ASSUME IInv, SourceControlCheck = "passed" PROVE ReadyIsHere
    BY DEF ReadyIsHere
  <2>1. CASE HandoffUsable
    <3>1. Holds(report)
      BY <2>1 DEF SourceControlCheck, HandoffPublished
    <3>2. report \in Bundles /\ work = TreeOf(report.commit)
      BY <2>1 DEF HandoffUsable, IInv, RefsInv
    <3>3. report.tag.commit = report.commit /\ report.tag # None
      BY <3>2, SomeIsNotNone DEF Bundles, Bundle, Tag
    <3> QED
      BY <3>1, <3>2, <3>3 DEF Holds, ReadyIsHere
  <2>2. CASE ~HandoffUsable
    <3>1. GitReady
      BY <2>2 DEF SourceControlCheck
    <3> QED
      BY <3>1 DEF GitReady, Fresh, ReadyIsHere
  <2> QED
    BY <2>1, <2>2
<1> QED
  BY <1>1, ReleaseInvariant, PTL

(* And when the audit is complete, the world sees the version.               *)
THEOREM ReadyIsTrue ==
  ASSUME TagsWhatItCommits
  PROVE  Spec => []ReadyIsPublished
<1>1. IInv /\ PublishedIsWhole => CompleteIsWhole
  <2> SUFFICES ASSUME IInv, PublishedIsWhole, AuditComplete
               PROVE  \A tree \in {TreeOf(remote.master), TreeOf(remote.tag.commit), npm, pypi} :
                        Whole(tree)
    BY DEF CompleteIsWhole
  <2>1. Whole(TreeOf(remote.master))
    BY DEF AuditComplete, AuditSource, IInv, CommitsInv, Released
  <2>2. Whole(TreeOf(remote.tag.commit))
    BY DEF AuditComplete, AuditSource, PublishedIsWhole, TagIsWhole
  <2>3. Whole(npm) /\ Whole(pypi)
    BY DEF AuditComplete, AuditNpm, AuditPypi, PublishedIsWhole, RegistriesAreWhole
  <2> QED
    BY <2>1, <2>2, <2>3
<1> QED
  BY <1>1, ReleaseInvariant, ReadyIsOnTheBranch, EverythingIsWhole, PTL DEF ReadyIsPublished
=============================================================================
