--------------------------- MODULE Install_proofs ---------------------------
(* What `audrey install` and `audrey uninstall` leave behind, for any number *)
(* of faults, kills and edits, and what the doctor says of it on any machine. *)
EXTENDS Doctor, NaturalsInduction, WellFoundedInduction, TLAPS

Installing == command.verb = "install"

(* The steps of installHost, and those in which the host is registered.      *)
Undoable == {"backup", "remove", "add", "undoAdd", "feature", "enable", "verify", "disable",
             "rollback", "rollbackMcp"}
AtFeature == {"feature", "enable", "verify"}
AtHooks == {"hooks", "replace", "rename"}

(* A file that is not there holds nothing.                                   *)
FilesInv ==
  /\ \A h \in Hosts : ~mcp[h].there => mcp[h].registration = "none" /\ ~mcp[h].feature
  /\ \A h \in Hosts : ~hooks[h].there => hooks[h].stale = 0 /\ hooks[h].fresh = 0
  /\ ~previous.there => previous.registration = "none" /\ ~previous.feature

(* Which command is at work where.                                           *)
LabelInv ==
  /\ pc \in Undoable => Installing
  /\ pc = "unregister" => ~Installing
  /\ pc \in AtFeature \cup {"disable"} => host = Codex
  /\ pc \notin Resting \cup {"next"} => host \notin left
  /\ pc = "done" => left = {}
  /\ pc = "rename" => checked = expected

(* What a running install knows of the file it found: that is still there,   *)
(* but for what it has changed itself, and for what a rollback step reported. *)
UndoInv == Installing =>
  /\ pc = "backup" => Same(mcp[host], previous)
  /\ pc \in {"remove", "add", "undoAdd", "feature"} => mcp[host].feature = previous.feature
  /\ pc \in {"backup", "remove", "add", "undoAdd", "feature"} => ~activated
  /\ pc \in {"enable", "verify", "disable"} => ~previous.feature /\ ~activated
  /\ pc \in {"hooks", "replace", "rename", "rollback"} /\ activated => ~previous.feature
  /\ pc \in AtHooks /\ ~activated => mcp[host].feature = previous.feature
  /\ pc = "rollback" /\ errors = {} /\ ~activated => mcp[host].feature = previous.feature
  /\ pc = "rollbackMcp" /\ errors = {} => mcp[host].feature = previous.feature

(* Nothing is removed before it is saved.                                    *)
BackupInv == Installing /\ Registered(previous) =>
  /\ pc = "backup" => Registered(mcp[host])
  /\ pc \in (Undoable \ {"backup"}) \cup AtHooks => previous \in backups[host]

(* The hosts that a run is done with are finished, and the one at work is as *)
(* far as the step says.                                                     *)
ProgressInv ==
  /\ ~Installing /\ pc \notin {"start", "failed", "dead"} =>
       \A h \in command.hosts \ registered : ~Registered(mcp[h])
  /\ pc \notin {"start", "failed", "dead"} =>
       \A h \in command.hosts \ left : h # host \/ pc \in {"next", "done"} => Finished(h)
  /\ Installing /\ pc \in AtFeature \cup AtHooks => mcp[host].registration = "new"
  /\ Installing /\ pc \in AtHooks /\ host = Codex => mcp[host].feature
  /\ ~Installing /\ pc \in AtHooks => ~Registered(mcp[host])

IInv == /\ TypeOK /\ FilesInv /\ LabelInv /\ UndoInv /\ BackupInv /\ ProgressInv
        /\ FailedInstallIsUndone /\ RegistrationIsRecoverable
-----------------------------------------------------------------------------
(* What the hosts' CLIs and the edits of others make of a file.              *)
LEMMA McpOps == \A f \in McpFiles :
  /\ WithoutRegistration(f) \in McpFiles
  /\ WithoutRegistration(f).there = f.there
  /\ WithoutRegistration(f).registration = "none"
  /\ WithoutRegistration(f).feature = f.feature
  /\ WithoutRegistration(f).others = f.others
  /\ WithRegistration(f) \in McpFiles
  /\ WithRegistration(f).there
  /\ WithRegistration(f).registration = "new"
  /\ WithRegistration(f).feature = f.feature
  /\ WithRegistration(f).others = f.others
  BY DEF McpFiles, Registrations, WithoutRegistration, WithRegistration

(* What setting the feature flag makes of a host's settings.                 *)
LEMMA FeatureOps == \A f \in McpFiles :
  /\ WithFeature(f, TRUE) \in McpFiles
  /\ WithFeature(f, TRUE).there
  /\ WithFeature(f, TRUE).registration = f.registration
  /\ WithFeature(f, TRUE).feature = TRUE
  /\ WithFeature(f, TRUE).others = f.others
  /\ WithFeature(f, FALSE) \in McpFiles
  /\ WithFeature(f, FALSE).there
  /\ WithFeature(f, FALSE).registration = f.registration
  /\ WithFeature(f, FALSE).feature = FALSE
  /\ WithFeature(f, FALSE).others = f.others
  BY DEF McpFiles, WithFeature

(* Handlers may be taken out and put in.                                     *)
LEMMA HandlersMayChange ==
  ASSUME NEW f \in HookFiles, NEW s \in 0..2, NEW n \in 0..2
  PROVE  /\ [f EXCEPT !.stale = s, !.fresh = n, !.canonical = TRUE] \in HookFiles
         /\ [f EXCEPT !.there = TRUE, !.fresh = n] \in HookFiles
  BY DEF HookFiles

(* What writing hooks makes of settings without a handler of Audrey's.       *)
LEMMA EmptyHookFile ==
  ASSUME NEW f \in HookFiles
  PROVE  /\ [f EXCEPT !.stale = 0, !.fresh = 0, !.canonical = TRUE] \in HookFiles
         /\ [f EXCEPT !.there = TRUE, !.fresh = 1] \in HookFiles
<1>1. 0 \in 0..2 /\ 1 \in 0..2
  OBVIOUS
<1> QED
  BY <1>1, HandlersMayChange

(* What Audrey makes of hook settings.                                       *)
LEMMA HookOps == \A f \in HookFiles :
  /\ Wanted(f) \in HookFiles
  /\ Wanted(f).others = f.others
  /\ Wanted(f).stale = 0
  /\ Installing => Wanted(f).there /\ Wanted(f).fresh = 1
  /\ ~Installing => Wanted(f).there = f.there /\ Wanted(f).fresh = 0
<1> SUFFICES ASSUME NEW f \in HookFiles
             PROVE  /\ Wanted(f) \in HookFiles /\ Wanted(f).others = f.others /\ Wanted(f).stale = 0
                    /\ Installing => Wanted(f).there /\ Wanted(f).fresh = 1
                    /\ ~Installing => Wanted(f).there = f.there /\ Wanted(f).fresh = 0
  OBVIOUS
<1> DEFINE g == WithoutHandlers(f)
<1>1. g \in HookFiles
  BY EmptyHookFile DEF WithoutHandlers
<1>4. g.there = f.there /\ g.stale = 0 /\ g.fresh = 0 /\ g.others = f.others
  BY DEF HookFiles, WithoutHandlers
<1>2. /\ WithHandlers(f) = [g EXCEPT !.there = TRUE, !.fresh = 1]
      /\ Wanted(f) = IF Installing THEN WithHandlers(f) ELSE g
  BY DEF Wanted, WithHandlers, Installing
<1> HIDE DEF g
<1>3. [g EXCEPT !.there = TRUE, !.fresh = 1] \in HookFiles
  BY <1>1, EmptyHookFile
<1>5. LET w == [g EXCEPT !.there = TRUE, !.fresh = 1] IN
        w.others = g.others /\ w.stale = g.stale /\ w.there /\ w.fresh = 1
  BY <1>1 DEF HookFiles
<1> QED
  BY <1>1, <1>2, <1>3, <1>4, <1>5

(* The fields of the hosts' files.                                           *)
LEMMA FileTypes ==
  /\ \A f \in McpFiles : /\ f.there \in BOOLEAN /\ f.registration \in Registrations
                         /\ f.feature \in BOOLEAN /\ f.others \subseteq Edits
  /\ \A f \in HookFiles : /\ f.there \in BOOLEAN /\ f.valid \in BOOLEAN
                          /\ f.stale \in 0..2 /\ f.fresh \in 0..2 /\ f.others \subseteq Edits
  /\ Clean \in McpFiles /\ NoHooks \in HookFiles
  BY DEF McpFiles, HookFiles, Clean, NoHooks, Registrations

(* The fields of a command.                                                  *)
LEMMA CommandTypes ==
  \A c \in Commands : /\ c.hosts \subseteq Hosts /\ c.hosts # {} /\ c.verb \in Verbs
                      /\ c.cli \subseteq c.hosts /\ c.hooks \in BOOLEAN
<1> SUFFICES ASSUME NEW c \in Commands
             PROVE  c.hosts \subseteq Hosts /\ c.hosts # {} /\ c.verb \in Verbs
                    /\ c.cli \subseteq c.hosts /\ c.hooks \in BOOLEAN
  OBVIOUS
<1>1. c \in [verb: Verbs, hosts: (SUBSET Hosts) \ {{}}, hooks: BOOLEAN, cli: SUBSET Hosts]
      /\ c.cli \subseteq c.hosts
  BY DEF Commands
<1> QED
  BY <1>1

(* The host that a command turns to next is one of those that are left.      *)
LEMMA FirstIsThere == \A S \in SUBSET Hosts : S # {} => First(S) \in S
  BY DEF First, Hosts

(* An edit touches neither Audrey's entries nor those of others.             *)
LEMMA EditOps ==
  ASSUME TypeOK, NEW h \in Hosts, Edit(h)
  PROVE  /\ mcp' \in [Hosts -> McpFiles] /\ hooks' \in [Hosts -> HookFiles]
         /\ \A g \in Hosts : /\ mcp'[g].there = mcp[g].there
                             /\ mcp'[g].registration = mcp[g].registration
                             /\ mcp'[g].feature = mcp[g].feature
                             /\ mcp[g].others \subseteq mcp'[g].others
                             /\ hooks'[g].there \in {TRUE, hooks[g].there}
                             /\ hooks'[g].stale = hooks[g].stale
                             /\ hooks'[g].fresh = hooks[g].fresh
                             /\ hooks[g].others \subseteq hooks'[g].others
<1>1. mcp \in [Hosts -> McpFiles] /\ hooks \in [Hosts -> HookFiles]
  BY DEF TypeOK
<1>2. PICK e \in Edits \ edited : EditMcp(h, e) \/ EditHooks(h, e)
  BY DEF Edit
<1>3. CASE EditMcp(h, e)
  <2>1. /\ mcp' = [mcp EXCEPT ![h] = [mcp[h] EXCEPT !.others = mcp[h].others \cup {e}]]
        /\ hooks' = hooks
    BY <1>3, <1>1 DEF EditMcp
  <2>2. \A f \in McpFiles : LET g == [f EXCEPT !.others = f.others \cup {e}] IN
          /\ g \in McpFiles /\ g.there = f.there /\ g.registration = f.registration
          /\ g.feature = f.feature /\ f.others \subseteq g.others
    BY DEF McpFiles
  <2> QED
    BY <1>1, <2>1, <2>2
<1>4. CASE EditHooks(h, e)
  <2>1. /\ hooks' = [hooks EXCEPT ![h] = [hooks[h] EXCEPT !.there = TRUE,
                            !.others = hooks[h].others \cup {e}, !.canonical = FALSE]]
        /\ mcp' = mcp
    BY <1>4, <1>1 DEF EditHooks
  <2>2. \A f \in HookFiles :
          LET g == [f EXCEPT !.there = TRUE, !.others = f.others \cup {e}, !.canonical = FALSE] IN
          /\ g \in HookFiles /\ g.there /\ g.stale = f.stale /\ g.fresh = f.fresh
          /\ f.others \subseteq g.others
    BY DEF HookFiles
  <2> QED
    BY <1>1, <2>1, <2>2
<1> QED
  BY <1>2, <1>3, <1>4
-----------------------------------------------------------------------------
(* A step writes the file of the host at work, as one of these operations    *)
(* leaves it, or not at all.                                                 *)
Writes(f) ==
  /\ mcp' \in [Hosts -> McpFiles]
  /\ \A h \in Hosts : h # host => mcp'[h] = mcp[h]
  /\ mcp'[host] = f

(* What each step that writes a registration or the flag leaves of it.       *)
LEMMA WhatIsWritten ==
  ASSUME TypeOK, host \in Hosts
  PROVE  /\ RemoveMcp => Writes(mcp[host]) \/ Writes(WithoutRegistration(mcp[host]))
         /\ AddMcp => Writes(mcp[host]) \/ Writes(WithRegistration(mcp[host]))
         /\ UndoAdd \/ RollbackMcp => Writes(mcp[host]) \/ Writes(Restored)
         /\ EnableFeature => Writes(mcp[host]) \/ Writes(WithFeature(mcp[host], TRUE))
         /\ DisableFeature \/ RollbackFeature =>
              Writes(mcp[host]) \/ Writes(WithFeature(mcp[host], FALSE))
         /\ Unregister => Writes(mcp[host]) \/ Writes(WithoutRegistration(mcp[host]))
<1>1. mcp \in [Hosts -> McpFiles] /\ previous \in McpFiles
  BY DEF TypeOK
<1>2. ASSUME NEW f \in McpFiles, mcp' = mcp \/ mcp' = [mcp EXCEPT ![host] = f]
      PROVE  Writes(mcp[host]) \/ Writes(f)
  BY <1>1, <1>2 DEF Writes
<1>3. /\ WithoutRegistration(mcp[host]) \in McpFiles
      /\ WithRegistration(mcp[host]) \in McpFiles
      /\ Restored \in McpFiles
      /\ WithFeature(mcp[host], TRUE) \in McpFiles
      /\ WithFeature(mcp[host], FALSE) \in McpFiles
  BY <1>1, McpOps, FeatureOps DEF Restored
<1>4. RemoveMcp => Writes(mcp[host]) \/ Writes(WithoutRegistration(mcp[host]))
  BY <1>2, <1>3 DEF RemoveMcp, McpMayBecome
<1>5. AddMcp => Writes(mcp[host]) \/ Writes(WithRegistration(mcp[host]))
  BY <1>2, <1>3 DEF AddMcp, McpMayBecome
<1>6. UndoAdd \/ RollbackMcp => Writes(mcp[host]) \/ Writes(Restored)
  BY <1>2, <1>3 DEF UndoAdd, RollbackMcp, McpMayBecome
<1>7. EnableFeature => Writes(mcp[host]) \/ Writes(WithFeature(mcp[host], TRUE))
  BY <1>2, <1>3 DEF EnableFeature, McpMayBecome
<1>8. DisableFeature \/ RollbackFeature =>
        Writes(mcp[host]) \/ Writes(WithFeature(mcp[host], FALSE))
  BY <1>2, <1>3 DEF DisableFeature, RollbackFeature, McpMayBecome
<1>9. Unregister => Writes(mcp[host]) \/ Writes(WithoutRegistration(mcp[host]))
  BY <1>2, <1>3 DEF Unregister, McpMayBecome
<1> QED
  BY <1>4, <1>5, <1>6, <1>7, <1>8, <1>9

(* The type invariant is inductive.                                          *)
LEMMA TypeStep == TypeOK /\ [Next]_vars => TypeOK'
<1> SUFFICES ASSUME TypeOK, [Next]_vars PROVE TypeOK'
  OBVIOUS
<1> USE InstallAssumption DEF TypeOK, Hosts, Labels, Resting, files, locals, bounds, Works, Fails,
        Keep, Goto, SameHost
<1>0. command \in Commands /\ command.hosts \subseteq Hosts /\ Hosts = {Claude, Codex}
  BY CommandTypes
<1>1. CASE Begin
  BY <1>1, <1>0 DEF Begin
<1>2. CASE NextHost
  <2>1. CASE left = {}
    BY <1>2, <1>0, <2>1 DEF NextHost
  <2>2. CASE left # {}
    <3>1. First(left) \in left
      BY <1>0, <2>2, FirstIsThere
    <3>2. /\ host' \in left /\ left' \subseteq left
          /\ previous' = mcp[host'] /\ activated' = FALSE
          /\ pc' \in {"backup", "unregister", "hooks", "next"}
      BY <1>2, <2>2, <3>1 DEF NextHost
    <3> QED
      BY <1>2, <1>0, <3>2 DEF NextHost
  <2> QED
    BY <2>1, <2>2
<1>3. CASE Abort
  BY <1>3, <1>0 DEF Abort
<1>4. CASE BackupMcp
  BY <1>4, <1>0 DEF BackupMcp
<1>5. CASE RemoveMcp
  <2>1. mcp' \in [Hosts -> McpFiles]
    BY <1>5, <1>0, WhatIsWritten DEF RemoveMcp, Writes
  <2> QED
    BY <1>5, <1>0, <2>1 DEF RemoveMcp
<1>6. CASE AddMcp
  <2>1. mcp' \in [Hosts -> McpFiles]
    BY <1>6, <1>0, WhatIsWritten DEF AddMcp, Writes
  <2> QED
    BY <1>6, <1>0, <2>1 DEF AddMcp, Registering
<1>7. CASE UndoAdd
  <2>1. mcp' \in [Hosts -> McpFiles]
    BY <1>7, <1>0, WhatIsWritten DEF UndoAdd, Writes
  <2> QED
    BY <1>7, <1>0, <2>1 DEF UndoAdd
<1>8. CASE ListFeature
  BY <1>8, <1>0 DEF ListFeature
<1>9. CASE EnableFeature
  <2>1. mcp' \in [Hosts -> McpFiles]
    BY <1>9, <1>0, WhatIsWritten DEF EnableFeature, Writes
  <2> QED
    BY <1>9, <1>0, <2>1 DEF EnableFeature, WithFeature
<1>10. CASE VerifyFeature
  <2>1. activated' \in BOOLEAN
    BY <1>10 DEF VerifyFeature
  <2>2. /\ pc' \in {"hooks", "disable"} /\ host \in command.hosts
        /\ faults' \in 0..MaxFaults
    BY <1>10, <1>0 DEF VerifyFeature
  <2> QED
    BY <1>10, <1>0, <2>1, <2>2 DEF VerifyFeature
<1>11. CASE DisableFeature
  <2>1. mcp' \in [Hosts -> McpFiles]
    BY <1>11, <1>0, WhatIsWritten DEF DisableFeature, Writes
  <2> QED
    BY <1>11, <1>0, <2>1 DEF DisableFeature, WithFeature
<1>12. CASE ReadHooks
  BY <1>12, <1>0 DEF ReadHooks, HookError
<1>13. CASE CheckHooks
  BY <1>13, <1>0 DEF CheckHooks, HookError
<1>14. CASE RenameHooks
  <2>1. hooks' \in [Hosts -> HookFiles]
    BY <1>14, <1>0, HookOps DEF RenameHooks
  <2> QED
    BY <1>14, <1>0, <2>1 DEF RenameHooks, HookError
<1>15. CASE RollbackFeature
  <2>1. mcp' \in [Hosts -> McpFiles]
    BY <1>15, <1>0, WhatIsWritten DEF RollbackFeature, Writes
  <2> QED
    BY <1>15, <1>0, <2>1 DEF RollbackFeature, WithFeature
<1>16. CASE RollbackMcp
  <2>1. mcp' \in [Hosts -> McpFiles]
    BY <1>16, <1>0, WhatIsWritten DEF RollbackMcp, Writes
  <2> QED
    <3>1. errors' \in {errors, errors \cup {"mcp"}}
      BY <1>16 DEF RollbackMcp
    <3>2. errors' \subseteq {"feature", "mcp"}
      BY <3>1
    <3> QED
      BY <1>16, <1>0, <2>1, <3>2 DEF RollbackMcp
<1>17. CASE Unregister
  <2>1. mcp' \in [Hosts -> McpFiles]
    BY <1>17, <1>0, WhatIsWritten DEF Unregister, Writes
  <2> QED
    BY <1>17, <1>0, <2>1 DEF Unregister
<1>18. CASE Kill
  BY <1>18, <1>0 DEF Kill
<1>19. CASE Retry
  BY <1>19, <1>0 DEF Retry
<1>20. ASSUME NEW h \in Hosts, Edit(h)
      PROVE  TypeOK'
  <2>1. mcp' \in [Hosts -> McpFiles] /\ hooks' \in [Hosts -> HookFiles]
    BY <1>20, EditOps
  <2> QED
    BY <1>20, <2>1 DEF Edit
<1>21. CASE UNCHANGED vars
  BY <1>21 DEF vars
<1> QED
  BY <1>1, <1>2, <1>3, <1>4, <1>5, <1>6, <1>7, <1>8, <1>9, <1>10, <1>11, <1>12, <1>13, <1>14,
       <1>15, <1>16, <1>17, <1>18, <1>19, <1>20, <1>21 DEF Next, Step
-----------------------------------------------------------------------------
(* Only what is there has entries.                                           *)
LEMMA FilesStep == TypeOK /\ FilesInv /\ [Next]_vars => FilesInv'
<1> SUFFICES ASSUME TypeOK, FilesInv, [Next]_vars PROVE FilesInv'
  OBVIOUS
<1> USE DEF FilesInv
<1>0. /\ mcp \in [Hosts -> McpFiles] /\ hooks \in [Hosts -> HookFiles] /\ previous \in McpFiles
      /\ expected \in HookFiles /\ command \in Commands /\ left \subseteq Hosts
      /\ host \in Hosts \cup {NoHost}
  BY CommandTypes DEF TypeOK
<1>1. ASSUME UNCHANGED <<hooks, previous>>, host \in Hosts,
             \/ Writes(mcp[host]) \/ Writes(WithoutRegistration(mcp[host]))
             \/ Writes(WithRegistration(mcp[host])) \/ Writes(Restored)
             \/ Writes(WithFeature(mcp[host], TRUE)) \/ Writes(WithFeature(mcp[host], FALSE))
      PROVE  FilesInv'
  <2> DEFINE Holds(f) == ~f.there => f.registration = "none" /\ ~f.feature
  <2>1. Holds(mcp[host]) /\ Holds(WithoutRegistration(mcp[host]))
    BY <1>0, <1>1, McpOps
  <2>2. Holds(WithRegistration(mcp[host]))
    BY <1>0, <1>1, McpOps
  <2>3. Holds(WithFeature(mcp[host], TRUE)) /\ Holds(WithFeature(mcp[host], FALSE))
    BY <1>0, <1>1, FeatureOps
  <2>4. Holds(Restored)
    BY <2>1 DEF Restored
  <2>5. PICK f : Writes(f) /\ Holds(f)
    BY <1>1, <2>1, <2>2, <2>3, <2>4
  <2>6. \A h \in Hosts : Holds(mcp'[h])
    BY <2>5 DEF Writes
  <2> QED
    BY <1>1, <2>6
<1>2. CASE RemoveMcp \/ AddMcp \/ UndoAdd \/ EnableFeature \/ DisableFeature
           \/ RollbackFeature \/ RollbackMcp \/ Unregister
  <2>1. UNCHANGED <<hooks, previous>> /\ host \in Hosts
    BY <1>0, <1>2, CommandTypes DEF TypeOK, Labels, Resting, RemoveMcp, AddMcp, UndoAdd,
         EnableFeature,
       DisableFeature, RollbackFeature, RollbackMcp, Unregister, locals
  <2> QED
    BY <1>1, <1>2, <2>1, WhatIsWritten
<1>3. CASE RenameHooks
  <2>1. UNCHANGED <<mcp, previous>> /\ hooks' \in {hooks, [hooks EXCEPT ![host] = Wanted(expected)]}
    BY <1>3 DEF RenameHooks, locals
  <2> QED
    BY <1>0, <2>1, HookOps
<1>4. CASE NextHost
  BY <1>0, <1>4, FirstIsThere DEF NextHost, files
<1>5. ASSUME NEW h \in Hosts, Edit(h)
      PROVE  FilesInv'
  BY <1>0, <1>5, EditOps DEF Edit, locals
<1>6. ASSUME UNCHANGED <<mcp, hooks, previous>>
      PROVE  FilesInv'
  BY <1>6
<1> QED
  BY <1>2, <1>3, <1>4, <1>5, <1>6 DEF Next, Step, Begin, Abort, BackupMcp, ListFeature,
       VerifyFeature,
     ReadHooks, CheckHooks, Kill, Retry, vars, files, locals

(* At each label a command is where its verb and its hosts can bring it.     *)
LEMMA LabelStep == TypeOK /\ LabelInv /\ [Next]_vars => LabelInv'
<1> SUFFICES ASSUME TypeOK, LabelInv, [Next]_vars PROVE LabelInv'
  OBVIOUS
<1> USE DEF LabelInv, Installing, Resting, Undoable, AtFeature, files, locals, bounds, Keep,
     Goto, SameHost
<1>0. command \in Commands /\ command.hosts \subseteq Hosts /\ Hosts = {Claude, Codex} /\ left
     \subseteq Hosts
  BY CommandTypes DEF TypeOK, Hosts
<1>1. CASE Begin
  BY <1>1, <1>0 DEF Begin
<1>2. CASE NextHost
  <2>1. CASE left = {}
    BY <1>2, <1>0, <2>1 DEF NextHost
  <2>2. CASE left # {}
    <3>1. left' = left \ {host'} /\ command' = command
      BY <1>2, <2>2 DEF NextHost
    <3>2. Installing => pc' = "backup"
      BY <1>2, <2>2 DEF NextHost
    <3>3. ~Installing => pc' \in {"unregister", "hooks", "next"}
      BY <1>2, <2>2 DEF NextHost
    <3> QED
      BY <3>1, <3>2, <3>3
  <2> QED
    BY <2>1, <2>2
<1>3. CASE Abort
  BY <1>3, <1>0 DEF Abort
<1>4. CASE BackupMcp
  BY <1>4, <1>0 DEF BackupMcp
<1>5. CASE RemoveMcp
  BY <1>5, <1>0 DEF RemoveMcp
<1>6. CASE AddMcp
  BY <1>6, <1>0 DEF AddMcp, Registering
<1>7. CASE UndoAdd
  BY <1>7, <1>0 DEF UndoAdd
<1>8. CASE ListFeature
  BY <1>8, <1>0 DEF ListFeature
<1>9. CASE EnableFeature
  BY <1>9, <1>0 DEF EnableFeature
<1>10. CASE VerifyFeature
  BY <1>10, <1>0 DEF VerifyFeature
<1>11. CASE DisableFeature
  BY <1>11, <1>0 DEF DisableFeature
<1>12. CASE ReadHooks
  BY <1>12, <1>0 DEF ReadHooks, HookError
<1>13. CASE CheckHooks
  BY <1>13, <1>0 DEF CheckHooks, HookError
<1>14. CASE RenameHooks
  BY <1>14, <1>0 DEF RenameHooks, HookError
<1>15. CASE RollbackFeature
  BY <1>15, <1>0 DEF RollbackFeature
<1>16. CASE RollbackMcp
  BY <1>16, <1>0 DEF RollbackMcp
<1>17. CASE Unregister
  BY <1>17, <1>0 DEF Unregister
<1>18. CASE Kill
  BY <1>18, <1>0 DEF Kill
<1>19. CASE Retry
  BY <1>19, <1>0 DEF Retry
<1>20. ASSUME NEW h \in Hosts, Edit(h)
      PROVE  LabelInv'
  BY <1>20, <1>0, EditOps DEF Edit
<1>21. CASE UNCHANGED vars
  BY <1>21 DEF vars
<1> QED
  BY <1>1, <1>2, <1>3, <1>4, <1>5, <1>6, <1>7, <1>8, <1>9, <1>10, <1>11, <1>12, <1>13, <1>14,
       <1>15, <1>16, <1>17, <1>18, <1>19, <1>20, <1>21 DEF Next, Step

(* What a rollback has yet to restore is what the install has found.         *)
LEMMA UndoStep == TypeOK /\ FilesInv /\ LabelInv /\ UndoInv /\ FailedInstallIsUndone /\
     [Next]_vars => (UndoInv /\ FailedInstallIsUndone)'
<1> SUFFICES ASSUME TypeOK, FilesInv, LabelInv, UndoInv, FailedInstallIsUndone, [Next]_vars
     PROVE (UndoInv /\ FailedInstallIsUndone)'
  OBVIOUS
<1> USE DEF UndoInv, FailedInstallIsUndone, Same, LabelInv, Installing, Resting, Undoable,
     AtFeature, AtHooks, files, locals, bounds, Keep,
        Goto, SameHost, Fails, Works
<1>0. /\ command \in Commands /\ command.hosts \subseteq Hosts /\ left \subseteq Hosts
      /\ NoHost \notin Hosts /\ Claude # Codex
      /\ mcp \in [Hosts -> McpFiles] /\ previous \in McpFiles
      /\ host \in Hosts \cup {NoHost}
      /\ pc \notin Resting \cup {"next"} => host \in Hosts
  BY InstallAssumption, CommandTypes DEF TypeOK, Hosts, Labels
<1>1. CASE Begin
  BY <1>1, <1>0 DEF Begin
<1>2. CASE NextHost
  BY <1>2, <1>0, FirstIsThere DEF NextHost
<1>3. CASE Abort
  BY <1>3, <1>0 DEF Abort
<1>4. CASE BackupMcp
  BY <1>4, <1>0 DEF BackupMcp
<1>5. CASE RemoveMcp
  BY <1>5, <1>0, WhatIsWritten, McpOps, FeatureOps DEF RemoveMcp, Writes
<1>6. CASE AddMcp
  BY <1>6, <1>0, WhatIsWritten, McpOps, FeatureOps DEF AddMcp, Registering, Writes
<1>7. CASE UndoAdd
  <2>1. ASSUME errors' = {}
        PROVE  errors = {} \/ pc = "undoAdd"
    BY <1>7, <2>1 DEF UndoAdd
  <2>2. errors' = {} => mcp'[host] = Restored
    BY <1>7, <1>0 DEF UndoAdd
  <2>3. Installing /\ errors' = {} => Same(Restored, previous)
    BY <1>7, <1>0, <2>1, McpOps DEF UndoAdd, Restored, FilesInv
  <2>4. pc' = "failed" /\ UNCHANGED <<command, host, previous>>
    BY <1>7 DEF UndoAdd
  <2> QED
    BY <2>2, <2>3, <2>4
<1>8. CASE ListFeature
  BY <1>8, <1>0 DEF ListFeature
<1>9. CASE EnableFeature
  BY <1>9, <1>0, WhatIsWritten, McpOps, FeatureOps DEF EnableFeature, Writes
<1>10. CASE VerifyFeature
  BY <1>10, <1>0 DEF VerifyFeature
<1>11. CASE DisableFeature
  <2>1. errors' = {} => mcp'[host] = WithFeature(mcp[host], FALSE)
    BY <1>11, <1>0 DEF DisableFeature
  <2>2. /\ pc' = "rollback" /\ Installing /\ ~previous.feature /\ ~activated
        /\ UNCHANGED <<command, host, previous, activated>>
    BY <1>11 DEF DisableFeature
  <2>3. errors' = {} => mcp'[host].feature = FALSE
    <3>1. mcp[host] \in McpFiles
      BY <1>0, <1>11 DEF DisableFeature
    <3>2. WithFeature(mcp[host], FALSE).feature = FALSE
      BY <3>1, FeatureOps
    <3> QED
      BY <2>1, <3>2
  <2>4. previous.feature = FALSE
    BY <1>0, <2>2, FileTypes
  <2> QED
    BY <2>2, <2>3, <2>4
<1>12. CASE ReadHooks
  BY <1>12, <1>0 DEF ReadHooks, HookError
<1>13. CASE CheckHooks
  BY <1>13, <1>0 DEF CheckHooks, HookError
<1>14. CASE RenameHooks
  BY <1>14, <1>0 DEF RenameHooks, HookError
<1>15. CASE RollbackFeature
  <2>1. errors' = {} => /\ errors = {}
                        /\ activated => mcp'[host] = WithFeature(mcp[host], FALSE)
                        /\ ~activated => mcp' = mcp
    BY <1>15, <1>0 DEF RollbackFeature
  <2>2. /\ pc' = "rollbackMcp" /\ Installing /\ host \in Hosts
        /\ UNCHANGED <<command, host, previous>>
    BY <1>15, <1>0 DEF RollbackFeature
  <2>3. activated => previous.feature = FALSE
    BY <1>0, <1>15, FileTypes DEF RollbackFeature
  <2>4. activated /\ errors' = {} => mcp'[host].feature = FALSE
    <3>1. WithFeature(mcp[host], FALSE).feature = FALSE
      BY <1>0, <2>2, FeatureOps
    <3> QED
      BY <2>1, <3>1
  <2>5. errors' = {} => mcp'[host].feature = previous.feature
    BY <1>15, <2>1, <2>2, <2>3, <2>4 DEF RollbackFeature
  <2> QED
    BY <2>2, <2>5
<1>16. CASE RollbackMcp
  <2>1. ASSUME errors' = {}
        PROVE  errors = {} \/ pc = "undoAdd"
    BY <1>16, <2>1 DEF RollbackMcp
  <2>2. errors' = {} => mcp'[host] = Restored
    BY <1>16, <1>0 DEF RollbackMcp
  <2>3. Installing /\ errors' = {} => Same(Restored, previous)
    BY <1>16, <1>0, <2>1, McpOps DEF RollbackMcp, Restored, FilesInv
  <2>4. pc' = "failed" /\ UNCHANGED <<command, host, previous>>
    BY <1>16 DEF RollbackMcp
  <2> QED
    BY <2>2, <2>3, <2>4
<1>17. CASE Unregister
  BY <1>17, <1>0, WhatIsWritten, McpOps, FeatureOps DEF Unregister, Writes
<1>18. CASE Kill
  BY <1>18, <1>0 DEF Kill
<1>19. CASE Retry
  BY <1>19, <1>0 DEF Retry
<1>20. ASSUME NEW h \in Hosts, Edit(h)
      PROVE  (UndoInv /\ FailedInstallIsUndone)'
  <2>1. UNCHANGED <<command, pc, host, previous, activated, errors>>
    BY <1>20 DEF Edit
  <2>2. host \in Hosts => /\ mcp'[host].feature = mcp[host].feature
                          /\ mcp'[host].registration = mcp[host].registration
    BY <1>20, EditOps
  <2>3. host = NoHost => pc \in Resting \cup {"next"}
    BY <1>0
  <2> QED
    BY <1>0, <2>1, <2>2, <2>3
<1>21. CASE UNCHANGED vars
  BY <1>21 DEF vars
<1> QED
  BY <1>1, <1>2, <1>3, <1>4, <1>5, <1>6, <1>7, <1>8, <1>9, <1>10, <1>11, <1>12, <1>13, <1>14,
       <1>15, <1>16, <1>17, <1>18, <1>19, <1>20, <1>21 DEF Next, Step

(* The registration that was found is in the file or in the backup.          *)
LEMMA BackupStep == TypeOK /\ FilesInv /\ LabelInv /\ UndoInv /\ BackupInv /\
     RegistrationIsRecoverable /\ [Next]_vars => (BackupInv /\ RegistrationIsRecoverable)'
<1> SUFFICES ASSUME TypeOK, FilesInv, LabelInv, UndoInv, BackupInv, RegistrationIsRecoverable,
     [Next]_vars PROVE (BackupInv /\ RegistrationIsRecoverable)'
  OBVIOUS
<1> USE DEF BackupInv, RegistrationIsRecoverable, Registered, LabelInv, Installing, Resting,
     Undoable, AtFeature, AtHooks, files, locals, bounds, Keep,
        Goto, SameHost
<1>0. /\ command \in Commands /\ command.hosts \subseteq Hosts /\ left \subseteq Hosts
      /\ NoHost \notin Hosts /\ Claude # Codex
      /\ mcp \in [Hosts -> McpFiles] /\ previous \in McpFiles
      /\ backups \in [Hosts -> SUBSET McpFiles]
      /\ host \in Hosts \cup {NoHost}
      /\ pc \notin Resting \cup {"next"} => host \in Hosts
  BY InstallAssumption, CommandTypes DEF TypeOK, Hosts, Labels
<1>1. CASE Begin
  BY <1>1, <1>0 DEF Begin
<1>2. CASE NextHost
  BY <1>2, <1>0, FirstIsThere DEF NextHost
<1>3. CASE Abort
  BY <1>3, <1>0 DEF Abort
<1>4. CASE BackupMcp
  <2>1. Registered(previous) => backups'[host] = backups[host] \cup {previous}
    BY <1>4, <1>0 DEF BackupMcp, FilesInv
  <2> QED
    BY <1>4, <1>0, <2>1 DEF BackupMcp
<1>5. CASE RemoveMcp
  BY <1>5, <1>0, WhatIsWritten, McpOps, FeatureOps DEF RemoveMcp, Writes
<1>6. CASE AddMcp
  BY <1>6, <1>0, WhatIsWritten, McpOps, FeatureOps DEF AddMcp, Registering, Writes
<1>7. CASE UndoAdd
  BY <1>7, <1>0, WhatIsWritten, McpOps, FeatureOps DEF UndoAdd, Restored, Writes
<1>8. CASE ListFeature
  BY <1>8, <1>0 DEF ListFeature
<1>9. CASE EnableFeature
  BY <1>9, <1>0, WhatIsWritten, McpOps, FeatureOps DEF EnableFeature, Writes
<1>10. CASE VerifyFeature
  BY <1>10, <1>0 DEF VerifyFeature
<1>11. CASE DisableFeature
  BY <1>11, <1>0, WhatIsWritten, McpOps, FeatureOps DEF DisableFeature, Writes
<1>12. CASE ReadHooks
  BY <1>12, <1>0 DEF ReadHooks, HookError
<1>13. CASE CheckHooks
  BY <1>13, <1>0 DEF CheckHooks, HookError
<1>14. CASE RenameHooks
  BY <1>14, <1>0 DEF RenameHooks, HookError
<1>15. CASE RollbackFeature
  BY <1>15, <1>0, WhatIsWritten, McpOps, FeatureOps DEF RollbackFeature, Writes
<1>16. CASE RollbackMcp
  BY <1>16, <1>0, WhatIsWritten, McpOps, FeatureOps DEF RollbackMcp, Restored, Writes
<1>17. CASE Unregister
  BY <1>17, <1>0, WhatIsWritten, McpOps, FeatureOps DEF Unregister, Writes
<1>18. CASE Kill
  BY <1>18, <1>0 DEF Kill
<1>19. CASE Retry
  BY <1>19, <1>0 DEF Retry
<1>20. ASSUME NEW h \in Hosts, Edit(h)
      PROVE  (BackupInv /\ RegistrationIsRecoverable)'
  BY <1>20, <1>0, EditOps DEF Edit
<1>21. CASE UNCHANGED vars
  BY <1>21 DEF vars
<1> QED
  BY <1>1, <1>2, <1>3, <1>4, <1>5, <1>6, <1>7, <1>8, <1>9, <1>10, <1>11, <1>12, <1>13, <1>14,
       <1>15, <1>16, <1>17, <1>18, <1>19, <1>20, <1>21 DEF Next, Step

(* Every host that a command has left behind is whole.                       *)
LEMMA ProgressStep == TypeOK /\ FilesInv /\ LabelInv /\ ProgressInv /\ [Next]_vars => ProgressInv'
<1> SUFFICES ASSUME TypeOK, FilesInv, LabelInv, ProgressInv, [Next]_vars PROVE ProgressInv'
  OBVIOUS
<1> USE DEF ProgressInv, Finished, Registered, HasHandlers, LabelInv, Installing, Resting,
     Undoable, AtFeature, AtHooks, files, locals, bounds, Keep,
        Goto, SameHost
<1>0. /\ command \in Commands /\ command.hosts \subseteq Hosts /\ left \subseteq command.hosts
      /\ NoHost \notin Hosts /\ Hosts = {Claude, Codex} /\ Claude # Codex
      /\ mcp \in [Hosts -> McpFiles] /\ hooks \in [Hosts -> HookFiles] /\ expected \in HookFiles
      /\ host \in Hosts \cup {NoHost}
      /\ pc \notin Resting \cup {"next"} => host \in Hosts
  BY InstallAssumption, CommandTypes DEF TypeOK, Hosts, Labels
<1>1. CASE Begin
  BY <1>1, <1>0 DEF Begin
<1>2. CASE NextHost
  BY <1>2, <1>0, FirstIsThere DEF NextHost
<1>3. CASE Abort
  BY <1>3, <1>0 DEF Abort
<1>4. CASE BackupMcp
  BY <1>4, <1>0 DEF BackupMcp
<1>5. CASE RemoveMcp
  <2>1. /\ UNCHANGED <<command, host, left, hooks, registered>> /\ host \in Hosts
        /\ \A h \in Hosts : h # host => mcp'[h] = mcp[h]
    BY <1>5, <1>0, WhatIsWritten DEF RemoveMcp, Writes
  <2>2. pc = "remove" /\ pc' = "add" /\ Installing
    BY <1>5 DEF RemoveMcp
  <2> QED
    BY <1>0, <2>1, <2>2
<1>6. CASE AddMcp
  <2>1. /\ UNCHANGED <<command, host, left, hooks, registered>> /\ host \in Hosts
        /\ \A h \in Hosts : h # host => mcp'[h] = mcp[h]
    BY <1>6, <1>0, WhatIsWritten DEF AddMcp, Writes
  <2>2. CASE pc' = "undoAdd"
    BY <1>0, <1>6, <2>1, <2>2 DEF AddMcp
  <2>3. CASE pc' # "undoAdd"
    <3>1. /\ mcp'[host].registration = "new" /\ Installing
          /\ pc' = IF command.hooks THEN (IF host = Codex THEN "feature" ELSE "hooks") ELSE "next"
      BY <1>0, <1>6, <2>1, <2>3, McpOps DEF AddMcp, Registering
    <3> QED
      BY <1>0, <1>6, <2>1, <3>1 DEF AddMcp
  <2> QED
    BY <2>2, <2>3
<1>7. CASE UndoAdd
  BY <1>7, <1>0, WhatIsWritten, McpOps, FeatureOps DEF UndoAdd, Restored, Writes
<1>8. CASE ListFeature
  BY <1>8, <1>0 DEF ListFeature
<1>9. CASE EnableFeature
  <2>1. /\ UNCHANGED <<command, host, left, hooks, registered>> /\ host \in Hosts
        /\ \A h \in Hosts : h # host => mcp'[h] = mcp[h]
    BY <1>9, <1>0, WhatIsWritten DEF EnableFeature, Writes
  <2>2. mcp'[host].registration = mcp[host].registration
    <3>1. WithFeature(mcp[host], TRUE).registration = mcp[host].registration
      BY <1>0, <2>1, FeatureOps
    <3> QED
      BY <1>9, <1>0, <2>1, <3>1, WhatIsWritten DEF Writes
  <2>3. pc = "enable" /\ Installing /\ pc' \in {"verify", "disable"}
    BY <1>9 DEF EnableFeature
  <2> QED
    BY <1>0, <2>1, <2>2, <2>3
<1>10. CASE VerifyFeature
  BY <1>10, <1>0 DEF VerifyFeature
<1>11. CASE DisableFeature
  <2>1. /\ UNCHANGED <<command, host, left, hooks, registered>> /\ host \in Hosts
        /\ \A h \in Hosts : h # host => mcp'[h] = mcp[h]
    BY <1>11, <1>0, WhatIsWritten DEF DisableFeature, Writes
  <2>2. pc = "disable" /\ Installing /\ pc' = "rollback"
    BY <1>11 DEF DisableFeature
  <2> QED
    BY <1>0, <2>1, <2>2
<1>12. CASE ReadHooks
  <2>1. /\ UNCHANGED <<command, host, left, hooks, mcp, registered>>
        /\ host \in Hosts /\ pc = "hooks"
    BY <1>12, <1>0 DEF ReadHooks
  <2>2. CASE pc' = "next"
    <3>1. ~Changes(hooks[host])
      BY <1>12, <2>2 DEF ReadHooks, HookError
    <3>2. Installing => hooks[host].fresh = 1 /\ hooks[host].stale = 0
      BY <1>0, <2>1, <3>1, HookOps DEF Changes
    <3>3. ~Installing => hooks[host].fresh = 0 /\ hooks[host].stale = 0
      <4>1. CASE Wanted(hooks[host]) = hooks[host]
        BY <1>0, <2>1, <4>1, HookOps
      <4>2. CASE ~hooks[host].there
        BY <2>1, <4>2 DEF FilesInv
      <4> QED
        BY <3>1, <4>1, <4>2 DEF Changes
    <3> QED
      BY <1>0, <2>1, <2>2, <3>2, <3>3
  <2>3. CASE pc' # "next"
    <3>1. pc' \in {"replace", HookError}
      BY <1>12, <2>3 DEF ReadHooks
    <3> QED
      BY <1>0, <2>1, <3>1 DEF HookError
  <2> QED
    BY <2>2, <2>3
<1>13. CASE CheckHooks
  BY <1>13, <1>0 DEF CheckHooks, HookError
<1>14. CASE RenameHooks
  <2>1. /\ UNCHANGED <<command, host, left, mcp, registered>> /\ host \in Hosts /\ pc = "rename"
    BY <1>14, <1>0 DEF RenameHooks
  <2>2. CASE pc' = "next"
    <3>1. /\ \A h \in Hosts : h # host => hooks'[h] = hooks[h]
          /\ hooks'[host] = Wanted(expected)
      BY <1>0, <1>14, <2>1, <2>2 DEF RenameHooks, HookError
    <3>2. /\ Installing => hooks'[host].fresh = 1 /\ hooks'[host].stale = 0
          /\ ~Installing => hooks'[host].fresh = 0 /\ hooks'[host].stale = 0
      BY <1>0, <3>1, HookOps
    <3> QED
      BY <1>0, <2>1, <2>2, <3>1, <3>2
  <2>3. CASE pc' # "next"
    <3>1. pc' = HookError /\ UNCHANGED hooks
      BY <1>14, <2>3 DEF RenameHooks
    <3> QED
      BY <1>0, <2>1, <3>1 DEF HookError
  <2> QED
    BY <2>2, <2>3
<1>15. CASE RollbackFeature
  <2>1. /\ UNCHANGED <<command, host, left, hooks, registered>> /\ host \in Hosts
        /\ \A h \in Hosts : h # host => mcp'[h] = mcp[h]
    BY <1>15, <1>0, WhatIsWritten DEF RollbackFeature, Writes
  <2>2. pc = "rollback" /\ Installing /\ pc' = "rollbackMcp"
    BY <1>15 DEF RollbackFeature
  <2> QED
    BY <1>0, <2>1, <2>2
<1>16. CASE RollbackMcp
  BY <1>16, <1>0, WhatIsWritten, McpOps, FeatureOps DEF RollbackMcp, Restored, Writes
<1>17. CASE Unregister
  BY <1>17, <1>0, WhatIsWritten, McpOps, FeatureOps DEF Unregister, Writes
<1>18. CASE Kill
  BY <1>18, <1>0 DEF Kill
<1>19. CASE Retry
  BY <1>19, <1>0 DEF Retry
<1>20. ASSUME NEW h \in Hosts, Edit(h)
      PROVE  ProgressInv'
  <2>1. UNCHANGED <<command, pc, host, left, registered>>
    BY <1>20 DEF Edit
  <2>2. \A g \in Hosts : /\ mcp'[g].registration = mcp[g].registration
                         /\ mcp'[g].feature = mcp[g].feature
                         /\ hooks'[g].stale = hooks[g].stale
                         /\ hooks'[g].fresh = hooks[g].fresh
    BY <1>20, EditOps
  <2>3. \A g \in Hosts : Finished(g) => Finished(g)'
    BY <2>1, <2>2
  <2> HIDE DEF Finished, HasHandlers
  <2> QED
    BY <1>0, <2>1, <2>2, <2>3
<1>21. CASE UNCHANGED vars
  BY <1>21 DEF vars
<1> QED
  BY <1>1, <1>2, <1>3, <1>4, <1>5, <1>6, <1>7, <1>8, <1>9, <1>10, <1>11, <1>12, <1>13, <1>14,
       <1>15, <1>16, <1>17, <1>18, <1>19, <1>20, <1>21 DEF Next, Step
-----------------------------------------------------------------------------
(* A machine before its first command.                                       *)
LEMMA InitIInv == Init => IInv
<1> SUFFICES ASSUME Init PROVE IInv
  OBVIOUS
<1>1. TypeOK
  <2>1. /\ mcp \in [Hosts -> McpFiles] /\ hooks \in [Hosts -> HookFiles]
    BY DEF Init, McpStart, HookStart
  <2>2. backups \in [Hosts -> SUBSET McpFiles]
    BY DEF Init
  <2>3. /\ pc \in Labels /\ pc = "start" /\ host \in command.hosts \cup {NoHost}
        /\ left \subseteq command.hosts /\ registered \subseteq command.hosts
        /\ activated \in BOOLEAN /\ errors \subseteq {"feature", "mcp"} /\ edited \subseteq Edits
    BY DEF Init, Labels, Resting
  <2>4. /\ previous \in McpFiles /\ expected \in HookFiles /\ checked \in HookFiles
        /\ command \in Commands
    BY FileTypes DEF Init
  <2>5. faults \in 0..MaxFaults /\ kills \in 0..MaxKills
    BY InstallAssumption DEF Init
  <2> QED
    BY <2>1, <2>2, <2>3, <2>4, <2>5 DEF TypeOK, Resting
<1>2. \A h \in Hosts : /\ ~mcp[h].there => mcp[h] = Clean
                       /\ ~hooks[h].there => hooks[h] = NoHooks
  BY DEF Init, McpStart, HookStart
<1>3. FilesInv
  BY <1>2 DEF FilesInv, Init, Clean, NoHooks
<1> QED
  BY <1>1, <1>3 DEF Init, IInv, LabelInv, UndoInv, BackupInv, ProgressInv, Undoable, AtFeature,
       AtHooks,
     Resting, FailedInstallIsUndone, RegistrationIsRecoverable

(* The invariant of the commands.                                            *)
THEOREM InstallInvariant == Spec => []IInv
<1>1. IInv /\ [Next]_vars => IInv'
  BY TypeStep, FilesStep, LabelStep, UndoStep, BackupStep, ProgressStep DEF IInv
<1> QED
  BY <1>1, InitIInv, PTL DEF Spec

(* The files and the command's state keep their types.                       *)
THEOREM TypeCorrect == Spec => []TypeOK
<1>1. IInv => TypeOK
  BY DEF IInv
<1> QED
  BY <1>1, InstallInvariant, PTL

(* A failed install that reports no failed rollback step leaves registration *)
(* and feature flag as it found them.                                        *)
THEOREM FailureIsUndone == Spec => []FailedInstallIsUndone
<1>1. IInv => FailedInstallIsUndone
  BY DEF IInv
<1> QED
  BY <1>1, InstallInvariant, PTL

(* The registration that an install found is never lost.                     *)
THEOREM RegistrationIsKept == Spec => []RegistrationIsRecoverable
<1>1. IInv => RegistrationIsRecoverable
  BY DEF IInv
<1> QED
  BY <1>1, InstallInvariant, PTL

(* A finished command leaves nothing half done, whatever failed before.      *)
THEOREM DoneIsWhole == Spec => []FinishedIsWhole
<1>1. IInv => FinishedIsWhole
  BY CommandTypes DEF IInv, ProgressInv, LabelInv, FinishedIsWhole
<1> QED
  BY <1>1, InstallInvariant, PTL

(* An edit of others is lost only to a write that is based on an older text. *)
THEOREM OthersEditsSurvive == Spec => EditsSurvive
<1> DEFINE Survive == \A h \in Hosts :
      /\ h = host => mcp[h].others \cap previous.others \subseteq mcp'[h].others
      /\ h # host => mcp[h].others \subseteq mcp'[h].others
      /\ h = host => hooks[h].others \cap checked.others \subseteq hooks'[h].others
      /\ h # host => hooks[h].others \subseteq hooks'[h].others
<1>1. IInv /\ [Next]_vars => Survive
  <2> SUFFICES ASSUME TypeOK, LabelInv, [Next]_vars PROVE Survive
    BY DEF IInv
  <2>0. /\ mcp \in [Hosts -> McpFiles] /\ hooks \in [Hosts -> HookFiles]
        /\ previous \in McpFiles /\ expected \in HookFiles
        /\ pc \notin Resting \cup {"next"} => host \in Hosts
    BY CommandTypes DEF TypeOK, Labels, Resting
  <2>1. CASE RemoveMcp \/ AddMcp \/ UndoAdd \/ EnableFeature \/ DisableFeature
             \/ RollbackFeature \/ RollbackMcp \/ Unregister
    <3>1. UNCHANGED hooks /\ host \in Hosts
      BY <2>0, <2>1 DEF Resting, RemoveMcp, AddMcp, UndoAdd, EnableFeature, DisableFeature,
         RollbackFeature, RollbackMcp, Unregister
    <3> DEFINE Kept(f) == mcp[host].others \cap previous.others \subseteq f.others
    <3>2. Kept(mcp[host]) /\ Kept(WithoutRegistration(mcp[host])) /\
         Kept(WithRegistration(mcp[host]))
      BY <2>0, <3>1, McpOps
    <3>3. Kept(WithFeature(mcp[host], TRUE)) /\ Kept(WithFeature(mcp[host], FALSE))
      BY <2>0, <3>1, FeatureOps
    <3>4. Kept(Restored)
      BY <3>2 DEF Restored
    <3>5. PICK f : Writes(f) /\ Kept(f)
      BY <2>1, <3>1, <3>2, <3>3, <3>4, WhatIsWritten
    <3> QED
      BY <3>1, <3>5 DEF Writes
  <2>2. CASE RenameHooks
    <3>1. /\ UNCHANGED mcp /\ checked = expected /\ host \in Hosts
          /\ hooks' \in {hooks, [hooks EXCEPT ![host] = Wanted(expected)]}
      BY <2>0, <2>2 DEF RenameHooks, LabelInv, Resting
    <3> QED
      BY <2>0, <3>1, HookOps
  <2>3. ASSUME NEW h \in Hosts, Edit(h)
        PROVE  Survive
    BY <2>3, EditOps
  <2>4. CASE UNCHANGED <<mcp, hooks>>
    BY <2>4
  <2> QED
    BY <2>1, <2>2, <2>3, <2>4 DEF Next, Step, Begin, NextHost, Abort, BackupMcp, ListFeature,
       VerifyFeature, ReadHooks, CheckHooks, Kill, Retry, vars, files
<1> QED
  BY <1>1, InstallInvariant, PTL DEF EditsSurvive, Spec
-----------------------------------------------------------------------------
(* A check that fails as an error blocks the machine.                        *)
LEMMA FailedCheckBlocks ==
  ASSUME NEW d, NEW about, NEW ok \in BOOLEAN, Required(about, ok) \in Checks(d), ~ok
  PROVE  Verdict(d) = "blocked"
<1>1. /\ ~Required(about, ok).ok /\ Required(about, ok).severity = "error"
  BY DEF Required, Check
<1> QED
  BY <1>1 DEF Verdict, Blocked

(* What a machine is asked for.                                              *)
LEMMA MachineTypes == \A d \in Machines :
  /\ d.embedding \in EmbeddingProviders \cup Unset \cup {"other"}
  /\ d.llm \in LlmProviders \cup Unset \cup {"other"}
  /\ d.keys \subseteq CloudProviders
  BY DoctorAssumption DEF Machine

(* The providers of a machine that passes are those that were asked for.     *)
LEMMA ValidProviders ==
  ASSUME NEW d \in Machines, Verdict(d) # "blocked"
  PROVE  Valid(Described(d))
<1>1. /\ Required("embedding", Described(d).embedding # "invalid") \in Checks(d)
      /\ Required("llm", Described(d).llm # "invalid") \in Checks(d)
  BY DEF Checks, ProviderChecks
<1>2. (Described(d).embedding # "invalid") \in BOOLEAN /\ (Described(d).llm # "invalid") \in BOOLEAN
  OBVIOUS
<1> QED
  BY <1>1, <1>2, FailedCheckBlocks DEF Valid

(* Wherever the providers that an environment names are valid, servers and   *)
(* hooks of any host run with these or not at all, for want of a key.        *)
LEMMA ValidAsNamed ==
  ASSUME NEW d \in Machines, Valid(Described(d))
  PROVE  AsNamed(d)
<1> DEFINE named == Described(d)
<1> USE MachineTypes DEF Described, Valid, WrittenEnv, ResolveEmbedding, ResolveLlm, Unset,
      EmbeddingProviders, LlmProviders, CloudProviders
<1>1. SUFFICES ASSUME NEW env \in HostEnvs(d)
      PROVE  /\ HookProviders(d, env) \in {named, Thrown}
             /\ LlmKeyed(named, env.keys) => HookProviders(d, env) = named
             /\ \A includeSecrets \in BOOLEAN :
                  /\ ServerProviders(d, includeSecrets, env) \in {named, Thrown}
                  /\ LlmKeyed(named, env.keys) \/ includeSecrets =>
                       ServerProviders(d, includeSecrets, env) = named
                  /\ includeSecrets /\ Embeds(named, d.keys) =>
                       Embeds(named, ServerKeys(d, includeSecrets, env))
  BY DEF AsNamed
<1>2. /\ env.embedding \in {d.embedding, "unset"} /\ env.llm \in {d.llm, "unset"}
      /\ env.keys \subseteq CloudProviders
  BY DEF HostEnvs
<1>3. /\ HookProviders(d, env) \in {named, Thrown}
      /\ LlmKeyed(named, env.keys) => HookProviders(d, env) = named
  BY <1>2 DEF HookProviders, Thrown, OrThrown, LlmKeyed
<1>4. ASSUME NEW secrets \in BOOLEAN
      PROVE  /\ ServerProviders(d, secrets, env) \in {named, Thrown}
             /\ LlmKeyed(named, env.keys) \/ secrets => ServerProviders(d, secrets, env) = named
  BY <1>2 DEF ServerProviders, ServerKeys, Thrown, OrThrown, LlmKeyed
<1>5. ASSUME NEW secrets \in BOOLEAN, secrets, Embeds(named, d.keys)
      PROVE  Embeds(named, ServerKeys(d, secrets, env))
  BY <1>2, <1>5 DEF ServerKeys, Embeds
<1> QED
  BY <1>3, <1>4, <1>5

(* On a machine that passes, no other provider than a named one is used.     *)
THEOREM ProvidersAgree == Spec => []ProvidersAreUsed
<1>1. ASSUME NEW d \in Machines, Verdict(d) # "blocked" PROVE d \in MachinesAsNamed
  BY <1>1, ValidProviders, ValidAsNamed DEF MachinesAsNamed
<1>2. ProvidersAreUsed
  BY <1>1 DEF ProvidersAreUsed
<1> QED
  BY <1>2, PTL

(* Handlers that are reported in full are reported one by one.               *)
LEMMA CountTells ==
  ASSUME TypeOK, NEW h \in Hosts, NEW S \in SUBSET Installed(h), Count(h, S) = Count(h,
       Installed(h))
  PROVE  S = Installed(h)
<1>1. hooks[h].stale \in 0..2 /\ hooks[h].fresh \in 0..2
  BY FileTypes DEF TypeOK
<1>2. Installed(h) \subseteq {"stale", "fresh"}
  BY DEF Installed, Versions
<1>3. /\ "stale" \in Installed(h) => hooks[h].stale > 0
      /\ "fresh" \in Installed(h) => hooks[h].fresh > 0
  BY DEF Installed, CountOf
<1>4. /\ "stale" \in Installed(h) => "stale" \in S
      /\ "fresh" \in Installed(h) => "fresh" \in S
  BY <1>1, <1>3 DEF Count
<1> QED
  BY <1>2, <1>4

(* A host whose handlers would not all run is not let pass.                  *)
LEMMA NotRunBlocks ==
  ASSUME TypeOK, NEW d \in Machines, NEW h \in Hosts, Verdict(d) # "blocked"
  PROVE  RunsHandlers(h, d)
<1>1. /\ RuntimeChecks(h, d) \subseteq Checks(d)
      /\ FeatureChecks(d) \subseteq Checks(d) /\ TrustChecks(d) \subseteq Checks(d)
  BY DEF Checks, Hosts
<1>2. hooks[h].valid
  <2> SUFFICES ASSUME ~hooks[h].valid PROVE FALSE
    OBVIOUS
  <2>1. Required("config", FALSE) \in Checks(d)
    BY <1>1 DEF RuntimeChecks
  <2> QED
    BY <2>1, FailedCheckBlocks
<1>3. Unparseable(h, d) = {}
  <2> SUFFICES ASSUME Unparseable(h, d) # {} PROVE FALSE
    OBVIOUS
  <2>1. Installed(h) # {}
    BY DEF Unparseable
  <2>2. RuntimeChecks(h, d) = {Required("runtime", FALSE)}
    BY <1>2, <2>1 DEF RuntimeChecks
  <2> QED
    BY <1>1, <2>2, FailedCheckBlocks
<1>4. CASE Installed(h) = {}
  BY <1>2, <1>4 DEF RunsHandlers
<1>5. CASE Installed(h) # {}
  <2>1. Runtimes(h, d) = Installed(h)
    BY <1>3 DEF Runtimes, Unparseable
  <2>2. RuntimeUsable(h, d)
    <3>1. Required("runtime", RuntimeUsable(h, d)) \in Checks(d)
      BY <1>1, <1>2, <1>3, <1>5 DEF RuntimeChecks
    <3>2. RuntimeUsable(h, d) \in BOOLEAN
      BY DEF RuntimeUsable
    <3> QED
      BY <3>1, <3>2, FailedCheckBlocks
  <2>3. Installed(h) \subseteq d.parsed \cap d.runtimes
    BY <2>1, <2>2 DEF RuntimeUsable, Runtimes
  <2>4. CASE h # Codex
    BY <1>2, <2>3, <2>4 DEF RunsHandlers
  <2>5. CASE h = Codex
    <3>1. HasRuntimes(d)
      BY <1>2, <1>3, <1>5, <2>1, <2>5 DEF HasRuntimes
    <3>2. d.codexCli /\ mcp[Codex].feature
      <4>1. Required("feature", d.codexCli /\ mcp[Codex].feature) \in Checks(d)
        BY <1>1, <3>1 DEF FeatureChecks
      <4>2. (d.codexCli /\ mcp[Codex].feature) \in BOOLEAN
        OBVIOUS
      <4> QED
        BY <4>1, <4>2, FailedCheckBlocks
    <3>3. ~TrustIssues(d)
      <4>1. Required("trust", ProbeAnswers(d) /\ ~TrustIssues(d)) \in Checks(d)
        BY <1>1, <2>2, <2>5, <3>1, <3>2 DEF TrustChecks, FeatureOn
      <4>2. (ProbeAnswers(d) /\ ~TrustIssues(d)) \in BOOLEAN
        OBVIOUS
      <4> QED
        BY <4>1, <4>2, FailedCheckBlocks
    <3>4. Reported(d) = Installed(Codex)
      BY <2>5, <3>3, CountTells DEF TrustIssues, Reported
    <3>5. Installed(h) \subseteq d.listed \cap d.enabled \cap d.trusted
      BY <2>5, <3>3, <3>4 DEF TrustIssues, Reported
    <3> QED
      BY <1>2, <2>3, <2>5, <3>2, <3>5 DEF RunsHandlers
  <2> QED
    BY <2>4, <2>5
<1> QED
  BY <1>4, <1>5

(* A machine on which everything runs is not blocked.                        *)
LEMMA RunPasses ==
  ASSUME TypeOK, NEW d \in Machines, Sound(d), Answers(d), \A h \in Hosts : RunsHandlers(h, d)
  PROVE  Verdict(d) # "blocked"
<1> DEFINE Passes(c) == c.ok \/ c.severity # "error"
<1>1. ASSUME NEW about
      PROVE  /\ Passes(Required(about, TRUE)) /\ Passes(Info(about))
             /\ Passes(Check(about, FALSE, "warning")) /\ Passes(Check(about, TRUE, "warning"))
  BY DEF Required, Info, Check
<1> HIDE DEF Passes
<1>2. \A c \in ProviderChecks(d) : Passes(c)
  BY <1>1 DEF Sound, Valid, ProviderChecks
<1>3. \A c \in StoreChecks(d) : Passes(c)
  <2>1. Status(d).exists => ~Status(d).error /\ Status(d).healthy
    BY DEF Sound, Status
  <2> QED
    BY <1>1, <2>1 DEF StoreChecks
<1>4. \A c \in HostConfigChecks(d) : Passes(c)
  <2>1. Valid(WrittenEnv(d, FALSE))
    BY MachineTypes DEF Sound, Valid, Described, WrittenEnv, ResolveEmbedding, ResolveLlm,
       Unset, EmbeddingProviders, LlmProviders, CloudProviders
  <2> QED
    BY <1>1, <2>1 DEF HostConfigChecks
<1>5. ASSUME NEW h \in Hosts
      PROVE  /\ hooks[h].valid /\ Unparseable(h, d) = {} /\ Runtimes(h, d) = Installed(h)
             /\ Installed(h) # {} => RuntimeUsable(h, d)
             /\ \A c \in RuntimeChecks(h, d) : Passes(c)
  <2>1. RunsHandlers(h, d)
    OBVIOUS
  <2>2. hooks[h].valid /\ Unparseable(h, d) = {} /\ Runtimes(h, d) = Installed(h)
    BY <2>1 DEF RunsHandlers, Unparseable, Runtimes
  <2>3. Installed(h) # {} => RuntimeUsable(h, d)
    BY <2>1, <2>2 DEF RunsHandlers, RuntimeUsable
  <2>4. \A c \in VersionSkew(h, d) : Passes(c)
    BY <1>1 DEF VersionSkew
  <2>5. CASE Installed(h) = {}
    BY <1>1, <2>2, <2>5 DEF RuntimeChecks
  <2>6. CASE Installed(h) # {}
    BY <1>1, <2>2, <2>3, <2>4, <2>6 DEF RuntimeChecks
  <2> QED
    BY <2>2, <2>3, <2>5, <2>6
<1>6. \A c \in FeatureChecks(d) : Passes(c)
  <2>1. HasRuntimes(d) => d.codexCli /\ mcp[Codex].feature
    BY <1>5 DEF HasRuntimes, RunsHandlers, Hosts
  <2> QED
    BY <1>1, <2>1 DEF FeatureChecks
<1>7. \A c \in TrustChecks(d) : Passes(c)
  <2> SUFFICES ASSUME FeatureOn(d) PROVE \A c \in TrustChecks(d) : Passes(c)
    BY DEF TrustChecks
  <2>1. Installed(Codex) # {}
    BY <1>5 DEF FeatureOn, HasRuntimes, Hosts
  <2>2. Installed(Codex) \subseteq d.listed \cap d.enabled \cap d.trusted
    BY <2>1 DEF RunsHandlers, Hosts
  <2>3. Reported(d) = Installed(Codex)
    BY <2>2 DEF Reported
  <2>4. ProbeAnswers(d) /\ ~TrustIssues(d)
    BY <2>1, <2>2, <2>3 DEF TrustIssues, Answers
  <2> QED
    BY <1>1, <2>4 DEF TrustChecks
<1>8. \A c \in FailureLogChecks(d) \cup BindChecks(d) : Passes(c)
  BY <1>1 DEF FailureLogChecks, BindChecks, Sound
<1>9. Passes(Required("node", d.node)) /\ Passes(Required("entrypoint", d.entrypoint))
  BY <1>1 DEF Sound
<1>10. \A c \in Checks(d) : Passes(c)
  BY <1>2, <1>3, <1>4, <1>5, <1>6, <1>7, <1>8, <1>9 DEF Checks, Hosts
<1> QED
  BY <1>10 DEF Verdict, Blocked, Passes

(* Any set of numbers has a least one.                                       *)
LEMMA LeastNumber ==
  ASSUME NEW N \in SUBSET Nat, N # {}
  PROVE  \E n \in N : \A k \in N : n <= k
<1>1. PICK n \in N : \A k \in N : ~(<<k, n>> \in OpToRel(<, Nat))
  BY NatLessThanWellFounded, WFMin
<1>2. \A k \in N : ~(k < n)
  BY <1>1 DEF OpToRel
<1> QED
  BY <1>2

Lines == Seq({"entry", "torn", "garbled"})

(* One more failure makes lines of lines, and never fewer than one.          *)
LEMMA LogLines ==
  ASSUME NEW lines \in Lines, NEW entry \in {"entry", "torn"}
  PROVE  /\ LogFailure(lines, entry) \in Lines /\ Len(LogFailure(lines, entry)) >= 1
         /\ entry = "entry" => Last(LogFailure(lines, entry)) # "torn"
         /\ entry = "entry" /\ lines # <<>> /\ Last(lines) # "torn" =>
              Last(LogFailure(lines, entry)) = "entry"
<1> DEFINE kept == IF Len(lines) >= MaxLogLines THEN <<>> ELSE lines
           log == LogFailure(lines, entry)
<1>1. kept \in Lines /\ (kept = <<>> \/ kept = lines)
  BY DEF Lines
<1>2. log = IF kept # <<>> /\ Last(kept) = "torn"
            THEN Append(Front(kept), IF entry = "torn" THEN "torn" ELSE "garbled")
            ELSE Append(kept, entry)
  BY DEF LogFailure
<1> HIDE DEF kept, log
<1>3. CASE kept # <<>> /\ Last(kept) = "torn"
  <2>1. PICK line \in {"torn", "garbled"} : line = IF entry = "torn" THEN "torn" ELSE "garbled"
    OBVIOUS
  <2>2. log = Append(Front(kept), line)
    BY <1>2, <1>3, <2>1
  <2>3. Front(kept) \in Lines
    BY <1>1, <1>3 DEF Front, Lines
  <2>4. log \in Lines /\ Len(log) >= 1 /\ Last(log) = line
    BY <2>2, <2>3 DEF Last, Lines
  <2> QED
    BY <1>1, <1>3, <2>1, <2>4 DEF log
<1>4. CASE ~(kept # <<>> /\ Last(kept) = "torn")
  <2>1. log = Append(kept, entry)
    BY <1>2, <1>4
  <2>2. log \in Lines /\ Len(log) >= 1 /\ Last(log) = entry
    BY <1>1, <2>1 DEF Last, Lines
  <2> QED
    BY <2>2 DEF log
<1> QED
  BY <1>3, <1>4

(* The file after each failure is what the failure made of it.               *)
LEMMA LogSteps ==
  ASSUME NEW failures \in Seq({"entry", "torn"})
  PROVE  LET log == FailureLogs(failures)
         IN  /\ \A n \in 0..Len(failures) : log[n] \in Lines
             /\ \A n \in 1..Len(failures) : log[n] = LogFailure(log[n - 1], failures[n])
<1> DEFINE length == Len(failures)
           Filled(g, N) == [n \in 0..N |-> IF n = 0 THEN <<>> ELSE LogFailure(g[n - 1], failures[n])]
           Without == {N \in 0..length : \A g : g # Filled(g, N)}
<1>0. length \in Nat
  OBVIOUS
<1>1. \E g : g = Filled(g, length)
  <2> SUFFICES ASSUME Without # {} PROVE FALSE
    BY <1>0
  <2>0. Without \in SUBSET Nat
    BY <1>0
  <2>1. PICK N \in Without : \A k \in Without : N <= k
    <3> HIDE DEF Without
    <3> QED
      BY <2>0, LeastNumber
  <2>2. N # 0
    <3> DEFINE g == [n \in 0..0 |-> <<>>]
    <3>1. g = Filled(g, 0)
      OBVIOUS
    <3> QED
      BY <3>1
  <2>3. N - 1 \in 0..length /\ N - 1 \notin Without
    <3>1. N \in 0..length
      BY <2>1
    <3> HIDE DEF Without
    <3> QED
      BY <1>0, <2>1, <2>2, <3>1
  <2>4. PICK g : g = Filled(g, N - 1)
    BY <2>3
  <2> DEFINE h == [n \in 0..N |-> IF n = N THEN LogFailure(g[N - 1], failures[N]) ELSE g[n]]
  <2>5. \A n \in 0..N : h[n] = IF n = 0 THEN <<>> ELSE LogFailure(h[n - 1], failures[n])
    <3> SUFFICES ASSUME NEW n \in 0..N
                 PROVE  h[n] = IF n = 0 THEN <<>> ELSE LogFailure(h[n - 1], failures[n])
      OBVIOUS
    <3>1. CASE n = N
      <4>1. h[n] = LogFailure(g[N - 1], failures[N]) /\ h[N - 1] = g[N - 1]
        BY <2>2, <2>3, <3>1
      <4> QED
        BY <2>2, <3>1, <4>1
    <3>2. CASE n # N
      <4>1. n \in 0..(N - 1) /\ (n # 0 => n - 1 \in 0..(N - 1))
        BY <2>3, <3>2
      <4>2. g[n] = IF n = 0 THEN <<>> ELSE LogFailure(g[n - 1], failures[n])
        BY <2>4, <4>1
      <4>3. h[n] = g[n] /\ (n # 0 => h[n - 1] = g[n - 1])
        BY <2>3, <3>2, <4>1
      <4> QED
        BY <4>2, <4>3
    <3> QED
      BY <3>1, <3>2
  <2>6. h = Filled(h, N)
    BY <2>5
  <2> QED
    BY <2>1, <2>6
<1> DEFINE log == FailureLogs(failures)
<1>2. log = CHOOSE g : g = Filled(g, length)
  BY DEF FailureLogs
<1>3. log = Filled(log, length)
  BY <1>1, <1>2
<1> HIDE DEF log
<1>4. \A n \in 0..length : log[n] = IF n = 0 THEN <<>> ELSE LogFailure(log[n - 1], failures[n])
  BY <1>3
<1>5. \A n \in 0..length : log[n] \in Lines
  <2> DEFINE Bad == {n \in 0..length : log[n] \notin Lines}
  <2> SUFFICES ASSUME Bad # {} PROVE FALSE
    OBVIOUS
  <2>0. Bad \in SUBSET Nat
    BY <1>0
  <2>1. PICK n \in Bad : \A k \in Bad : n <= k
    <3> HIDE DEF Bad
    <3> QED
      BY <2>0, LeastNumber
  <2>2. log[0] = <<>> /\ <<>> \in Lines
    BY <1>0, <1>4 DEF Lines
  <2>3. n # 0 /\ n - 1 \in 0..length /\ n - 1 \notin Bad
    BY <1>0, <2>1, <2>2
  <2>4. log[n] = LogFailure(log[n - 1], failures[n]) /\ failures[n] \in {"entry", "torn"}
    BY <1>4, <2>1, <2>3
  <2> QED
    BY <2>1, <2>3, <2>4, LogLines
<1> QED
  BY <1>0, <1>4, <1>5 DEF log

(* Of two failures that were logged in full, the second one can be read.     *)
LEMMA SecondIsRead ==
  ASSUME NEW d, d.failures \in Seq({"entry", "torn"}), FailedTwice(d)
  PROVE  RecentHookFailures(d) # {}
<1> DEFINE n == Len(d.failures)
           log == FailureLogs(d.failures)
           lines == log[n]
<1>1. n \in Nat /\ n >= 2 /\ d.failures[n] = "entry" /\ d.failures[n - 1] = "entry"
  BY DEF FailedTwice
<1>2. log[n] = LogFailure(log[n - 1], "entry") /\ log[n - 1] = LogFailure(log[n - 2], "entry")
  <2>1. \A i \in 1..n : log[i] = LogFailure(log[i - 1], d.failures[i])
    BY LogSteps
  <2>2. n \in 1..n /\ n - 1 \in 1..n /\ (n - 1) - 1 = n - 2
    BY <1>1
  <2> QED
    BY <1>1, <2>1, <2>2
<1>3. log[n - 1] \in Lines /\ log[n - 2] \in Lines
  <2>1. n - 1 \in 0..n /\ n - 2 \in 0..n
    BY <1>1
  <2> QED
    BY <2>1, LogSteps
<1> HIDE DEF n, log
<1>4. Len(log[n - 1]) >= 1 /\ Last(log[n - 1]) # "torn"
  BY <1>2, <1>3, LogLines
<1>5. log[n - 1] # <<>>
  BY <1>3, <1>4 DEF Lines
<1>6. lines \in Lines /\ Len(lines) >= 1 /\ Last(lines) = "entry"
  BY <1>2, <1>3, <1>4, <1>5, LogLines
<1>7. Len(lines) \in Nat /\ lines[Len(lines)] = "entry"
  BY <1>6 DEF Lines, Last
<1>8. Len(lines) \in (IF Len(lines) > 5 THEN Len(lines) - 4 ELSE 1)..Len(lines)
  BY <1>6, <1>7
<1> QED
  BY <1>7, <1>8 DEF RecentHookFailures, n, log

(* A check that warns keeps the verdict from being ready.                    *)
LEMMA FailuresAreTold ==
  ASSUME NEW d \in Machines, FailedTwice(d)
  PROVE  Verdict(d) # "ready"
<1> DEFINE c == Check("failure log", FALSE, "warning")
<1>1. d.failures \in Seq({"entry", "torn"})
  BY DoctorAssumption DEF Machine
<1>2. c \in Checks(d)
  BY <1>1, SecondIsRead DEF FailureLogChecks, Checks
<1>3. ~c.ok /\ c.severity = "warning"
  BY DEF Check
<1> HIDE DEF c
<1> QED
  BY <1>2, <1>3 DEF Verdict

(* The doctor judges right what a command left, and tells of failures.       *)
THEOREM DoctorJudges == Spec => []DoctorIsRight
<1>1. TypeOK => DoctorIsRight
  BY NotRunBlocks, RunPasses, FailuresAreTold
     DEF DoctorIsRight, BlocksWhatWouldNotRun, BlocksNothingThatRuns, TellsOfFailures
<1> QED
  BY <1>1, TypeCorrect, PTL
=============================================================================
