------------------------------ MODULE Install ------------------------------
(***************************************************************************)
(* `audrey install` and `audrey uninstall`: a command registers Audrey's   *)
(* MCP server with each host through the host's own CLI, switches the      *)
(* Codex hooks feature on and merges its handlers into the host's hook     *)
(* settings, or takes all that back.  Each CLI call and each file access   *)
(* is a step: the hosts edit the same two files meanwhile, any call may    *)
(* fail, before or after it took effect, and the command may be killed     *)
(* and run again.  One scope; --dry-run, which writes nothing, is left out.*)
(***************************************************************************)
EXTENDS Naturals, FiniteSets

CONSTANTS
  Claude, Codex,   \* the two hosts, in the order in which a command takes them
  NoHost,
  Edits,           \* the edits others make to the hosts' files meanwhile
  MaxFaults,       \* CLI calls and file accesses that fail
  MaxKills         \* deaths of the command

ASSUME InstallAssumption ==
  /\ Claude # Codex /\ NoHost \notin {Claude, Codex}
  /\ MaxFaults \in Nat /\ MaxKills \in Nat

Hosts == {Claude, Codex}
Verbs == {"install", "uninstall"}

\* The file with the registrations, and for Codex the feature flags.  "old" is
\* a registration by an earlier version, `others` what is not Audrey's.
Registrations == {"none", "old", "new"}
McpFiles == [there: BOOLEAN, registration: Registrations, feature: BOOLEAN, others: SUBSET Edits]

\* The hook settings: how many handlers of an earlier version and of this one
\* an event holds, whose other handlers and settings there are, and whether the
\* text is laid out as Audrey writes it.
HookFiles == [there: BOOLEAN, valid: BOOLEAN, stale: 0..2, fresh: 0..2, others: SUBSET Edits,
              canonical: BOOLEAN]

VARIABLES
  mcp, hooks,    \* [Hosts -> McpFiles], [Hosts -> HookFiles]
  backups,       \* [Hosts -> SUBSET McpFiles]: the .bak files
  command,       \* [verb, hosts, hooks, cli]: what was asked, and the CLIs there are
  pc,
  host, left,    \* the host at work, and those to come
  registered,    \* uninstall's plan: the hosts found registered
  previous,      \* replaceMcpRegistration: previous, also in backupPath when it is there
  activated,     \* codexHooksActivation.changed
  expected,      \* applyHostHookConfig: existingText
  checked,       \* atomicReplace: currentText
  errors,        \* rollbackFailedInstall: the rollback steps that failed
  faults, kills, \* how many there were
  edited         \* the edits made so far

files   == <<mcp, hooks, backups>>
locals  == <<previous, activated, expected, checked>>
bounds  == <<kills, edited>>
vars    == <<mcp, hooks, backups, command, pc, host, left, registered, previous, activated,
             expected, checked, errors, faults, kills, edited>>

Fails == faults < MaxFaults /\ faults' = faults + 1
Works == UNCHANGED faults
-----------------------------------------------------------------------------
(* What the hosts' CLIs do to their file. *)

Registered(file) == file.registration # "none"
WithoutRegistration(file) == [file EXCEPT !.registration = "none"]
WithRegistration(file) == [file EXCEPT !.there = TRUE, !.registration = "new"]
WithFeature(file, on) == [file EXCEPT !.there = TRUE, !.feature = on]

\* A call that fails may have done its work all the same.
McpMayBecome(file) == mcp' \in {mcp, [mcp EXCEPT ![host] = file]}

(* What Audrey does to the hook settings. *)

HasHandlers(file) == file.stale + file.fresh > 0

\* withoutAudreyHandlers: every handler that is Audrey's goes, whatever its version.
WithoutHandlers(file) == [file EXCEPT !.stale = 0, !.fresh = 0, !.canonical = TRUE]

\* Mutant: appends to what is there.
WithMoreHandlers(file) == [file EXCEPT !.there = TRUE, !.fresh = 1, !.canonical = TRUE]

\* mergeHostHookSettings: one new set is appended to what is left.
WithHandlers(file) == [WithoutHandlers(file) EXCEPT !.there = TRUE, !.fresh = 1]

Wanted(file) == IF command.verb = "install" THEN WithHandlers(file) ELSE WithoutHandlers(file)

\* Neither rewrites a text it would not change; uninstall leaves an absent file absent.
Changes(file) == Wanted(file) # file /\ (command.verb = "uninstall" => file.there)
-----------------------------------------------------------------------------
Clean == [there |-> FALSE, registration |-> "none", feature |-> FALSE, others |-> {}]
NoHooks == [there |-> FALSE, valid |-> TRUE, stale |-> 0, fresh |-> 0, others |-> {},
            canonical |-> TRUE]

\* Files a host and earlier installations leave.
McpStart == {f \in McpFiles : /\ f.others = {} /\ f.registration # "new"
                              /\ ~f.there => f = Clean}
HookStart == {f \in HookFiles : /\ f.others = {} /\ f.fresh = 0 /\ f.stale # 1
                                /\ ~f.there => f = NoHooks
                                /\ f.there => ~f.canonical
                                /\ ~f.valid => f.stale = 0}

\* Mutant: takes Claude Code whatever was asked.
FirstKnown(hosts) == Claude

First(hosts) == IF Claude \in hosts THEN Claude ELSE Codex

\* install works on the hosts whose CLI is there, all of the requested ones for uninstall.
Commands == {c \in [verb: Verbs, hosts: (SUBSET Hosts) \ {{}}, hooks: BOOLEAN, cli: SUBSET Hosts] :
               c.cli \subseteq c.hosts /\ (c.verb = "install" => c.cli = c.hosts)}

Init ==
  /\ mcp \in [Hosts -> McpStart]
  /\ hooks \in [Hosts -> HookStart]
  /\ \A h \in Hosts : h # Codex => ~mcp[h].feature
  /\ backups = [h \in Hosts |-> {}]
  /\ command \in Commands
  /\ pc = "start" /\ host = NoHost /\ left = {} /\ registered = {}
  /\ previous = Clean /\ activated = FALSE /\ expected = NoHooks /\ checked = NoHooks
  /\ errors = {} /\ faults = 0 /\ kills = 0 /\ edited = {}

Resting == {"start", "done", "failed", "dead"}

(* The steps share these frames. *)
Keep == UNCHANGED <<command, bounds>>
Goto(label) == pc' = label
SameHost == UNCHANGED <<host, left, registered>>

\* install: `for (const host of available) installHost(host, options)`
Begin ==
  /\ pc = "start"
  /\ registered' = {h \in command.hosts : Registered(mcp[h])}
  /\ errors' = {}
  /\ UNCHANGED <<files, locals>> /\ Works /\ Keep
  /\ IF command.verb = "uninstall" /\ ~(registered' \subseteq command.cli)
       THEN Goto("failed") /\ UNCHANGED <<host, left>>
       ELSE Goto("next") /\ host' = NoHost /\ left' = command.hosts

\* An install starts on a host by reading the text of its file, if there is one.
NextHost ==
  /\ pc = "next"
  /\ UNCHANGED <<files, expected, checked, errors, registered, command, bounds>> /\ Works
  /\ IF left = {}
       THEN Goto("done") /\ UNCHANGED <<host, left, previous, activated>>
       ELSE /\ host' = First(left) /\ left' = left \ {host'}
            /\ previous' = mcp[host'] /\ activated' = FALSE
            /\ Goto(IF command.verb = "install" THEN "backup"
                    ELSE IF host' \in registered THEN "unregister"
                    ELSE IF command.hooks THEN "hooks" ELSE "next")

\* mkdir, the read and the backup throw outside the try of installHost.
Abort ==
  /\ pc = "backup"
  /\ Fails /\ Goto("failed")
  /\ UNCHANGED <<files, locals, errors>> /\ SameHost /\ Keep
-----------------------------------------------------------------------------
(* replaceMcpRegistration *)

\* Mutant: the backup is left to a later step that never comes.
BackupMcpOmitted ==
  /\ pc = "backup" /\ Goto("remove")
  /\ UNCHANGED <<files, locals, errors>> /\ Works /\ SameHost /\ Keep

BackupMcp ==
  /\ pc = "backup"
  /\ backups' = [backups EXCEPT ![host] = @ \cup {f \in {previous} : f.there}]
  /\ Goto("remove")
  /\ UNCHANGED <<mcp, hooks, locals, errors>> /\ Works /\ SameHost /\ Keep

\* Mutant: the old registration is left for the addition to overwrite.
RemoveMcpOmitted ==
  /\ pc = "remove" /\ Goto("add")
  /\ UNCHANGED <<files, locals, errors>> /\ Works /\ SameHost /\ Keep

\* A removal that fails is swallowed: a first installation has nothing to remove.
RemoveMcp ==
  /\ pc = "remove"
  /\ \/ Works /\ mcp' = [mcp EXCEPT ![host] = WithoutRegistration(@)]
     \/ Fails /\ McpMayBecome(WithoutRegistration(mcp[host]))
  /\ Goto("add")
  /\ UNCHANGED <<hooks, backups, locals, errors>> /\ SameHost /\ Keep

\* Claude Code refuses a name that is registered already.
Refused == host = Claude /\ Registered(mcp[host])

Registering == IF command.hooks THEN (IF host = Codex THEN "feature" ELSE "hooks") ELSE "next"

AddMcp ==
  /\ pc = "add"
  /\ \/ /\ ~Refused /\ Works
        /\ mcp' = [mcp EXCEPT ![host] = WithRegistration(@)]
        /\ Goto(Registering)
     \/ Refused /\ Works /\ UNCHANGED mcp /\ Goto("undoAdd")
     \/ Fails /\ McpMayBecome(WithRegistration(mcp[host])) /\ Goto("undoAdd")
  /\ UNCHANGED <<hooks, backups, locals, errors>> /\ SameHost /\ Keep

\* Mutant: the rollback only takes the new registration back.
RestoredByRemoval == WithoutRegistration(mcp[host])

\* The previous text is written back, or the registration removed when there was none:
\* the removal fails when the addition had no effect.
Restored == IF previous.there THEN previous ELSE WithoutRegistration(mcp[host])

UndoAdd ==
  /\ pc = "undoAdd"
  /\ Goto("failed")
  /\ \/ /\ Works /\ mcp' = [mcp EXCEPT ![host] = Restored]
        /\ errors' = IF previous.there \/ Registered(mcp[host]) THEN {} ELSE {"mcp"}
     \/ Fails /\ errors' = {"mcp"} /\ McpMayBecome(Restored)
  /\ UNCHANGED <<hooks, backups, locals>> /\ SameHost /\ Keep
-----------------------------------------------------------------------------
(* ensureCodexHooksFeatureEnabled *)

ListFeature ==
  /\ pc = "feature"
  /\ \/ Works /\ Goto(IF mcp[host].feature THEN "hooks" ELSE "enable")
     \/ Fails /\ Goto("rollback")
  /\ UNCHANGED <<files, locals, errors>> /\ SameHost /\ Keep

EnableFeature ==
  /\ pc = "enable"
  /\ \/ Works /\ mcp' = [mcp EXCEPT ![host] = WithFeature(@, TRUE)] /\ Goto("verify")
     \/ Fails /\ McpMayBecome(WithFeature(mcp[host], TRUE)) /\ Goto("disable")
  /\ UNCHANGED <<hooks, backups, locals, errors>> /\ SameHost /\ Keep

VerifyFeature ==
  /\ pc = "verify"
  /\ \/ Works /\ mcp[host].feature /\ activated' = TRUE /\ Goto("hooks")
     \/ Works /\ ~mcp[host].feature /\ UNCHANGED activated /\ Goto("disable")
     \/ Fails /\ UNCHANGED activated /\ Goto("disable")
  /\ UNCHANGED <<files, previous, expected, checked, errors>> /\ SameHost /\ Keep

\* The compensating disable; the registration is rolled back next.
DisableFeature ==
  /\ pc = "disable"
  /\ \/ Works /\ mcp' = [mcp EXCEPT ![host] = WithFeature(@, FALSE)] /\ UNCHANGED errors
     \/ Fails /\ McpMayBecome(WithFeature(mcp[host], FALSE)) /\ errors' = errors \cup {"feature"}
  /\ Goto("rollback")
  /\ UNCHANGED <<hooks, backups, locals>> /\ SameHost /\ Keep
-----------------------------------------------------------------------------
(* applyHostHookConfig, removeHostHookConfig, atomicReplace *)

HookError == IF command.verb = "install" THEN "rollback" ELSE "failed"

ReadHooks ==
  /\ pc = "hooks"
  /\ expected' = hooks[host]
  /\ \/ Works /\ Goto(IF ~hooks[host].valid THEN HookError
                      ELSE IF Changes(hooks[host]) THEN "replace" ELSE "next")
     \/ Fails /\ Goto(HookError)
  /\ UNCHANGED <<files, previous, activated, checked, errors>> /\ SameHost /\ Keep

\* Mutant: replaces the settings whatever they hold by then.
CheckHooksBlindly ==
  /\ pc = "replace" /\ checked' = hooks[host] /\ Goto("rename")
  /\ UNCHANGED <<files, previous, activated, expected, errors>> /\ Works /\ SameHost /\ Keep

\* With the backup and the temporary file written, the settings are read again.
CheckHooks ==
  /\ pc = "replace"
  /\ checked' = hooks[host]
  /\ \/ Works /\ Goto(IF hooks[host] = expected THEN "rename" ELSE HookError)
     \/ Fails /\ Goto(HookError)
  /\ UNCHANGED <<files, previous, activated, expected, errors>> /\ SameHost /\ Keep

RenameHooks ==
  /\ pc = "rename"
  /\ \/ Works /\ hooks' = [hooks EXCEPT ![host] = Wanted(expected)] /\ Goto("next")
     \/ Fails /\ UNCHANGED hooks /\ Goto(HookError)
  /\ UNCHANGED <<mcp, backups, locals, errors>> /\ SameHost /\ Keep
-----------------------------------------------------------------------------
(* rollbackFailedInstall: a step that fails does not keep the next from running. *)

RollbackFeature ==
  /\ pc = "rollback"
  /\ Goto("rollbackMcp")
  /\ \/ Works /\ UNCHANGED errors
        /\ mcp' = IF activated THEN [mcp EXCEPT ![host] = WithFeature(@, FALSE)] ELSE mcp
     \/ activated /\ Fails /\ McpMayBecome(WithFeature(mcp[host], FALSE))
        /\ errors' = errors \cup {"feature"}
  /\ UNCHANGED <<hooks, backups, locals>> /\ SameHost /\ Keep

\* rollbackMcpRegistration
RollbackMcp ==
  /\ pc = "rollbackMcp"
  /\ Goto("failed")
  /\ \/ /\ Works /\ mcp' = [mcp EXCEPT ![host] = Restored]
        /\ errors' = IF previous.there \/ Registered(mcp[host]) THEN errors
                     ELSE errors \cup {"mcp"}
     \/ Fails /\ McpMayBecome(Restored) /\ errors' = errors \cup {"mcp"}
  /\ UNCHANGED <<hooks, backups, locals>> /\ SameHost /\ Keep

(* uninstall *)
Unregister ==
  /\ pc = "unregister"
  /\ \/ /\ Works /\ mcp' = [mcp EXCEPT ![host] = WithoutRegistration(@)]
        /\ Goto(IF command.hooks THEN "hooks" ELSE "next")
     \/ Fails /\ McpMayBecome(WithoutRegistration(mcp[host])) /\ Goto("failed")
  /\ UNCHANGED <<hooks, backups, locals, errors>> /\ SameHost /\ Keep
-----------------------------------------------------------------------------
Kill ==
  /\ pc \notin Resting /\ kills < MaxKills
  /\ kills' = kills + 1 /\ Goto("dead")
  /\ UNCHANGED <<files, locals, errors, command, faults, edited>> /\ SameHost

\* The user runs the command again after it failed or died.
Retry ==
  /\ pc \in {"failed", "dead"}
  /\ Goto("start")
  /\ UNCHANGED <<files, locals, errors>> /\ Works /\ SameHost /\ Keep

\* A host, or its user, rewrites one of its files with an edit more.
EditMcp(h, e) ==
  /\ mcp[h].there
  /\ mcp' = [mcp EXCEPT ![h].others = @ \cup {e}]
  /\ UNCHANGED hooks

EditHooks(h, e) ==
  /\ hooks[h].valid
  /\ hooks' = [hooks EXCEPT ![h].there = TRUE, ![h].others = @ \cup {e}, ![h].canonical = FALSE]
  /\ UNCHANGED mcp

Edit(h) == \E e \in Edits \ edited :
  /\ EditMcp(h, e) \/ EditHooks(h, e)
  /\ edited' = edited \cup {e}
  /\ UNCHANGED <<backups, locals, errors, command, pc, faults, kills>> /\ SameHost

Step ==
  \/ Begin \/ NextHost \/ Abort
  \/ BackupMcp \/ RemoveMcp \/ AddMcp \/ UndoAdd
  \/ ListFeature \/ EnableFeature \/ VerifyFeature \/ DisableFeature
  \/ ReadHooks \/ CheckHooks \/ RenameHooks
  \/ RollbackFeature \/ RollbackMcp \/ Unregister

Next == Step \/ Kill \/ Retry \/ \E h \in Hosts : Edit(h)

Spec == Init /\ [][Next]_vars

\* A command that was started goes on until it ends, and its user runs it again.
FairSpec == Spec /\ WF_vars(Step) /\ WF_vars(Retry)
-----------------------------------------------------------------------------
Labels == Resting \cup {"next", "backup", "remove", "add", "undoAdd", "feature", "enable",
  "verify", "disable", "hooks", "replace", "rename", "rollback", "rollbackMcp", "unregister"}

\* Types of the files and of the command's state; a host at work is one that was asked for.
TypeOK ==
  /\ mcp \in [Hosts -> McpFiles] /\ hooks \in [Hosts -> HookFiles]
  /\ backups \in [Hosts -> SUBSET McpFiles]
  /\ command \in Commands /\ pc \in Labels
  /\ host \in command.hosts \cup {NoHost} /\ left \subseteq command.hosts
  /\ pc \in Labels \ (Resting \cup {"next"}) => host \in command.hosts
  /\ registered \subseteq command.hosts
  /\ previous \in McpFiles /\ activated \in BOOLEAN
  /\ expected \in HookFiles /\ checked \in HookFiles
  /\ errors \subseteq {"feature", "mcp"}
  /\ faults \in 0..MaxFaults /\ kills \in 0..MaxKills /\ edited \subseteq Edits

Same(file, other) == file.registration = other.registration /\ file.feature = other.feature

\* A failed install that reports no failed rollback step leaves the host's registration
\* and feature flag as the command found them, whichever call failed and whatever it had
\* done (replaceMcpRegistration, ensureCodexHooksFeatureEnabled, rollbackFailedInstall).
FailedInstallIsUndone ==
  pc = "failed" /\ command.verb = "install" /\ host # NoHost /\ errors = {} =>
    Same(mcp[host], previous)

\* Whenever an install dies or fails, the registration it found is in the host's file, or
\* replaced by this version's, or in a backup: the text is saved before the CLI removes it.
RegistrationIsRecoverable ==
  command.verb = "install" /\ host # NoHost /\ Registered(previous) =>
    Registered(mcp[host]) \/ previous \in backups[host]

\* An edit of a host's file is lost only to a write of Audrey's that is based on a text
\* read before the edit: hook settings last compared right before the rename, an MCP file
\* restored to what it was before the registration (atomicReplace, rollbackMcpRegistration).
EditsSurvive ==
  [][\A h \in Hosts :
       /\ h = host => mcp[h].others \cap previous.others \subseteq mcp'[h].others
       /\ h # host => mcp[h].others \subseteq mcp'[h].others
       /\ h = host => hooks[h].others \cap checked.others \subseteq hooks'[h].others
       /\ h # host => hooks[h].others \subseteq hooks'[h].others]_vars

\* What a finished command leaves on a host.
Finished(h) ==
  IF command.verb = "install"
    THEN /\ mcp[h].registration = "new"
         /\ command.hooks => /\ hooks[h].fresh = 1 /\ hooks[h].stale = 0
                             /\ h = Codex => mcp[h].feature
    ELSE /\ ~Registered(mcp[h])
         /\ command.hooks => ~HasHandlers(hooks[h])

\* A finished install has every host registered and, when hooks were asked for, exactly one
\* set of handlers, those of this version, and the Codex feature on; a finished uninstall
\* leaves no registration and no handler.  A rerun after a failure or a kill duplicates
\* nothing and leaves nothing half done (mergeHostHookSettings, removeHostHookSettings).
FinishedIsWhole == pc = "done" => \A h \in command.hosts : Finished(h)

\* When the hook settings can be read and the CLIs an uninstall needs are there, a command
\* that is run again after each failure gets done: no backup, half-made registration or
\* feature flag that a failed or killed run leaves can stop the next one.
EventuallyDone ==
  (/\ command.hooks => \A h \in command.hosts : hooks[h].valid
   /\ \A h \in command.hosts : Registered(mcp[h]) => h \in command.cli)
  => <>(pc = "done")
=============================================================================
