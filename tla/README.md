# A verification of Audrey in TLA+

Audrey is a local memory for coding agents. One SQLite database (WAL, foreign
keys on) is open in several processes at the same time: every hook process the
tool host starts, the MCP server, the CLI, the HTTP server. A process is one
JavaScript thread, so that two calls of one process interleave only at an
`await`; two processes interleave between any two statements that are not in one
transaction. Nearly everything that can go wrong in Audrey goes wrong there: a
row read before an await or before another process's statement, and used after
it. The models therefore take one SQL statement, one transaction, or the
synchronous code between two awaits as a step, whichever is the smallest unit
that nothing can get into.

Contents: [inventory](#inventory), [plan](#plan), [modules](#modules-and-the-code),
[runs](#runs-what-each-checks-and-shows), [fairness](#fairness),
[assumptions](#assumptions), [proofs](#proofs), [findings](#findings),
[limits](#only-model-checked-or-not-modelled).

## Inventory

| Part (under `src/`) | State | Operations | What is hard | What makes it correct |
|---|---|---|---|---|
| Guard: `controller.ts`, `preflight.ts`, `action-key.ts` over `events.ts` | rows of `memory_events`: receipts (PreToolUse), outcomes | `beforeAction`, `afterAction` (twice: with a receipt and without), `exactActionHistory` | receipt inserted, judged and stamped in three statements; other processes check, report and delete in between | an exact repeat of a failure stays blocked; only acknowledged successes clear a failure; one outcome per receipt |
| Post-tool hook: `autopilot.ts` `guardAfterHook` | outcome claim in `audrey_config`, outcome rows, failure memories | claim, correlate, record, learn, release | duplicate delivery, kill by the host, an embedding that outlives the claim's lease | one outcome per tool use, none lost, failures learned |
| Pre-tool hook: `autopilot.ts` `guardBeforeHook` | retry intent in `audrey_config`, the receipt's correlation | read the intent, check, consume, scope to the project, answer | parallel tool uses of one turn, kills (the hook fails open) | no tool let through over a failure nobody acknowledged; one retry per acknowledgement |
| Session-delta injection: `autopilot.ts` `contextForHook`, `capsule.ts` | tracker of injected keys per session | prompt, session start, compaction, expiry, overflow | the tracker must agree with a context window the program never sees; kills between saving and writing | nothing withheld, nothing repeated, everything given in the end |
| Consolidation: `consolidate.ts` | `episodes.consolidated`, `semantics`, `consolidation_runs`, vector rows | `runConsolidation`, `rollbackConsolidation` | providers are awaited between reading the clusters and the transaction | an episode counts once; support counts match evidence |
| Forgetting and decay: `forget.ts`, `decay.ts` | `superseded_by`, `state`, vector rows | forget, purge, decay | foreign keys between rows that die in different orders | support counts stay those of the evidence; purge needs the rows that refer to dead ones gone first (see [findings](#findings)) |
| Validation: `validate.ts`, post-encode queue of `audrey.ts` | `evidence_episode_ids`, `supporting_count`, `state`, contradictions | reinforce, ask the model, apply the verdict, `resolveTruth` | verdicts arrive after the memory has changed | support counts match evidence |
| Maintenance: `autopilot.ts` `runMaintenance`, `runEventRetention` | leases and last-run times in `audrey_config` | consolidate once a day, delete old events in batches | leases expire under a slow run; the last-run time is read before the lease is taken | one run at a time and per interval |
| Store: `db.ts`, `migrate.ts`, `encode.ts`, `_ensureMigrated` of `audrey.ts` | rows, vector tables, their size, high-water marks | open, migrate, re-embed, encode, forget, purge | the tables are dropped, sized, created and filled in separate statements while old processes write and other openings overlap; kills in between | no row falls behind the mark; index and rows agree in size; every live row comes back into the index |
| Instance: `audrey.ts`, shutdown of `mcp-server/index.ts` | post-encode queue, pending ids, warmup, closed flag | encode, encodeBatch, reflect, drain, close, closeAsync, signals | a silent provider, tasks added while a drain waits, closing under calls in flight | a drain and a waiting call are told the truth; closing always ends |
| Recall: `recall.ts`, `hybrid-recall.ts`, `fts.ts`, `confidence.ts` | none but retrieval counts | two searches, fusion, duplicate suppression, a second pass | filters after the nearest neighbours, keyword hits that bypass the vector query, partial failures | nothing hidden shown, nothing in reach left out, keywords count |
| Capsule and preflight: `capsule.ts`, `preflight.ts`, `trust.ts` | none | sections, budget, rule sweep, warnings, decision | rules far from the query, tight budgets, memories purged between search and use | a trusted rule is warned of |
| CLI: `mcp-server/index.ts`, `hooks.ts`, `config.ts`, `codex-hooks-probe.ts` | the hosts' registration files and hook settings, backups, failure log | install, uninstall, doctor | calls that fail before or after they took effect, edits by the hosts, kills, reruns | a failed install is undone, an interrupted one recoverable; the doctor is right |
| Release: six scripts in `scripts/` | working tree, refs, bundle, report, registries | cut, finalize, two publishers, readiness, audit | partial pushes, others' pushes, edits meanwhile, kills | only whole releases are published; ready means published; a half publication can be completed |
| Feedback: `feedback.ts`, `impact.ts`, `promote.ts` | numeric counters, promoted rules | `applyFeedback`, promote | read-modify-write across processes | counters count |
| Import: `import.ts`, `export.ts` | none of their own | one transaction | check that the store is empty, then an await | an import is whole or not there |
| Providers: `embedding.ts`, `llm.ts` | none | embed, complete | slow, may throw or never answer | modelled by their callers |
| Text: `redact.ts`, `prompts.ts`, `project.ts` | none | string functions | none of the kind checked here | unit tests |
| Front ends: `server.ts`, `routes.ts`, MCP dispatch, Python client | none | dispatch | hook timeouts and failing open | the hooks' models contain what matters of them |

How they interact: the host calls a hook process per event (`SessionStart`,
`UserPromptSubmit`, `PreToolUse`, `PostToolUse`, `PostToolUseFailure`,
`PostCompact`, `Stop`); the hook opens the database, calls the Guard, recall,
encode or consolidate, and answers on stdout. All shared state is in SQLite
rows; the only callbacks are awaited providers and the post-encode queue.
`PROJECT.json` lists every hazard found while reading, at its line, with the
property that watches it.

## Plan

Written, in this order, the most important first:

1. **Guard** (proved): everything else reports to its log.
2. **HookOutcome** with the abstract **OutcomeLedger** (proved): one tool result,
   delivered several times.
3. **PreToolHook** (proved), which EXTENDS Guard: parallel tool uses composed with
   Guard; the composition refines Guard.
4. **Injection** (proved): the tracker against the context window.
5. **Consolidation** (proved): runs, rollback, forgetting, validation.
6. **Store** (proved): a change of provider.
7. **Lifecycle** (proved): one instance from its first encode to its exit.
8. **Recall**, and **Preflight** on top of it (proved).
9. **Install**, and **Doctor** on what it leaves (proved).
10. **Release** (proved).

Left, in this order: the leases of `runMaintenance` and `runEventRetention` (a module Upkeep); `resolveTruth` and
the reopening of contradictions against forgetting (a module Truth); the schema
migrations of `db.ts`; `getCausalChain` as a function against a reference
definition.

## Modules and the code

**Guard** (`controller.ts`, `events.ts`). A receipt is a PreToolUse row, an
outcome a PostToolUse row. `Before` awaits the preflight and inserts the receipt;
`Judge` reads the receipt and the exact-failure history; `Stamp` writes the
verdict into the receipt's metadata, which makes it a guard receipt, and
returns. `After` is every check of `afterAction`, `Record` its insertion,
`Observe` an outcome without a receipt. `Rescope` is what the pre-tool hook
does to the decision of a receipt. `Prune` is one batch of
`deleteEventsBefore`: the index on `created_at` makes it a prefix of the log.
The preflight's own decision is any member of `Advice`. `Crash` is a kill or a
throw. The failure window (`Window`) slides with the clock.

**HookOutcome** (`autopilot.ts` `guardAfterHook`). `CheckNew` and
`CheckExisting` look for an outcome row, `Acquire` and `Refuse` are the two
results of the conditional upsert of the claim, `Correlate` finds the receipt,
`RecordLinked`/`RecordLoose` insert, `Learn` looks for the failure memory and
`Encode` resumes from its embedding, `Throw`/`Release`/`Kill` end a delivery.
**OutcomeLedger** is what it promises: an outcome is recorded once, and only a
recorded failure is learned.

**PreToolHook** (`autopilot.ts` `guardBeforeHook`) runs one tool use per process:
`Prompt` stores or deletes the retry intent, `ReadIntent`, `AskGuard`,
`GuardJudges`, `GuardAnswers`, `Consume`, `Correlate` and `Answer` are the hook's
stretches in order, `FailOpen` a kill or throw at any of them. `RunTool` is the
host's, `Report`, `RecordReport`, `ReportLoose` and `LoseReport` the post-tool
hook of the same use. It reuses the actions of Guard, conjoined with the
hook's own variables.

**Injection** (`autopilot.ts` `contextForHook`, `capsule.ts` `buildCapsule`). A
memory is its rank; a key is a memory with its state, as in `injectedEntryKey`.
`Capsule` widens the recall limit by what is excluded, skips that, and keeps
what fits the budget; `Scoped` then drops the memories of other projects, in
the order of the code. `Load`, `Inject`, `Write` are a prompt hook, `ClearStart`,
`Seed`, `Write` a session start, `PostCompact` and `PruneStale` the maintenance
hooks. The host's side is `window`, the keys it really holds, emptied by
`Compact` and `Resume(TRUE)`. History variables (`lost`, `forgotten`, `stale`)
say why tracker and window may differ: a kill between saving and writing, a
deliberate giving-up, and an emptied window whose hooks were all killed.
`LeftOut` compares the packet of a prompt with the one it would be without a
tracker; `NothingWithheld` asks of it what the code keeps, that the session was given
such a memory in some standing, `NewStandingIsGiven` what the comment of
`injectedEntryKey` promises, that it was given in the present one.

**Consolidation** (`consolidate.ts`, `rollback.ts`, `forget.ts`, `decay.ts`,
`encode.ts`, `validate.ts`). `BeginRun` reads the clusters, which stay in `work`
while the run awaits its providers; `Commit` is the transaction, which takes
only clusters that are still `Eligible`; `FailRun` and `CrashRun` end a run that
awaits. `Rollback` is the call in the same process, `RollbackRead` and
`RollbackApply` the two halves in another; the history variable `raced` keeps the
runs that such a rollback undid on a read that was `Stale`. Clusters are any disjoint sets whose
episodes the nearest-neighbour query can link: similarity is left open.

**Store** (`db.ts`, `migrate.ts`, `encode.ts`, `audrey.ts`). `Open` compares the
sizes; `DropTables`, `UpdateDimensions`, `CreateTables` are the statements of
`createDatabase`, `ReadMark`, `SelectRows`, `CopyRows`, `WriteMark` those of
`migrateTable`, `OpenFails` what throws on the way. `ReembedRead` and
`ReembedWrite` are the two sides of the await in `reembedAll`, as often at once
as calls found a migration pending; `RecreateDrop`/`RecreateTables` is the reembed
command. Nothing keeps two openings apart, and the module does not either: `Drop`
marks as `stale` what other processes have read of the tables, and the history
variable `misled` is TRUE from when such a process writes what it had read (a mark,
rows, or tables of a size that has changed) until the tables are dropped again.
`Encode`, `Forget` and `Purge` are what open processes of either version
do meanwhile. One table with index and mark stands for three that are treated
alike.

**Lifecycle** (`audrey.ts`, shutdown handlers of `mcp-server/index.ts`). A call is
the set of its episodes; `Start`, `Reflected`, `WarmupOver`, `Embedded`, `Insert`,
`Enqueue`, `Waited` are the stretches between the awaits of encode, encodeBatch
and reflect. `Turn`, `Interfere`, `Validate`, `Finish` are one task of
`_postEncodeQueue`. `BeginDrain`, `Drained`, `TimedOut`, `EndDrain` are
`drainPostEncodeQueue` under `closeAsync` and under a signal; `Close` is the
synchronous close by anyone.

**Recall** (`recall.ts`, `hybrid-recall.ts`, `fts.ts`). A query says how near each
memory is (0..100), how much of its words each has (equals are ranked by id, where
SQLite may choose), and which hold the value it asks for. `Knn` takes the k nearest rows of a partition and filters then, as
the SQL does; `FtsIds` and `LoadFtsOnly` are the keyword pass, `Score` the fusion in
thousandths, `Guarded` the order and duplicate suppression: the loop of
`applyResultGuards` builds the one set in which an entry is iff fewer than the
limit come before it and none of these repeats it, and the module says just that
(`Accepts`) instead of the loop, so that it can be reasoned about. `Top` is the
second pass with a larger k. `Search` is all of that in one step, since the code does not
pause; `Yield` gives the entries one by one and reinforces, with pauses in which
`Change` may strike; `YieldUnreinforced` gives an entry whose reinforcement failed
and was reported.

**Preflight** (`capsule.ts`, `preflight.ts`, `trust.ts`) EXTENDS Recall. `Categorize`,
`Listed`, `Pruned` are the sections and the budget (of the six tags that make a rule,
`RuleTags` has the one that is swept for and one for the other five), `Build` and `Sweep` the two
stretches of `buildPreflight` around the second recall, `Warnings` and `Decision` its
result.

**Install** (`mcp-server/index.ts`, `hooks.ts`). Each call of a host's CLI and each
file access is a step. `BackupMcp`, `RemoveMcp`, `AddMcp`, `UndoAdd` are
`replaceMcpRegistration`; `ListFeature` to `DisableFeature` are
`ensureCodexHooksFeatureEnabled`; `ReadHooks`, `CheckHooks`, `RenameHooks` are the
merge and `atomicReplace`; `RollbackFeature` and `RollbackMcp` are
`rollbackFailedInstall`. A file is its registration, flag, handlers by version,
and the edits of others it holds. **Doctor** (`buildDoctorReport`, `config.ts`,
`codex-hooks-probe.ts`) is a pure function of Install's files and of a machine:
the checks of one report as a set, and its verdict. `ServerProviders` and
`HookProviders` are what `buildAudreyConfig` and `autopilotHookCli` make of what
install wrote, in any environment a host may have of its own (`HostEnvs`).

**Release** (`scripts/`). A commit is its history; a tree the files that carry the
version and a content that edits change. `CutFile` is prepare-release-cut,
`Commit` to `UploadPython` the actions of finalize-release in the order of
`execute`, `UploadBlobs`, `MoveBranch`, `CreateTag` the API publisher, `PushBundle`
the other one; `Checks` and the `Audit...` operators are the readiness check and
the audit, read-only. `Fails` may strike before or after a call took effect.

Each MC module EXTENDS its component and adds symmetry sets, where they are
sound, or the data a .cfg cannot write down (the memories and queries of
MCPreflight, the machines of MCInstall). The other bounds are in the .cfg files.

## Runs: what each checks and shows

Every number is a constant of the .cfg and a bound of the model alone.

| Run | Bounds | Shows |
|---|---|---|
| GuardLog | 2 processes, 2 actions, 3 rows, window 1, clock 2 | `NoSuccessOverExactBlock`, `RecoveryIsAcknowledged`; `OnlyFailureBlocks`: ageing, retention half done, checks and successes never turn an action into a blocked one. Two actions so that rows of one could be taken for the other's; a window shorter than the run so that rows leave it in between; three rows are a failure, a receipt and a report in any order. |
| HookOutcome | 3 deliveries, lease 2, clock 4 | `OneRecorder`, the refinement `LedgerSpec`, and under fairness `LastDeliveryRecords`, `ReplayLearns`. Three deliveries: one that outlives its claim, one that takes it over, one that comes when it is released. |
| PreToolHook | 2 parallel uses, 1 prompt, 3 rows, clock 1 | `NoBlindRetry`: whichever hooks are killed, a tool let through without an acknowledged retry has no uncleared failure from before its check |
| Injection | 2 memories, packets of 1, recall limit 1 widened to 2, tracker of 1 key, lifetime 1, 5 events | `OncePerWindow`, the action property `NothingWithheld`, and under fairness `EventuallyInjected`. The second memory is reached only past the first, and the tracker overflows with it; five events are enough for a compaction with both of its hooks killed and an expiry, or for memories to come and change in between. |
| InjectionStanding | 1 memory, packets of 1, 2 events | refutes `NewStandingIsGiven`: a memory is given, changes its standing, and the next prompt leaves it out |
| Consolidation | 2 episodes, 1 memory, 2 runs, 1 undoing process, clusters of 1 or 2, a language model | `ConsumedOnce`, `SupportMatchesEvidence`. With two runs over two episodes one run can take an episode, both or none of what the other has read; the undoing process reads before and acts after either of them, or after a rollback in their own process. |
| Store | 1 row, 1 process of before the change, 1 new one, 1 reembed command, mark 1, 2 kills | `NothingSkipped`, `IndexFitsTable`, and under fairness `EventuallySearchable`. The old process still writes vectors of the old size, and three processes open the store in overlapping steps; a mark of 1 without a row is what a purge leaves, so that a new row can get a number at the mark. One row, since the properties are about each row for itself: two rows take the liveness property past five minutes with kills; without kills it was checked on them apart from the runs (986,132 states, no error), and so was the safety part with one kill (2.4 million). |
| StoreMark | the same processes, 2 rows, no kill | refutes `UnindexedIsAboveMark`: of two overlapping openings one writes a mark for rows whose index the other has dropped |
| Lifecycle | 1 call of 2 episodes, 1 closeAsync, 2 signals | `DrainedIsWorked`, `WaitedIsWorked`, and under fairness `ClosesAnyway`, `EveryTaskEnds`. Two episodes so that one task can come while a drain waits for the other; the second signal comes while the first one drains. |
| Preflight | 6 memories in any allowed states, 26 requests, 2 queries, capsule limit 1, sweep 2, pool 1, retry 2, 1 change | `PreflightTypeOK`, `RuleIsSeen`, `NothingHidden`, `FullAnswer`, `KeywordFirst`. The limits are below the number of memories, so that each of them cuts something off; one rule is the furthest from the query, one is untrusted, one memory is a rule by a tag that is not swept for, one memory is private and foreign. |
| Install | 2 hosts, 1 fault, 1 kill, 1 edit, 11 machines, logs of 7 lines | `TypeOK`, `FailedInstallIsUndone`, `RegistrationIsRecoverable`, `FinishedIsWhole`, `DoctorIsRight`, `ProvidersAreUsed`, `EditsSurvive`, and under fairness `EventuallyDone`. Any one call fails, before or after its effect, and any one step is the last; files the command does not touch start in one state only (`Untouched`). A machine differs from a well one in its hooks, its environment or its log. |
| Release | 4 runs, 4 selections, 1 edit, 1 foreign push, 1 fault, 1 kill | `TypeOK`, `PublishedIsWhole`, `ReadyIsPublished`, `RemoteKeepsCommits`, `PublishesWhatWasBundled`, and under fairness `PublicationCompletes`. Four runs are a cut, a bundle, a second bundle or cut, and a publication; the bundle publisher is not counted. |

Deadlock is not checked: clock, rows, runs and events are bounded, a recall is
answered, a command is done, a process exits. Every model comes to rest, and so
does the program when nobody calls it. That nothing waits for ever is said by the
liveness properties.

The type invariants of Guard, HookOutcome, PreToolHook, Injection, Consolidation,
Store and Lifecycle are proved for all constants, and so are `OneLinkedOutcome`
and `PendingIsExact`; no run repeats them.

Every property of a passing run has a mutant in `PROJECT.json`: a definition
changed as a plausible bug would change the code (a dropped guard, a claim that
is only taken when there is none, retention that deletes in any order, a tracker
saved without its old keys, a capsule that does not widen, marks that
survive the tables they are about, a drain that believes its timer, a sweep cut
before its rules are picked, a publisher that trusts what it uploaded) which the
run then rejects. The mutated operators stand before the originals.

## Fairness

- HookOutcome: weak fairness of `Run(h)` of every delivery. A process the host
  has started runs until it ends, throws or is killed; its awaits have timeouts
  (`internalCallTimeoutMs`). Nothing is assumed of kills, throws and the clock:
  `LastDeliveryRecords` therefore starts from a claim that is absent or has
  expired, and both properties except a delivery that is killed itself.
- Injection: weak fairness of `Run`, the hooks of the session: the user keeps
  prompting, and a hook that started runs on. Kills, compactions, the clock and
  other processes are bounded by `MaxEvents` and get no fairness.
- Store: a process that is opening the store goes on (weak fairness of
  `Continue`). Processes that are not the reembed command come and go: they are
  started again and again (strong fairness of `Open`, since another opening may
  be under way), close in the end (weak), get their rows inserted some time (strong
  fairness of `CopyRows`: another opening does not insert one of them first every
  time), and when they find a migration pending
  some call of theirs gets through it (strong fairness of `ReembedRead` and
  `ReembedWrite`: the provider does not fail every time, which is the premise of
  a retry). Nothing is assumed of old processes, of encodes and kills, or of when the
  command is run and whether it succeeds.
- Lifecycle: weak fairness of what follows a settled promise (`Task`, the
  stretches of a call) and of a drain's timer (`TimedOut`). Nothing is assumed of
  the providers; `EveryTaskEnds` says in its premise that the model answers.
- Install: weak fairness of `Step` and `Retry`: a started command runs on, and its
  user runs it again. Faults and kills are bounded.
- Release: weak fairness of `Step` and `StartBundle`: a started script runs on, and
  the operator runs the bundle publisher while it has something to publish.
- Consolidation, Guard, PreToolHook, Recall and Preflight: safety only.

## Assumptions

- `created_at` is taken and the row inserted in one step, the clock does not run
  backwards, and ids follow the order of commits. The code takes the time and a
  ULID just before the insertion; two processes in the same millisecond may
  commit in the other order, which reorders an outcome against one of the same
  moment only.
- Time does not pass between two statements without an await in between
  (milliseconds against leases of a minute).
- A preflight answers any decision of `Advice`; a tool succeeds or fails; vector
  similarity is arbitrary; in Injection the ranking of a session's queries is
  fixed, and a packet holds `Budget` entries rather than characters.
- Store: openings and re-embeddings of several processes overlap in any way. What one
  writes after another has dropped the tables it had read of is recorded
  (`misled`), and the properties of the passing run except what follows from it; the run
  StoreMark shows that it does happen. Without that exception TLC also refutes
  `IndexFitsTable` (with two rows, in 26 steps: tables of the old size or rows with old
  vectors get in). Rowids grow, as SQLite's do without AUTOINCREMENT while the highest
  row stays; a purge of the highest row makes its number free again, which the model has.
- Injection: the recall limit is at most its cap (`Base <= RecallCap`: 8 and 200 in the
  code).
- Recall: similarity, confidence and overlap are constants of the memories, a
  change of state does not move them; a search is one step (better-sqlite3 is
  synchronous). Preflight: capsule and sweep ask the same query.
- Install: a host's CLI changes only the entry it was asked to change; one scope. A call
  that fails has taken effect or not; a file that is written in place
  (`mcp-server/index.ts:965`, `989`) is written whole or not at all.
- Doctor: the machine does not change while it is examined.
- Release: an operator runs one script at a time; registries take a version once;
  the git remote refuses anything but a fast-forward that is not forced, and never
  moves a tag.
- Lifecycle: one instance per process, and a throw of `close` itself is left out.
- PreToolHook has one delivery of a result (HookOutcome has many), and
  AUDREY_HOOK_FAIL_CLOSED is off, its default.
- The host runs the context hooks of one session one after another, and tool
  hooks of one turn in parallel. Subagents, and AUDREY_PACKET_DELTA=0, are left
  out of Injection; recall never returns disputed or superseded memories
  (`stateClause`).

## Proofs

Checked by TLAPS for every value of the constants that satisfies the named
assumptions of the modules (`ParamsAssumption`, `HookAssumption`,
`PromptsAssumption`, `InjectionAssumption`, `ConsolidationAssumption`,
`StoreConstants`, `LifecycleConstants`, `RecallConstants`,
`PreflightConstants`, `InstallAssumption`, `DoctorAssumption`,
`ReleaseAssumption`): sets of any size (Consolidation's episodes: any finite set),
any window, lease, limit, budget and number of faults, kills and edits.

- **Guard_proofs**: `TypeCorrect`, `ExactBlockStands`,
  `RecoveryNeedsAcknowledgement`, `FailuresStayCleared`. None of these is inductive:
  that an outcome may not be a success over an exact block depends on what the
  process that inserts it saw several steps before. The invariant adds what the
  log is (`LogInv`: ids are distinct, below nextId and in the order of their
  times), what each process knows between its statements (`CallInv`: whose
  receipt it holds and that it was not stamped by anyone else), what an outcome
  row implies about its receipt (`ReceiptInv`), and what the decision stamped on
  a receipt says of the failures before it (`ClearInv`: of a receipt that is
  neither an exact repeat nor an acknowledged one, they are all cleared). Retention keeps
  these because it removes a prefix; that is where `PruneUnordered` breaks.
  Of PreToolHook, in the same module: `HookTypeCorrect`, `HookImplementsGuard`
  (every step of the composition is a step of Guard or a stutter), from which the invariants of
  Guard are inherited, `HookExactBlockStands` and `NoUseIsBlind`. The invariant of
  the composition (`CheckInv`) says what the locals of a hook know of the receipt
  they came from at each stage, above Guard's `ClearInv`. The refinement was also
  model-checked on the bounds of PreToolHook; it is left to the proof because it
  takes longer than all other properties of that run together.
- **HookOutcome_proofs**: `TypeCorrect`, `RecorderIsAlone`,
  `ReceiptHasOneOutcome`, `HookImplementsLedger`. The invariant: a delivery
  between claim and record holds a claim that has not expired, and one about to
  record for the receipt has seen that it has none. Time stands still
  in that stretch, so that the claim cannot expire under it.
- **Injection_proofs**: `TypeCorrect`, `LeftOutWasGiven`, `NothingIsRepeated`. The
  invariant relates, at each stage of a hook, its packet, what it read, the
  tracker, the window and the lost keys: a tracked key is in the window, in the
  packet of the running hook, or lost (`WithheldInv`); a key in the window or in
  the packet is tracked, read by the running hook, or given up (`OnceInv`). That what a
  packet leaves out was given also needs the capsule to have room for the rest: each
  excluded memory widens the limit by one and moves those behind it up by one, a lemma
  about ranks and cardinalities (`ExclusionMakesRoom`), so that a memory of the full
  packet is missing only if its id was tracked (`LeftOutIsTracked`).
- **Consolidation_proofs**: `TypeCorrect`, `SupportIsExact`, `NothingConsumedTwice`, for
  any number of runs and undoing processes. Support counts rest on one
  lemma about cardinalities: what is new adds its number to the evidence, which
  is why the code takes the union before it counts. That an episode is consumed
  once needs more: an episode that is not stored is marked by nobody
  (`UnbornIsUnused`), a run has no inputs before it commits (`NoInputYet`), and a
  marked episode is the input of exactly one completed run (`MarkedByOne`), all of
  this but for the episodes of a run that was rolled back on a stale read (`raced`);
  a rollback has read the run as it still is, or before its commit (`UndoKnown`).
- **Memory_proofs**: of Store `StoreInvariant`, `NeverSkipped`, `IndexInStep`, for any
  overlap of openings. What `migrateTable` has read stays all that is missing from the index
  until it writes the mark (`ScanCurrent`), unless the tables were dropped since:
  everybody else inserts row and index in one transaction, and only into tables of
  their own size. That there is no index without its table (`NoTableNoIndex`) and that
  what is copied was read from rows that exist (`CopyKnown`) is the rest.
  Of Recall and Preflight, for all memories, queries, options, limits and failing
  searches: `AnswersHideWhatTheyShould`, `AnswersAreFull`, `KeywordsComeFirst`,
  `RulesAreSeen`, `PreflightTypes`. Two lemmas carry them. `Accepted`: there is a set
  as `Accepts` says (cut at the first entry for which there is none); its
  consequence `GuardedKeeps`: what is left out is repeated by an entry, or the
  answer is full of entries that come before it. `PassIsFull`: a pass that takes at
  least as many candidates as a kind has rows misses none of them. The two passes
  of `Top` reach as far as `Reach` says because the second one takes the smaller of
  its cap and the largest partition searched (`LargestReached`), and the best keyword
  hit outweighs any vector because 7 * 100 > 3 * 100 (`WordsScoreHigher`). The
  invariant `CallInv`: while no memory changes and nothing fails, what a recall has shown and has yet
  to show are together what a search would find now. Hence a sweep that is answered
  has shown every rule that is not crowded out (`SweepShows`), of which the cut to
  the first few keeps one (`SweepTakesOne`); from the decision on nothing moves.
- **Lifecycle_proofs**: `LifecycleInvariant`, `TypeCorrect`, `PendingCorrect`,
  `DrainCorrect`, `WaitCorrect`, `NothingForgotten`. The invariant says what a call
  knows of its episodes at each await (`CallInv`), that each id has one task and an
  open store has forgotten none (`QueueInv`), and that what a drain waits for is
  pending or worked on until somebody closes the store (`DrainInv`).
- **Install_proofs**: `InstallInvariant`, `TypeCorrect`, `FailureIsUndone`,
  `RegistrationIsKept`, `DoneIsWhole`, `OthersEditsSurvive`, `ProvidersAgree`,
  `DoctorJudges`. A rollback restores what the command found only if the file
  still is what the command made of it: the invariant says, label by label, what
  the running install has changed so far and what is noted for its rollback
  (`UndoInv`), that nothing is removed before it is saved (`BackupInv`), that the
  hosts a run has left behind are finished and how far the present one is
  (`ProgressInv`), and which verb and host can be at a label at all (`LabelInv`).
  Edits of others are a step like any other in these proofs, so that they hold for
  every interleaving with them. `DoctorJudges` needs no more than the types: the
  doctor is right about anything the files can be; neither does `ProvidersAgree`, which
  goes through the providers an environment can name (`ValidAsNamed`). Its part on the failure log is an
  induction over the failures, made by hand with the least number of failures after
  which there were no such lines (`LogSteps`): the library's induction theorems
  cannot be used here, and the log is a recursive function for its sake.
- **Release_proofs**: `ReleaseInvariant`, `TypeCorrect`, `CommitsAreKept`,
  `BundledIsPublished`, `PackagesAreWhole`, `EverythingIsWhole`,
  `ReadyIsOnTheBranch`, `ReadyIsTrue`. Files are written one at a time and a cut may
  die in between, so that the invariant is about the order of the cut: no tree ever
  has a file of it without the ones before (`InOrder`), which is why the readiness
  check need not read the server's own version (`CoherentIsWhole`). Above that: the
  tree stays whole while finalize runs, every commit of ours is whole, a bundle and
  its report name a whole one (`CommitsInv`), and the packages are whole
  (`PackagesInv`); `ControlInv` keeps what a publisher has read at its start. What the
  *tag* names is whole only under the hypothesis `TagsWhatItCommits`: no run of
  finalize is asked to tag without also committing, as `--all` does. `--tag` alone
  tags whatever is at HEAD; with such a selection TLC finds a tag on an old tree,
  which is what the operator asked for. The theorems that need the hypothesis state
  it, and the other part of each is stated without it.

Each invariant was checked by TLC on the bounds of its run before it was proved.

## Findings

Two places where what the repository says of the program and what the program
does part are kept as runs:

- `autopilot.ts:905` (InjectionStanding): memories given to a session are excluded by
  id, so that one whose state changed is not given again, although `autopilot.ts:724`
  and `CHANGELOG.md:86` say that it "reinjects with its new standing";
- `db.ts:368` (StoreMark): of two overlapping openings, one writes the mark after the
  other has dropped the tables, so that rows below the mark are missing from the index
  and no later opening looks for them, only a re-embedding: the mark is then what
  `db.ts:303` calls a lie.

Observed in the models, and listed as hazards with a note:

- `controller.ts:669`: two processes reporting for one receipt both record, while
  CHANGELOG.md:270 says that a replay is prevented.
- `autopilot.ts:1342`: the existing outcome is looked up before the claim and not
  again after it, so that a second, loose outcome is recorded.
- `autopilot.ts:1119`: parallel tool uses share one acknowledgement of a retry.
- `forget.ts:87`: purging a superseded episode fails on the foreign key of the one
  that supersedes it (`db.ts:29`, foreign keys on at `db.ts:708`), and with it the whole
  purge, while `src/tests/forget.test.js:171` says that superseded memories are deleted.
- `rollback.ts:24`: a rollback by a second process that read the run before another
  rollback, or while it was running, leaves an episode open that another run has
  consumed, or memories of the run active; `ConsumedOnce` excepts the episodes of such a
  run (`raced`), and TLC refutes it without the exception.
- `preflight.ts:194`, `326`: probe and sweep ask for the tag `must-follow`, so that a rule
  tagged must, required, never, always or policy (`capsule.ts:105`) that is far from the
  action is not warned of.
- `config.ts:63`: a cloud embedding is accepted without its key; the doctor does not block
  such a machine, and each embedding throws (`embedding.ts:65`, `268`).
- `autopilot.ts:937`: memories of other projects use up the budget of every packet
  and are never excluded (`EventuallyInjected` excepts what they outrank).
- `consolidate.ts:347`: a run whose process dies stays `running`; `validate.ts:166`: a
  verdict overwrites the state a memory got while the model was asked;
  `autopilot.ts:856`: an acknowledgement of a newer prompt can be consumed.

## Only model-checked, or not modelled

Only model-checked: all liveness (TLAPS does neither ENABLED nor liveness under
fairness), that is `LastDeliveryRecords`, `ReplayLearns`, `EventuallyInjected`,
`EventuallySearchable`, `ClosesAnyway`, `EveryTaskEnds`, `PublicationCompletes` and
`EventuallyDone`. Every safety property of every passing run is a theorem, what is on
the tag in Release under the hypothesis named above (`TagsWhatItCommits`).

Not modelled, and why:

- the leases of runMaintenance: they keep runs apart that may overlap safely;
- resolveTruth: one call of an operator; procedures: the code of semantics with
  another table; forgetByQuery: a recall and then the modelled forget;
- schema migrations and the repair of the keyword index: run once, in order,
  under the same opening;
- redaction, prompts, project names, rule texts: strings without state;
- interference, resonance, confidence, feedback and impact: floating-point scores
  written in one synchronous stretch;
- import and export: one administrative transaction each;
- HTTP, MCP dispatch and the Python client: argument checks and forwarding;
- providers, except as awaits that return, throw or never answer, and except for
  which of them is selected (Doctor);
- what the release scripts ask of the paper, the browser launch and benchmark
  evidence, and the text of their reports; benchmarks.
