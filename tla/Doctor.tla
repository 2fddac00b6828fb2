------------------------------- MODULE Doctor -------------------------------
(***************************************************************************)
(* `audrey doctor` on what Install's commands leave: the checks of one     *)
(* report as a set of records, from the hosts' hook settings and from what *)
(* the machine answers (a Machine): the runtime, the store, the Codex CLI, *)
(* and the app-server that is asked which hooks it runs.  The names and    *)
(* messages of the checks are abstracted to what they are about.           *)
(***************************************************************************)
EXTENDS Install, Sequences, SequencesExt

CONSTANTS
  Machines,      \* the machines that are considered
  MaxLogLines    \* HOOK_FAILURE_LOG_MAX_BYTES, in lines

Versions == {"stale", "fresh"}

EmbeddingProviders == {"mock", "local", "gemini", "openai"}
LlmProviders == {"mock", "anthropic", "openai"}
CloudProviders == {"gemini", "openai", "anthropic"}
Unset == {"unset", "auto"}

\* What the app-server's stdout, exit and the timer bring, in order: lines that are no
\* answer, the answer to `initialize` (id 0), the answer or the error to hooks/list (id 1).
ProbeEvents == {"junk", "initialized", "hooks", "refusal", "exit", "error", "timeout"}

\* embedding, llm and keys are the environment: AUDREY_EMBEDDING_PROVIDER,
\* AUDREY_LLM_PROVIDER and the API keys.  failures are the failures that hooks logged so
\* far, written whole or, on a disk that is full, cut short of their newline.
Machine ==
  [node: BOOLEAN, entrypoint: BOOLEAN, store: {"absent", "unreadable", "unsynced", "healthy"},
   embedding: EmbeddingProviders \cup Unset \cup {"other"},
   llm: LlmProviders \cup Unset \cup {"other"}, keys: SUBSET CloudProviders,
   failures: Seq({"entry", "torn"}), bind: {"loopback", "authenticated", "open", "refused"},
   runtimes: SUBSET Versions,    \* whose node and entrypoint paths exist
   parsed: SUBSET Versions,      \* whose command line yields its paths
   codexCli: BOOLEAN,
   probe: Seq(ProbeEvents),
   listed: SUBSET Versions, enabled: SUBSET Versions, trusted: SUBSET Versions,
   probeErrors: BOOLEAN]

ASSUME DoctorAssumption == Machines \subseteq Machine /\ MaxLogLines \in Nat \ {0}

Check(about, ok, severity) == [about |-> about, ok |-> ok, severity |-> severity]
Required(about, ok) == Check(about, ok, IF ok THEN "info" ELSE "error")
Info(about) == Check(about, TRUE, "info")
-----------------------------------------------------------------------------
(* The providers an environment selects, for the doctor and for what install *)
(* writes into the hosts' files.                                             *)

\* A cloud provider is never taken because its key is there.
ResolveEmbedding(explicit) ==
  CASE explicit \in Unset -> "local"
    [] explicit \in EmbeddingProviders -> explicit
    [] OTHER -> "invalid"

ResolveLlm(explicit, keys, requireApiKey) ==
  CASE explicit \in Unset -> "none"
    [] explicit \in LlmProviders ->
         IF explicit \in CloudProviders \ keys /\ requireApiKey THEN "invalid" ELSE explicit
    [] OTHER -> "invalid"

\* Mutant: reports a provider whose key is missing as well.
DescribedKeyless(d) == [embedding |-> ResolveEmbedding(d.embedding),
                        llm |-> ResolveLlm(d.llm, d.keys, FALSE)]

Described(d) == [embedding |-> ResolveEmbedding(d.embedding),
                 llm |-> ResolveLlm(d.llm, d.keys, TRUE)]

Valid(providers) == providers.embedding # "invalid" /\ providers.llm # "invalid"

\* buildAudreyMcpEnv: what is written for the server and as arguments of the hooks.
WrittenEnv(d, includeSecrets) ==
  [embedding |-> ResolveEmbedding(d.embedding),
   llm |-> LET llm == ResolveLlm(d.llm, {}, FALSE) IN IF llm = "none" THEN "unset" ELSE llm,
   keys |-> IF includeSecrets THEN d.keys \cap {d.embedding, d.llm} ELSE {}]

\* The environment of a host's own: the user's settings reach it or do not, and it has
\* any of the API keys.
HostEnvs(d) ==
  {[embedding |-> IF reach THEN d.embedding ELSE "unset", llm |-> IF reach THEN d.llm ELSE "unset",
    keys |-> keys] : reach \in BOOLEAN, keys \in SUBSET CloudProviders}

\* A provider that cannot be resolved is thrown for: the server or the hook does not run.
Thrown == [embedding |-> "invalid", llm |-> "invalid"]
OrThrown(providers) == IF Valid(providers) THEN providers ELSE Thrown

\* buildAudreyConfig in a server that a host starts with the written environment on top of
\* its own.
ServerKeys(d, includeSecrets, env) == WrittenEnv(d, includeSecrets).keys \cup env.keys

ServerProviders(d, includeSecrets, env) ==
  LET written == WrittenEnv(d, includeSecrets)
      llm == IF written.llm = "unset" THEN env.llm ELSE written.llm
  IN OrThrown([embedding |-> ResolveEmbedding(written.embedding),
               llm |-> ResolveLlm(llm, ServerKeys(d, includeSecrets, env), TRUE)])

\* autopilotHookCli: a hook takes the host's environment first, which must be valid, and
\* then its arguments; it has no keys but the host's.
HookProviders(d, env) ==
  LET own == [embedding |-> ResolveEmbedding(env.embedding),
              llm |-> ResolveLlm(env.llm, env.keys, TRUE)]
      args == WrittenEnv(d, FALSE)
  IN IF ~Valid(own) THEN Thrown
     ELSE OrThrown([embedding |-> ResolveEmbedding(args.embedding),
                    llm |-> IF args.llm = "unset" THEN own.llm
                            ELSE ResolveLlm(args.llm, env.keys, TRUE)])

\* The language model has its key, and an embedding call would not throw for want of one:
\* no embedding provider is refused when it is resolved (requireApiKey, embedding.ts).
LlmKeyed(providers, keys) == providers.llm \in CloudProviders => providers.llm \in keys
Embeds(providers, keys) == providers.embedding \in CloudProviders => providers.embedding \in keys
-----------------------------------------------------------------------------
(* inspectHostHookDiagnostics *)

CountOf(h, version) == IF version = "stale" THEN hooks[h].stale ELSE hooks[h].fresh
Installed(h) == {v \in Versions : hooks[h].valid /\ CountOf(h, v) > 0}
Count(h, versions) ==
  (IF "stale" \in versions THEN hooks[h].stale ELSE 0)
    + (IF "fresh" \in versions THEN hooks[h].fresh ELSE 0)

Unparseable(h, d) == Installed(h) \ d.parsed
Runtimes(h, d) == Installed(h) \cap d.parsed
RuntimeUsable(h, d) ==
  /\ Unparseable(h, d) = {} /\ Runtimes(h, d) # {}
  /\ Runtimes(h, d) \subseteq d.runtimes

\* A stale entrypoint is of another package version: a warning, and no error.
VersionSkew(h, d) == {Check("skew", FALSE, "warning") : v \in Runtimes(h, d) \cap {"stale"}}

RuntimeChecks(h, d) ==
  CASE ~hooks[h].valid -> {Required("config", FALSE)}
    [] hooks[h].valid /\ Unparseable(h, d) # {} -> {Required("runtime", FALSE)}
    [] hooks[h].valid /\ Installed(h) = {} -> {Info("runtime")}
    [] OTHER -> {Required("runtime", RuntimeUsable(h, d))}
                  \cup IF RuntimeUsable(h, d) THEN VersionSkew(h, d) ELSE {}
-----------------------------------------------------------------------------
(* The Codex feature flag and the probe of the app-server. *)

HasRuntimes(d) == hooks[Codex].valid /\ Unparseable(Codex, d) = {} /\ Runtimes(Codex, d) # {}

FeatureOn(d) == HasRuntimes(d) /\ d.codexCli /\ mcp[Codex].feature

FeatureChecks(d) ==
  IF HasRuntimes(d) THEN {Required("feature", d.codexCli /\ mcp[Codex].feature)} ELSE {}

\* probeCodexHooks: the first event that settles the promise is its outcome.
Settling == ProbeEvents \ {"junk", "initialized"}
Outcome(events) == LET settling == SelectSeq(events, LAMBDA e : e \in Settling)
                   IN IF settling = <<>> THEN "timeout" ELSE Head(settling)

\* codexHooksProbeRunner: without the CLI there is nobody to ask.
ProbeAnswers(d) == d.codexCli /\ Outcome(d.probe) = "hooks"

Reported(d) == Installed(Codex) \cap d.listed

\* Mutant: takes a handler that is listed and enabled for one that runs.
TrustIssuesListed(d) ==
  \/ Reported(d) = {}
  \/ Count(Codex, Reported(d)) # Count(Codex, Installed(Codex))
  \/ ~(Reported(d) \subseteq d.enabled)
  \/ d.probeErrors

TrustIssues(d) ==
  \/ Reported(d) = {}
  \/ Count(Codex, Reported(d)) # Count(Codex, Installed(Codex))
  \/ ~(Reported(d) \subseteq d.enabled)
  \/ ~(Reported(d) \subseteq d.trusted)
  \/ d.probeErrors

TrustChecks(d) ==
  IF ~(FeatureOn(d) /\ RuntimeUsable(Codex, d)) THEN {}
  ELSE {Required("trust", ProbeAnswers(d) /\ ~TrustIssues(d))}
-----------------------------------------------------------------------------
(* The log of hook failures, which is kept outside the store. *)

\* appendHookFailureLog: a line that would not fit starts a new file; an entry after one
\* that was cut short ends up on the same line.
LogFailure(lines, entry) ==
  LET kept == IF Len(lines) >= MaxLogLines THEN <<>> ELSE lines
  IN IF kept # <<>> /\ Last(kept) = "torn"
       THEN Append(Front(kept), IF entry = "torn" THEN "torn" ELSE "garbled")
       ELSE Append(kept, entry)

\* The file after each failure.
FailureLogs(failures) ==
  LET log[n \in 0..Len(failures)] ==
        IF n = 0 THEN <<>> ELSE LogFailure(log[n - 1], failures[n])
  IN log

\* readRecentHookFailures: which of the last five lines can be parsed.
RecentHookFailures(d) ==
  LET lines == FailureLogs(d.failures)[Len(d.failures)]
      first == IF Len(lines) > 5 THEN Len(lines) - 4 ELSE 1
  IN {i \in first..Len(lines) : lines[i] = "entry"}
-----------------------------------------------------------------------------
(* The rest of buildDoctorReport. *)

\* buildStatusReport; `registered` is not checked.
Status(d) == [registered |-> Registered(mcp[Claude]), exists |-> d.store # "absent",
              error |-> d.store = "unreadable", healthy |-> d.store = "healthy"]

StoreChecks(d) ==
  LET status == Status(d)
  IN {Required("store", status.exists => ~status.error /\ status.healthy)}

ProviderChecks(d) ==
  LET providers == Described(d)
  IN {Required("embedding", providers.embedding # "invalid"),
      Required("llm", providers.llm # "invalid")}
       \cup IF providers.embedding \in CloudProviders THEN {Check("privacy", TRUE, "warning")} ELSE {}

HostConfigChecks(d) == {Required("host config", Valid(WrittenEnv(d, FALSE)))}

BindChecks(d) ==
  CASE d.bind = "refused" -> {Required("bind", FALSE)}
    [] d.bind = "open" -> {Check("bind", FALSE, "warning")}
    [] OTHER -> {Info("bind")}

FailureLogChecks(d) ==
  {IF RecentHookFailures(d) = {} THEN Info("failure log")
   ELSE Check("failure log", FALSE, "warning")}

Checks(d) ==
  {Required("node", d.node), Required("entrypoint", d.entrypoint)}
    \cup ProviderChecks(d) \cup StoreChecks(d) \cup HostConfigChecks(d)
    \cup RuntimeChecks(Codex, d) \cup FeatureChecks(d) \cup TrustChecks(d)
    \cup RuntimeChecks(Claude, d) \cup FailureLogChecks(d) \cup BindChecks(d)

Blocked(checks) == \E c \in checks : ~c.ok /\ c.severity = "error"
Verdict(d) ==
  LET checks == Checks(d)
  IN IF Blocked(checks) THEN "blocked"
     ELSE IF \E c \in checks : ~c.ok /\ c.severity = "warning" THEN "unknown" ELSE "ready"
-----------------------------------------------------------------------------
\* What the settings of a host would have it do.
RunsHandlers(h, d) ==
  /\ hooks[h].valid
  /\ Installed(h) \subseteq d.parsed \cap d.runtimes
  /\ h = Codex /\ Installed(h) # {} =>
       /\ d.codexCli /\ mcp[h].feature
       /\ Installed(h) \subseteq d.listed \cap d.enabled \cap d.trusted

Answers(d) == ProbeAnswers(d) /\ ~d.probeErrors

\* Nothing but the hooks would block.
Sound(d) == /\ d.node /\ d.entrypoint /\ Valid(Described(d))
            /\ d.store \in {"absent", "healthy"} /\ d.bind # "refused"

\* The last two failures were logged in full.
FailedTwice(d) ==
  LET n == Len(d.failures) IN n >= 2 /\ d.failures[n] = "entry" /\ d.failures[n - 1] = "entry"

\* The verdict names hooks that would not run, and only those; failures are told of.
BlocksWhatWouldNotRun(d) == (\A h \in Hosts : RunsHandlers(h, d)) \/ Verdict(d) = "blocked"
BlocksNothingThatRuns(d) ==
  (Sound(d) /\ Answers(d) /\ \A h \in Hosts : RunsHandlers(h, d)) => Verdict(d) # "blocked"
TellsOfFailures(d) == FailedTwice(d) => Verdict(d) # "ready"

\* After a command ended or was killed: the doctor does not let pass a host whose
\* handlers would not all run - disabled feature, runtime that is gone, handlers without
\* approval or missing from Codex's own list, settings that cannot be read - and, when
\* the app-server answers in time, blocks no machine on which they do (buildDoctorReport).
\* Hooks that failed twice in a row are not reported ready, although one entry may be
\* lost to an earlier one that was cut short (appendHookFailureLog).
DoctorIsRight ==
  pc \in {"done", "dead"} =>
    \A d \in Machines :
      BlocksWhatWouldNotRun(d) /\ BlocksNothingThatRuns(d) /\ TellsOfFailures(d)

\* What servers and hooks of a host make of the environment that the doctor sees: the
\* providers it names, or none, for want of the language model's key alone; and the keys
\* that were written for a server are all it needs.
AsNamed(d) ==
  LET named == Described(d)
  IN \A env \in HostEnvs(d) :
       /\ HookProviders(d, env) \in {named, Thrown}
       /\ LlmKeyed(named, env.keys) => HookProviders(d, env) = named
       /\ \A includeSecrets \in BOOLEAN :
            /\ ServerProviders(d, includeSecrets, env) \in {named, Thrown}
            /\ LlmKeyed(named, env.keys) \/ includeSecrets =>
                 ServerProviders(d, includeSecrets, env) = named
            /\ includeSecrets /\ Embeds(named, d.keys) =>
                 Embeds(named, ServerKeys(d, includeSecrets, env))

MachinesAsNamed == {d \in Machines : AsNamed(d)}

\* On a machine that is not blocked, a server or hook runs with the providers the doctor
\* names or, for want of a key, not at all, whatever environment its host gives it: never
\* with another embedding or language model.  It does run where the language model has its
\* key, and a server to whose host the keys were written needs none of its own, for
\* embedding either if the doctor's environment has the key.  That a cloud embedding has
\* its key is not said: the doctor passes a machine without, and each embedding throws.
ProvidersAreUsed ==
  pc \in {"done", "dead"} => \A d \in Machines \ MachinesAsNamed : Verdict(d) = "blocked"
=============================================================================
