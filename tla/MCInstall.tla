------------------------------ MODULE MCInstall ------------------------------
(* Install with two hosts, from files that a command it is given can reach,  *)
(* and the doctor's report on what it leaves.                                *)
EXTENDS Doctor

\* Files the command neither reads nor writes start in one state only; a command for both
\* hosts finds Claude Code either new or with an earlier installation.
Untouched ==
  /\ \A h \in Hosts \ command.hosts : mcp[h] = Clean
  /\ \A h \in Hosts : ~command.hooks \/ h \notin command.hosts => hooks[h] = NoHooks
  /\ command.hosts = Hosts => /\ hooks[Claude].valid /\ (hooks[Claude].there => hooks[Claude].stale = 2)
                              /\ mcp[Claude].there => Registered(mcp[Claude])

\* A machine on which everything Audrey's handlers need is there.
WellMachine ==
  [node |-> TRUE, entrypoint |-> TRUE, embedding |-> "unset", llm |-> "auto", keys |-> {"openai"},
   store |-> "healthy", failures |-> <<>>, bind |-> "loopback", codexCli |-> TRUE,
   probeErrors |-> FALSE, runtimes |-> Versions, parsed |-> Versions, listed |-> Versions,
   enabled |-> Versions, trusted |-> Versions, probe |-> <<"initialized", "junk", "hooks", "exit">>]

\* Codex may have approved the handlers of one version only, an earlier runtime may be gone
\* or unknown, the answer may come too late, and the log may be full.
HookMachines ==
  {[WellMachine EXCEPT !.failures = [i \in 1..8 |-> "entry"]],
   [WellMachine EXCEPT !.runtimes = {"fresh"}], [WellMachine EXCEPT !.parsed = {"fresh"}],
   [WellMachine EXCEPT !.trusted = {"stale"}],
   [WellMachine EXCEPT !.probe = <<"initialized", "timeout", "hooks">>]}

\* Environments with and without the keys they need (gemini alone is not blocked, and
\* cannot embed), one with a log that was cut short.
In(embedding, llm, keys) ==
  [WellMachine EXCEPT !.embedding = embedding, !.llm = llm, !.keys = keys]
Environments ==
  {In("gemini", "anthropic", {}), In("gemini", "auto", {}), In("mock", "openai", {"gemini"}),
   In("other", "mock", {}), In("local", "other", {}),
   [In("gemini", "anthropic", {"gemini", "anthropic"}) EXCEPT
      !.failures = <<"torn", "torn", "torn", "entry", "torn", "entry", "entry">>]}

MCMachines == HookMachines \cup Environments

MCInit == Init /\ Untouched

MCSpec == MCInit /\ [][Next]_vars /\ WF_vars(Step) /\ WF_vars(Retry)
=============================================================================
