---------------------------- MODULE PreToolHook ----------------------------
(***************************************************************************)
(* Tool uses of one session under Autopilot: the pre-tool hook of          *)
(* autopilot.ts (guardBeforeHook) with the user's acknowledgement of a     *)
(* retry, composed with the Guard whose receipts it asks for and the       *)
(* post-tool hook that reports on them.                                    *)
(*                                                                         *)
(* Every tool use has a hook process before it and one after it.  The host *)
(* runs the uses of one turn in parallel, one in each member of Proc, and  *)
(* takes the next one when it is over.  A pre-tool hook that is killed or  *)
(* throws does not stop its tool.  Deliveries of one result that race are  *)
(* the subject of HookOutcome.                                             *)
(***************************************************************************)
EXTENDS Guard

CONSTANTS MaxPrompts   \* bound of the prompts

ASSUME PromptsAssumption == MaxPrompts \in Nat

VARIABLES use,      \* the tool uses
          intent,   \* the retry intent row: the prompt that stored it or 0
          prompts   \* prompts given

hookVars == <<use, intent, prompts>>
allVars == <<vars, hookVars>>

Stage == {"new", "asking", "checking", "stamped", "consumed", "correlated",
          "allowed", "denied", "open", "ran", "reporting", "over"}

(* token: the prompt whose acknowledgement the hook read; ack, retry,      *)
(* exact, decision, receipt: locals of the hook, the last four answered by *)
(* the Guard; linked: the receipt has the id of the tool use; passed: the  *)
(* hook let the tool run.                                                  *)
Use == [stage : Stage, key : Action, token : Nat, ack : BOOLEAN, retry : BOOLEAN,
        exact : BOOLEAN, decision : Decision, receipt : Nat, linked : BOOLEAN,
        passed : BOOLEAN, result : Outcome]

NewUse(a) == [stage |-> "new", key |-> a, token |-> 0, ack |-> FALSE, retry |-> FALSE,
              exact |-> FALSE, decision |-> "go", receipt |-> 0, linked |-> FALSE,
              passed |-> FALSE, result |-> "unknown"]

HookInit ==
    /\ Init
    /\ \E a \in Action : use = [u \in Proc |-> NewUse(a)]
    /\ intent = 0
    /\ prompts = 0

-----------------------------------------------------------------------------
(* updateRetryIntent: a prompt that asks for a retry stores the intent,    *)
(* any other one deletes it.                                               *)
Prompt(yes) ==
    /\ prompts < MaxPrompts
    /\ prompts' = prompts + 1
    /\ intent' = IF yes THEN prompts + 1 ELSE 0
    /\ UNCHANGED <<vars, use>>

(* hasRetryIntent: the payload acknowledges the failure itself, or the     *)
(* intent is there; one that is stale or of another turn is deleted.       *)
ReadIntent(u, a, direct, stale) ==
    /\ use[u].stage = "new"
    /\ stale => ~direct /\ intent # 0
    /\ LET token == IF direct \/ stale THEN 0 ELSE intent
       IN  use' = [use EXCEPT ![u] =
             [@ EXCEPT !.stage = "asking", !.key = a, !.token = token,
                       !.ack = direct \/ token # 0]]
    /\ intent' = IF stale THEN 0 ELSE intent
    /\ UNCHANGED <<vars, prompts>>

(* beforeAction                                                            *)
AskGuard(u, d) ==
    /\ use[u].stage = "asking"
    /\ Before(u, use[u].key, use[u].ack, d)
    /\ use' = [use EXCEPT ![u].stage = "checking"]
    /\ UNCHANGED <<intent, prompts>>

GuardJudges(u, d) ==
    /\ use[u].stage = "checking"
    /\ Judge(u, d)
    /\ UNCHANGED hookVars

GuardAnswers(u) ==
    /\ use[u].stage = "checking"
    /\ Stamp(u)
    /\ use' = [use EXCEPT ![u] =
         [@ EXCEPT !.stage = "stamped", !.receipt = call[u].receipt,
                   !.decision = call[u].decision, !.exact = call[u].exact,
                   !.retry = call[u].ack]]
    /\ UNCHANGED <<intent, prompts>>

(* consumeRetryIntent deletes the intent that is there by now.             *)
Consume(u) ==
    /\ use[u].stage = "stamped"
    /\ intent' = IF use[u].retry THEN 0 ELSE intent
    /\ use' = [use EXCEPT ![u].stage = "consumed"]
    /\ UNCHANGED <<vars, prompts>>

CorrelateExact(u, relax) ==
    /\ use[u].stage = "consumed"
    /\ IF relax
       THEN \E r \in receipts : r.id = use[u].receipt /\ Rescope(r)
       ELSE UNCHANGED vars
    /\ use' = [use EXCEPT ![u] =
         [@ EXCEPT !.stage = "correlated", !.linked = TRUE,
                   !.decision = IF relax \/ use[u].exact THEN "go" ELSE use[u].decision]]
    /\ UNCHANGED <<intent, prompts>>

(* projectScopedGuardResult relaxes a decision that rests on memories of   *)
(* other projects only, never one about a failure of this action; then     *)
(* updateReceiptCorrelation writes the tool use and the decision.  The     *)
(* outcome 'blocked' it writes into the receipt is read by nobody.         *)
Correlate(u, relax) ==
    /\ use[u].stage = "consumed"
    /\ relax => ~use[u].exact /\ ~use[u].retry
    /\ IF relax
       THEN \E r \in receipts : r.id = use[u].receipt /\ Rescope(r)
       ELSE UNCHANGED vars
    /\ use' = [use EXCEPT ![u] =
         [@ EXCEPT !.stage = "correlated", !.linked = TRUE,
                   !.decision = IF relax THEN "go" ELSE use[u].decision]]
    /\ UNCHANGED <<intent, prompts>>

(* The answer of the hook reaches the host, and the locals are gone.       *)
Answer(u) ==
    /\ use[u].stage = "correlated"
    /\ LET passed == use[u].decision # "block"
       IN  use' = [use EXCEPT ![u] =
             [NewUse(use[u].key) EXCEPT
                !.stage = IF passed THEN "allowed" ELSE "denied", !.passed = passed,
                !.token = use[u].token, !.retry = use[u].retry,
                !.receipt = use[u].receipt, !.linked = TRUE]]
    /\ UNCHANGED <<vars, intent, prompts>>

(* The pre-tool hook is killed or throws, and the tool runs unchecked.     *)
FailOpen(u) ==
    /\ use[u].stage \in {"new", "asking", "checking", "stamped", "consumed", "correlated"}
    /\ use' = [use EXCEPT ![u] =
         [NewUse(use[u].key) EXCEPT !.stage = "open", !.receipt = use[u].receipt,
                                    !.linked = use[u].linked]]
    /\ IF pc[u] = "idle" THEN UNCHANGED vars ELSE Crash(u)
    /\ UNCHANGED <<intent, prompts>>

-----------------------------------------------------------------------------
RunTool(u, o) ==
    /\ use[u].stage \in {"allowed", "open"}
    /\ use' = [use EXCEPT ![u] = [@ EXCEPT !.stage = "ran", !.result = o]]
    /\ UNCHANGED <<vars, intent, prompts>>

(* correlatedReceipt                                                       *)
OwnReceipt(u) ==
    {r \in receipts : use[u].linked /\ r.id = use[u].receipt /\ ~HasOutcome(r)}

Over(u) == use' = [use EXCEPT ![u] = [@ EXCEPT !.stage = "over", !.result = "unknown"]]

(* The post-tool hook reports the result for the receipt of the use.       *)
Report(u) ==
    /\ use[u].stage = "ran"
    /\ \E r \in OwnReceipt(u) : After(u, r, use[u].result, FALSE)
    /\ use' = [use EXCEPT ![u].stage = "reporting"]
    /\ UNCHANGED <<intent, prompts>>

RecordReport(u) ==
    /\ use[u].stage = "reporting"
    /\ Record(u)
    /\ Over(u)
    /\ UNCHANGED <<intent, prompts>>

ReportLoose(u) ==
    /\ use[u].stage = "ran"
    /\ OwnReceipt(u) = {}
    /\ Observe(u, use[u].key, use[u].result)
    /\ Over(u)
    /\ UNCHANGED <<intent, prompts>>

(* The post-tool hook is killed, or afterAction refuses the report.        *)
LoseReport(u) ==
    /\ use[u].stage \in {"ran", "reporting"}
    /\ Over(u)
    /\ IF pc[u] = "idle" THEN UNCHANGED vars ELSE Crash(u)
    /\ UNCHANGED <<intent, prompts>>

(* The next tool use.                                                      *)
NextUse(u) ==
    /\ use[u].stage \in {"denied", "over"}
    /\ use' = [use EXCEPT ![u] = NewUse(use[u].key)]
    /\ UNCHANGED <<vars, intent, prompts>>

Housekeep ==
    /\ Tick \/ \E n \in 1..MaxRows : Prune(n)
    /\ UNCHANGED hookVars

-----------------------------------------------------------------------------
HookNext ==
    \/ \E yes \in BOOLEAN : Prompt(yes)
    \/ \E u \in Proc :
         \/ \E a \in Action, direct, stale \in BOOLEAN : ReadIntent(u, a, direct, stale)
         \/ \E d \in Advice : AskGuard(u, d)
         \/ \E d \in Decision : GuardJudges(u, d)
         \/ GuardAnswers(u)
         \/ Consume(u)
         \/ \E relax \in BOOLEAN : Correlate(u, relax)
         \/ Answer(u) \/ FailOpen(u)
         \/ \E o \in {"succeeded", "failed"} : RunTool(u, o)
         \/ Report(u) \/ RecordReport(u) \/ ReportLoose(u) \/ LoseReport(u)
         \/ NextUse(u)
    \/ Housekeep

HookSpec == HookInit /\ [][HookNext]_allVars

-----------------------------------------------------------------------------
HookTypeOK ==
    /\ TypeOK
    /\ use \in [Proc -> Use]
    /\ intent \in Nat
    /\ prompts \in Nat

(* A tool that its hook let pass without an acknowledged retry has no      *)
(* failure in the log from before its check that nothing has cleared,      *)
(* however the checks, reports, prompts and tools of parallel uses         *)
(* interleave, and whichever of the hooks are killed.                      *)
NoBlindRetry ==
    \A u \in Proc :
        use[u].passed /\ ~use[u].retry => Cleared(use[u].key, use[u].receipt)

(* Every step of the composition is a step of the Guard or leaves its      *)
(* state alone, so that what Guard guarantees holds of the tool uses.      *)
GuardSpec == Spec

=============================================================================
