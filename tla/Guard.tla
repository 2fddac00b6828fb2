------------------------------- MODULE Guard -------------------------------
(***************************************************************************)
(* The Guard of controller.ts over the event log of events.ts.             *)
(*                                                                         *)
(* A client process asks beforeAction about an action, runs the action and *)
(* reports what happened with afterAction.  Every row of memory_events is  *)
(* in receipts (PreToolUse) or in outcomes (PostToolUse and                *)
(* PostToolUseFailure); ids are given in insertion order, so that          *)
(* eventOrder of the code (created_at, then the ULID) is the order of ids. *)
(* Every SQL statement is atomic and commits on its own; between two       *)
(* statements of one process any other process may run.                    *)
(***************************************************************************)
EXTENDS Integers

CONSTANTS Proc,      \* client processes that share one store
          Action,    \* exact action keys (guardActionKey)
          Advice,    \* preflight decisions that memory can give
          Window,    \* failureDecayDays; 0 means no window
          Retain,    \* eventRetentionDays
          MaxNow,    \* bound of the clock
          MaxRows    \* bound of the rows ever inserted

Decision == {"go", "caution", "block"}
Outcome == {"succeeded", "failed", "unknown"}

ASSUME ParamsAssumption ==
    /\ Advice \subseteq Decision
    /\ Window \in Nat /\ Retain \in Nat
    /\ MaxNow \in Nat /\ MaxRows \in Nat

VARIABLES now,        \* wall clock that stamps created_at
          nextId,     \* id the next row of memory_events gets
          receipts,   \* PreToolUse rows
          outcomes,   \* PostToolUse and PostToolUseFailure rows
          pc,         \* where each process is in its call
          call        \* arguments and locals of the call

vars == <<now, nextId, receipts, outcomes, pc, call>>

(* exact is exact_repeat_failure_block and ack is                          *)
(* prior_failure_acknowledged in the metadata that the check stamps.       *)
Receipt == [id : Nat, key : Action, at : Nat, guard : BOOLEAN,
            decision : Decision, exact : BOOLEAN, ack : BOOLEAN]

(* receipt is 0 in an outcome reported without a receipt.                  *)
Observed == [id : Nat, key : Action, at : Nat, outcome : Outcome, receipt : Nat]

Step == {"idle", "receipted", "judged", "checked"}
Call == [key : Action, ack : BOOLEAN, receipt : Nat, decision : Decision,
         exact : BOOLEAN, outcome : Outcome]

-----------------------------------------------------------------------------
(* exactActionHistory and exactActionState                                 *)

InWindow(o) == Window = 0 \/ o.at >= now - Window

History(a) == {o \in outcomes : o.key = a /\ o.outcome # "unknown" /\ InWindow(o)}

Successes(a) == {o \in History(a) : o.outcome = "succeeded"}

Failures(a) ==
    {o \in History(a) : o.outcome = "failed" /\ \A s \in Successes(a) : s.id < o.id}

Recovered(a) == Failures(a) = {} /\ \E o \in History(a) : o.outcome = "failed"

-----------------------------------------------------------------------------
(* A process between two calls; the key is that of its last one.           *)
NoCall(a) == [key |-> a, ack |-> FALSE, receipt |-> 0, decision |-> "go",
              exact |-> FALSE, outcome |-> "unknown"]

Init ==
    /\ now = 0
    /\ nextId = 1
    /\ receipts = {}
    /\ outcomes = {}
    /\ pc = [p \in Proc |-> "idle"]
    /\ \E a \in Action : call = [p \in Proc |-> NoCall(a)]

Goto(p, step) == pc' = [pc EXCEPT ![p] = step]

Return(p) ==
    /\ Goto(p, "idle")
    /\ call' = [call EXCEPT ![p] = NoCall(call[p].key)]

(* evaluate awaits buildPreflight, which reads nothing of the Guard before *)
(* the capsule answers: the answer is the preflight decision d.  It then   *)
(* inserts the receipt, which is not yet a guard receipt.                  *)
Before(p, a, ack, d) ==
    /\ pc[p] = "idle"
    /\ nextId <= MaxRows
    /\ receipts' = receipts \cup
         {[id |-> nextId, key |-> a, at |-> now, guard |-> FALSE,
           decision |-> d, exact |-> FALSE, ack |-> FALSE]}
    /\ nextId' = nextId + 1
    /\ call' = [call EXCEPT ![p] = [@ EXCEPT !.key = a, !.ack = ack,
                                             !.receipt = nextId, !.decision = d]]
    /\ Goto(p, "receipted")
    /\ UNCHANGED <<now, outcomes>>

DecisionsUnacknowledged(a, ack, d) ==
    IF Failures(a) # {} THEN IF d = "block" THEN {"block"} ELSE {"caution"}
    ELSE IF Recovered(a) /\ d = "caution" THEN {"caution", "go"}
    ELSE {d}

(* The decisions evaluate can reach from the preflight decision d.  A      *)
(* recovered failure drops its own warnings, which may turn caution to go. *)
Decisions(a, ack, d) ==
    IF Failures(a) # {} THEN IF ~ack \/ d = "block" THEN {"block"} ELSE {"caution"}
    ELSE IF Recovered(a) /\ d = "caution" THEN {"caution", "go"}
    ELSE {d}

(* evaluate reads the receipt and the history.  A receipt that retention   *)
(* removed meanwhile makes it throw.                                       *)
Judge(p, d) ==
    /\ pc[p] = "receipted"
    /\ \E r \in receipts : r.id = call[p].receipt
    /\ d \in Decisions(call[p].key, call[p].ack, call[p].decision)
    /\ LET failed == Failures(call[p].key) # {}
       IN  call' = [call EXCEPT ![p] = [@ EXCEPT !.decision = d,
                                                 !.exact = failed /\ ~call[p].ack,
                                                 !.ack = failed /\ call[p].ack]]
    /\ Goto(p, "judged")
    /\ UNCHANGED <<now, nextId, receipts, outcomes>>

Stamped(p, r) ==
    [r EXCEPT !.guard = TRUE, !.decision = call[p].decision,
              !.exact = call[p].exact, !.ack = call[p].ack]

(* evaluate updates the metadata of the receipt and returns the decision.  *)
Stamp(p) ==
    /\ pc[p] = "judged"
    /\ receipts' = {IF r.id = call[p].receipt THEN Stamped(p, r) ELSE r : r \in receipts}
    /\ Return(p)
    /\ UNCHANGED <<now, nextId, outcomes>>

-----------------------------------------------------------------------------
HasOutcome(r) == \E o \in outcomes : o.receipt = r.id

(* A success over a blocked receipt needs a reason, and nothing clears the *)
(* block of an exact repeat.                                               *)
MaySucceed(r, override) == r.decision = "block" => ~r.exact /\ override

Accept(p, r, o) ==
    /\ pc[p] = "idle"
    /\ call' = [call EXCEPT ![p] = [@ EXCEPT !.key = r.key, !.receipt = r.id,
                                             !.outcome = o]]
    /\ Goto(p, "checked")
    /\ UNCHANGED <<now, nextId, receipts, outcomes>>

AfterUnstamped(p, r, o, override) ==
    /\ ~HasOutcome(r)
    /\ o = "succeeded" => MaySucceed(r, override)
    /\ Accept(p, r, o)

(* afterAction checks the receipt; a call it rejects changes nothing.      *)
After(p, r, o, override) ==
    /\ r.guard
    /\ ~HasOutcome(r)
    /\ o = "succeeded" => MaySucceed(r, override)
    /\ Accept(p, r, o)

Insert(a, o, receipt) ==
    /\ nextId <= MaxRows
    /\ outcomes' = outcomes \cup
         {[id |-> nextId, key |-> a, at |-> now, outcome |-> o, receipt |-> receipt]}
    /\ nextId' = nextId + 1
    /\ UNCHANGED <<now, receipts>>

(* afterAction inserts the outcome under the action key of the receipt.    *)
Record(p) ==
    /\ pc[p] = "checked"
    /\ Insert(call[p].key, call[p].outcome, call[p].receipt)
    /\ Return(p)

(* MemoryController.afterAction: an outcome without a receipt.  No query   *)
(* looks at such a row when its outcome is unknown.                        *)
Observe(p, a, o) ==
    /\ pc[p] = "idle"
    /\ o # "unknown"
    /\ Insert(a, o, 0)
    /\ UNCHANGED <<pc, call>>

(* The host kills a process, or its call throws.                           *)
Crash(p) ==
    /\ pc[p] # "idle"
    /\ Return(p)
    /\ UNCHANGED <<now, nextId, receipts, outcomes>>

(* updateReceiptCorrelation of the hook that asked: a decision that rests  *)
(* on memories of other projects only is relaxed in the receipt.           *)
Rescope(r) ==
    /\ r.guard /\ ~r.exact /\ ~r.ack
    /\ receipts' = (receipts \ {r}) \cup {[r EXCEPT !.decision = "go"]}
    /\ UNCHANGED <<now, nextId, outcomes, pc, call>>

-----------------------------------------------------------------------------
Tick ==
    /\ now < MaxNow
    /\ now' = now + 1
    /\ UNCHANGED <<nextId, receipts, outcomes, pc, call>>

Expired(row) == row.at < now - Retain

PruneUnordered(n) ==
    /\ \E row \in receipts \cup outcomes : row.id = n /\ Expired(row)
    /\ receipts' = {r \in receipts : r.id # n}
    /\ outcomes' = {o \in outcomes : o.id # n}
    /\ UNCHANGED <<now, nextId, pc, call>>

(* One batch of deleteEventsBefore, with the cutoff of this moment or an   *)
(* older one: the index on created_at hands out the oldest rows first, so  *)
(* that a batch takes a prefix of the log, all of it expired.              *)
Prune(n) ==
    /\ \E row \in receipts \cup outcomes : row.id <= n
    /\ \A row \in receipts \cup outcomes : row.id <= n => Expired(row)
    /\ receipts' = {r \in receipts : r.id > n}
    /\ outcomes' = {o \in outcomes : o.id > n}
    /\ UNCHANGED <<now, nextId, pc, call>>

-----------------------------------------------------------------------------
Next ==
    \/ \E p \in Proc :
         \/ \E a \in Action, ack \in BOOLEAN, d \in Advice : Before(p, a, ack, d)
         \/ \E d \in Decision : Judge(p, d)
         \/ Stamp(p)
         \/ \E r \in receipts, o \in Outcome, override \in BOOLEAN : After(p, r, o, override)
         \/ Record(p)
         \/ \E a \in Action, o \in Outcome : Observe(p, a, o)
         \/ Crash(p)
    \/ \E r \in receipts : Rescope(r)
    \/ Tick
    \/ \E n \in 1..MaxRows : Prune(n)

Spec == Init /\ [][Next]_vars

-----------------------------------------------------------------------------
TypeOK ==
    /\ now \in Nat
    /\ nextId \in Nat \ {0}
    /\ receipts \subseteq Receipt
    /\ outcomes \subseteq Observed
    /\ pc \in [Proc -> Step]
    /\ call \in [Proc -> Call]

(* Every failure of the action with an id below n is out of the window or  *)
(* has been cleared by a success.                                          *)
Cleared(a, n) ==
    \A f \in outcomes : f.key = a /\ f.outcome = "failed" /\ f.id < n =>
        \/ Window # 0 /\ f.at < now - Window
        \/ \E g \in outcomes : g.key = a /\ g.outcome = "succeeded" /\ f.id < g.id

(* afterAction never lets a success be recorded for a receipt that an      *)
(* exact repeat blocked, whatever check or report of another process runs  *)
(* between the statements of the two calls ("overrideReason cannot clear   *)
(* this", controller.ts).                                                  *)
NoSuccessOverExactBlock ==
    \A o \in outcomes, r \in receipts :
        o.receipt = r.id /\ o.outcome = "succeeded" => ~r.exact

(* A receipted success clears a failure that was in the log before its     *)
(* receipt only if the check acknowledged the failure, or another success  *)
(* of the action came between: no schedule of checks, reports, crashes and *)
(* retention lets an unacknowledged repeat of a failed action through.     *)
RecoveryIsAcknowledged ==
    \A s, f \in outcomes, r \in receipts :
        /\ s.receipt = r.id /\ s.outcome = "succeeded"
        /\ f.key = s.key /\ f.outcome = "failed" /\ f.id < r.id
        /\ Window = 0 \/ f.at >= s.at - Window
        => \/ r.ack
           \/ \E g \in outcomes : /\ g.key = s.key /\ g.outcome = "succeeded"
                                  /\ f.id < g.id /\ g.id < s.id

(* Only the report of a failure makes an action one that Guard blocks:     *)
(* neither the passing of the window nor a batch of retention, which       *)
(* another process may see half done, brings a cleared failure back.       *)
OnlyFailureBlocks ==
    [][\A a \in Action :
          Failures(a) = {} /\ Failures(a)' # {} =>
              \E f \in outcomes' \ outcomes : f.key = a /\ f.outcome = "failed"]_vars

=============================================================================
