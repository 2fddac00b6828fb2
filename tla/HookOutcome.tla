----------------------------- MODULE HookOutcome -----------------------------
(***************************************************************************)
(* The post-tool hook of autopilot.ts (guardAfterHook) for one tool use.   *)
(*                                                                         *)
(* The host runs a hook process for every delivery of the result, and may  *)
(* deliver it more than once.  The processes share nothing but the store:  *)
(* the outcome rows of the tool use, the claim in audrey_config and the    *)
(* failure memories.  A process can be killed between any two statements.  *)
(***************************************************************************)
EXTENDS Integers

CONSTANTS Hook,      \* deliveries of the result, each a process of its own
          Lease,     \* OUTCOME_CLAIM_LEASE_MS
          MaxNow,    \* bound of the clock
          Nobody     \* holder of a claim that is not there

ASSUME HookAssumption ==
    /\ Lease \in Nat \ {0} /\ MaxNow \in Nat
    /\ Nobody \notin Hook

VARIABLES use,      \* the tool use
          now,      \* wall clock
          linked,   \* outcome rows with the receipt_id
          loose,    \* outcome rows without a receipt
          latest,   \* the newest of them
          claim,    \* the claim row: its holder and when it expires
          learned,  \* failure memories with the autopilotReceiptId
          extra,    \* failure memories of outcomes without a receipt
          pc        \* where each delivery is

vars == <<use, now, linked, loose, latest, claim, learned, extra, pc>>

NoClaim == [holder |-> Nobody, expires |-> 0]

(* failed: it failed and said why; receipt: its check left a receipt;      *)
(* barred: it succeeded over a block, which afterAction does not accept.   *)
Use == {u \in [failed : BOOLEAN, receipt : BOOLEAN, barred : BOOLEAN] :
            u.barred => u.receipt /\ ~u.failed}

(* await: suspended on an embedding; the others are statements in between. *)
Step == {"ready", "claim", "correlate", "linked", "loose", "learn", "await",
         "awaitLoose", "throw", "release", "done", "thrown", "killed"}
Recording == {"correlate", "linked", "loose"}
Sync == Recording \cup {"claim", "learn", "throw", "release"}

-----------------------------------------------------------------------------
Init ==
    /\ use \in Use
    /\ now = 0
    /\ linked = 0
    /\ loose = 0
    /\ latest = "none"
    /\ claim = NoClaim
    /\ learned = 0
    /\ extra = 0
    /\ pc = [h \in Hook |-> "ready"]

Goto(h, step) == pc' = [pc EXCEPT ![h] = step]

(* existingAutopilotOutcome finds no outcome row.                          *)
CheckNew(h) ==
    /\ pc[h] = "ready"
    /\ latest = "none"
    /\ Goto(h, "claim")
    /\ UNCHANGED <<use, now, linked, loose, latest, claim, learned, extra>>

CheckExistingNoLearn(h) ==
    /\ pc[h] = "ready"
    /\ latest # "none"
    /\ Goto(h, "done")
    /\ UNCHANGED <<use, now, linked, loose, latest, claim, learned, extra>>

(* An outcome is there: a replay learns the failure if nobody has, and     *)
(* only when the newest row has the receipt.                               *)
CheckExisting(h) ==
    /\ pc[h] = "ready"
    /\ latest # "none"
    /\ Goto(h, IF use.failed /\ latest = "linked" /\ learned = 0 THEN "learn" ELSE "done")
    /\ UNCHANGED <<use, now, linked, loose, latest, claim, learned, extra>>

AcquireHeld(h) ==
    /\ pc[h] = "claim"
    /\ claim' = [holder |-> h, expires |-> now + Lease]
    /\ Goto(h, "correlate")
    /\ UNCHANGED <<use, now, linked, loose, latest, learned, extra>>

AcquireAbsent(h) ==
    /\ pc[h] = "claim"
    /\ claim = NoClaim
    /\ claim' = [holder |-> h, expires |-> now + Lease]
    /\ Goto(h, "correlate")
    /\ UNCHANGED <<use, now, linked, loose, latest, learned, extra>>

(* acquireOutcomeClaim: one upsert that takes a claim that is absent or    *)
(* has expired.                                                            *)
Acquire(h) ==
    /\ pc[h] = "claim"
    /\ claim = NoClaim \/ claim.expires <= now
    /\ claim' = [holder |-> h, expires |-> now + Lease]
    /\ Goto(h, "correlate")
    /\ UNCHANGED <<use, now, linked, loose, latest, learned, extra>>

(* The claim is held: the delivery is dropped.                             *)
Refuse(h) ==
    /\ pc[h] = "claim"
    /\ claim # NoClaim /\ claim.expires > now
    /\ Goto(h, "done")
    /\ UNCHANGED <<use, now, linked, loose, latest, claim, learned, extra>>

CorrelateAny(h) ==
    /\ pc[h] = "correlate"
    /\ Goto(h, IF use.receipt THEN "linked" ELSE "loose")
    /\ UNCHANGED <<use, now, linked, loose, latest, claim, learned, extra>>

(* correlatedReceipt looks for the receipt without an outcome, and         *)
(* afterAction checks what it is told of it: both only read.               *)
Correlate(h) ==
    /\ pc[h] = "correlate"
    /\ Goto(h, IF use.receipt /\ linked = 0
               THEN IF use.barred THEN "throw" ELSE "linked"
               ELSE "loose")
    /\ UNCHANGED <<use, now, linked, loose, latest, claim, learned, extra>>

(* afterAction inserts the outcome of the receipt.                         *)
RecordLinked(h) ==
    /\ pc[h] = "linked"
    /\ linked' = linked + 1
    /\ latest' = "linked"
    /\ Goto(h, IF use.failed THEN "learn" ELSE "release")
    /\ UNCHANGED <<use, now, loose, claim, learned, extra>>

(* Without a receipt MemoryController.afterAction inserts an outcome of    *)
(* its own and, for a failure, encodes a memory of its own.                *)
RecordLoose(h) ==
    /\ pc[h] = "loose"
    /\ loose' = loose + 1
    /\ latest' = "loose"
    /\ Goto(h, IF use.failed THEN "awaitLoose" ELSE "release")
    /\ UNCHANGED <<use, now, linked, claim, learned, extra>>

(* learnFailure looks for a memory with this content.                      *)
Learn(h) ==
    /\ pc[h] = "learn"
    /\ Goto(h, IF learned > 0 THEN "release" ELSE "await")
    /\ UNCHANGED <<use, now, linked, loose, latest, claim, learned, extra>>

(* learnFailure resumes from the embedding and inserts the memory.         *)
Encode(h) ==
    /\ pc[h] = "await"
    /\ learned' = learned + 1
    /\ Goto(h, "release")
    /\ UNCHANGED <<use, now, linked, loose, latest, claim, extra>>

EncodeLoose(h) ==
    /\ pc[h] = "awaitLoose"
    /\ extra' = extra + 1
    /\ Goto(h, "release")
    /\ UNCHANGED <<use, now, linked, loose, latest, claim, learned>>

(* The embedding provider fails.                                           *)
Throw(h) ==
    /\ pc[h] \in {"await", "awaitLoose"}
    /\ Goto(h, "throw")
    /\ UNCHANGED <<use, now, linked, loose, latest, claim, learned, extra>>

(* releaseOutcomeClaim deletes the claim if it is still this delivery's,   *)
(* also when the hook throws; a replay that only learned has none.         *)
Release(h) ==
    /\ pc[h] \in {"release", "throw"}
    /\ claim' = IF claim.holder = h THEN NoClaim ELSE claim
    /\ Goto(h, IF pc[h] = "throw" THEN "thrown" ELSE "done")
    /\ UNCHANGED <<use, now, linked, loose, latest, learned, extra>>

(* The host's hook timeout kills the process; its claim stays.             *)
Kill(h) ==
    /\ pc[h] \notin {"ready", "done", "thrown", "killed"}
    /\ Goto(h, "killed")
    /\ UNCHANGED <<use, now, linked, loose, latest, claim, learned, extra>>

(* Time passes while the processes wait on embeddings.  The statements     *)
(* between two awaits take milliseconds of a lease of a minute.            *)
Tick ==
    /\ now < MaxNow
    /\ \A h \in Hook : pc[h] \notin Sync
    /\ now' = now + 1
    /\ UNCHANGED <<use, linked, loose, latest, claim, learned, extra, pc>>

-----------------------------------------------------------------------------
Run(h) ==
    \/ CheckNew(h) \/ CheckExisting(h)
    \/ Acquire(h) \/ Refuse(h)
    \/ Correlate(h) \/ RecordLinked(h) \/ RecordLoose(h)
    \/ Learn(h) \/ Encode(h) \/ EncodeLoose(h)
    \/ Release(h)

Next == \/ \E h \in Hook : Run(h) \/ Throw(h) \/ Kill(h)
        \/ Tick

Spec == Init /\ [][Next]_vars

(* A process that the host has started runs until it ends or is killed.    *)
FairSpec == Spec /\ \A h \in Hook : WF_vars(Run(h))

-----------------------------------------------------------------------------
TypeOK ==
    /\ use \in Use
    /\ now \in Nat
    /\ linked \in Nat /\ loose \in Nat
    /\ latest \in {"none", "linked", "loose"}
    /\ claim \in [holder : Hook \cup {Nobody}, expires : Nat]
    /\ learned \in Nat /\ extra \in Nat
    /\ pc \in [Hook -> Step]

(* However deliveries race, crash and repeat, the receipt of the tool use  *)
(* gets one outcome (correlatedReceipt under the outcome claim).           *)
OneLinkedOutcome == linked <= 1

(* The claim keeps two deliveries from recording at the same time, also    *)
(* when a claim has expired or is released.                                *)
OneRecorder ==
    \A g, h \in Hook : pc[g] \in Recording /\ pc[h] \in Recording => g = h

(* The last delivery leads to an outcome of a tool use whose report is     *)
(* accepted, unless its own process is killed: however the deliveries      *)
(* before it ended, a claim they left does not lose the outcome once it    *)
(* has expired.                                                            *)
Unclaimed == claim = NoClaim \/ claim.expires <= now
Last(h) == \A g \in Hook \ {h} : pc[g] \in {"done", "thrown", "killed"}
LastDeliveryRecords ==
    \A h \in Hook :
        (pc[h] = "ready" /\ Last(h) /\ Unclaimed /\ ~use.barred) ~>
            (latest # "none" \/ pc[h] = "killed")

(* A failure whose recorder ended before it learned is learned by the next *)
(* delivery, unless that one throws or is killed too or a delivery without *)
(* a receipt has covered the recorded outcome.                             *)
ReplayLearns ==
    \A h \in Hook :
        (use.failed /\ pc[h] = "ready" /\ latest = "linked") ~>
            (learned > 0 \/ pc[h] \in {"killed", "thrown"} \/ latest = "loose")

(* The hook implements the ledger of the tool use: see OutcomeLedger.      *)
Ledger == INSTANCE OutcomeLedger
          WITH failed <- use.failed, outcomes <- linked, memory <- learned > 0
LedgerSpec == Ledger!Spec

=============================================================================
