------------------------- MODULE HookOutcome_proofs -------------------------
(***************************************************************************)
(* Proofs about HookOutcome for any set of deliveries, lease and clock.    *)
(*                                                                         *)
(* The claim excludes: whoever is recording holds the claim, and it has    *)
(* not expired, because time does not pass between two awaits.  So what a  *)
(* delivery has read of the outcome rows is still so when it inserts.      *)
(***************************************************************************)
EXTENDS HookOutcome, TLAPS

(* Whoever records holds a live claim.                                     *)
HolderInv ==
    \A h \in Hook : pc[h] \in Recording => claim.holder = h /\ claim.expires > now

(* What a delivery found out about the rows is still true.                 *)
RowsInv ==
    /\ linked <= 1
    /\ latest = "linked" => linked = 1
    /\ learned > 0 => use.failed /\ linked = 1
    /\ \A h \in Hook :
         /\ pc[h] = "linked" => linked = 0
         /\ pc[h] \in {"learn", "await"} => use.failed /\ linked = 1

IInv == TypeOK /\ HolderInv /\ RowsInv

(* Every variable keeps its type.                                          *)
THEOREM TypeCorrect == Spec => []TypeOK
<1>1. Init => TypeOK
  BY HookAssumption DEF Init, TypeOK, NoClaim, Step, Use
<1>2. TypeOK /\ [Next]_vars => TypeOK'
  <2> SUFFICES ASSUME TypeOK, [Next]_vars PROVE TypeOK'
    OBVIOUS
  <2> USE HookAssumption DEF TypeOK, Step, Goto
  <2>1. ASSUME NEW h \in Hook, CheckNew(h) PROVE TypeOK'
    BY <2>1 DEF CheckNew
  <2>2. ASSUME NEW h \in Hook, CheckExisting(h) PROVE TypeOK'
    BY <2>2 DEF CheckExisting
  <2>3. ASSUME NEW h \in Hook, Acquire(h) PROVE TypeOK'
    BY <2>3 DEF Acquire
  <2>4. ASSUME NEW h \in Hook, Refuse(h) PROVE TypeOK'
    BY <2>4 DEF Refuse
  <2>5. ASSUME NEW h \in Hook, Correlate(h) PROVE TypeOK'
    BY <2>5 DEF Correlate
  <2>6. ASSUME NEW h \in Hook, RecordLinked(h) PROVE TypeOK'
    BY <2>6 DEF RecordLinked
  <2>7. ASSUME NEW h \in Hook, RecordLoose(h) PROVE TypeOK'
    BY <2>7 DEF RecordLoose
  <2>8. ASSUME NEW h \in Hook, Learn(h) PROVE TypeOK'
    BY <2>8 DEF Learn
  <2>9. ASSUME NEW h \in Hook, Encode(h) PROVE TypeOK'
    BY <2>9 DEF Encode
  <2>10. ASSUME NEW h \in Hook, EncodeLoose(h) PROVE TypeOK'
    BY <2>10 DEF EncodeLoose
  <2>11. ASSUME NEW h \in Hook, Release(h) PROVE TypeOK'
    BY <2>11 DEF Release, NoClaim
  <2>12. ASSUME NEW h \in Hook, Kill(h) PROVE TypeOK'
    BY <2>12 DEF Kill
  <2>13. ASSUME NEW h \in Hook, Throw(h) PROVE TypeOK'
    BY <2>13 DEF Throw
  <2>14. CASE Tick
    BY <2>14 DEF Tick
  <2>15. CASE UNCHANGED vars
    BY <2>15 DEF vars
  <2> QED
    BY <2>1, <2>2, <2>3, <2>4, <2>5, <2>6, <2>7, <2>8, <2>9, <2>10, <2>11,
       <2>12, <2>13, <2>14, <2>15 DEF Next, Run
<1> QED
  BY <1>1, <1>2, PTL DEF Spec

(* The inductive invariant: the live claim and the rows that depend on it. *)
THEOREM Invariance == Spec => []IInv
<1>1. Init => HolderInv /\ RowsInv
  BY DEF Init, HolderInv, RowsInv, Recording
<1>2. TypeOK /\ TypeOK' /\ HolderInv /\ RowsInv /\ [Next]_vars => HolderInv' /\ RowsInv'
  <2> SUFFICES ASSUME TypeOK, TypeOK', HolderInv, RowsInv, [Next]_vars
               PROVE HolderInv' /\ RowsInv'
    OBVIOUS
  <2> USE HookAssumption DEF TypeOK, HolderInv, RowsInv, Recording, Goto
  <2>1. ASSUME NEW h \in Hook, CheckNew(h) PROVE HolderInv' /\ RowsInv'
    BY <2>1 DEF CheckNew
  <2>2. ASSUME NEW h \in Hook, CheckExisting(h) PROVE HolderInv' /\ RowsInv'
    BY <2>2 DEF CheckExisting
  <2>3. ASSUME NEW h \in Hook, Acquire(h) PROVE HolderInv' /\ RowsInv'
    <3>1. \A g \in Hook : pc[g] \notin Recording
      BY <2>3 DEF Acquire, NoClaim
    <3> QED
      BY <2>3, <3>1 DEF Acquire
  <2>4. ASSUME NEW h \in Hook, Refuse(h) PROVE HolderInv' /\ RowsInv'
    BY <2>4 DEF Refuse
  <2>5. ASSUME NEW h \in Hook, Correlate(h) PROVE HolderInv' /\ RowsInv'
    BY <2>5 DEF Correlate
  <2>6. ASSUME NEW h \in Hook, RecordLinked(h) PROVE HolderInv' /\ RowsInv'
    <3>1. linked = 0 /\ linked' = 1
      BY <2>6 DEF RecordLinked
    <3>2. \A g \in Hook \ {h} : pc[g] # "linked"
      BY <2>6 DEF RecordLinked
    <3> QED
      BY <2>6, <3>1, <3>2 DEF RecordLinked
  <2>7. ASSUME NEW h \in Hook, RecordLoose(h) PROVE HolderInv' /\ RowsInv'
    BY <2>7 DEF RecordLoose
  <2>8. ASSUME NEW h \in Hook, Learn(h) PROVE HolderInv' /\ RowsInv'
    BY <2>8 DEF Learn
  <2>9. ASSUME NEW h \in Hook, Encode(h) PROVE HolderInv' /\ RowsInv'
    BY <2>9 DEF Encode
  <2>10. ASSUME NEW h \in Hook, EncodeLoose(h) PROVE HolderInv' /\ RowsInv'
    BY <2>10 DEF EncodeLoose
  <2>11. ASSUME NEW h \in Hook, Release(h) PROVE HolderInv' /\ RowsInv'
    <3>1. \A g \in Hook \ {h} : pc[g] \in Recording => claim.holder # h
      OBVIOUS
    <3> QED
      BY <2>11, <3>1 DEF Release
  <2>12. ASSUME NEW h \in Hook, Kill(h) PROVE HolderInv' /\ RowsInv'
    BY <2>12 DEF Kill
  <2>13. ASSUME NEW h \in Hook, Throw(h) PROVE HolderInv' /\ RowsInv'
    BY <2>13 DEF Throw
  <2>14. CASE Tick
    <3>1. \A g \in Hook : pc[g] \notin Recording
      BY <2>14 DEF Tick, Sync
    <3> QED
      BY <2>14, <3>1 DEF Tick
  <2>15. CASE UNCHANGED vars
    BY <2>15 DEF vars
  <2> QED
    BY <2>1, <2>2, <2>3, <2>4, <2>5, <2>6, <2>7, <2>8, <2>9, <2>10, <2>11,
       <2>12, <2>13, <2>14, <2>15 DEF Next, Run
<1> QED
  BY <1>1, <1>2, TypeCorrect, PTL DEF Spec, IInv

(* No two deliveries record at the same time.                              *)
THEOREM RecorderIsAlone == Spec => []OneRecorder
<1>1. IInv => OneRecorder
  BY DEF IInv, HolderInv, OneRecorder
<1> QED
  BY <1>1, Invariance, PTL

(* The receipt gets one outcome.                                           *)
THEOREM ReceiptHasOneOutcome == Spec => []OneLinkedOutcome
<1>1. IInv => OneLinkedOutcome
  BY DEF IInv, RowsInv, OneLinkedOutcome
<1> QED
  BY <1>1, Invariance, PTL

(* The hook implements the ledger: every step of a delivery records,       *)
(* learns, or leaves what the ledger shows as it is.                       *)
THEOREM HookImplementsLedger == Spec => LedgerSpec
<1>1. Init => Ledger!Init
  BY DEF Init, Use, Ledger!Init
<1>2. IInv /\ IInv' /\ [Next]_vars => [Ledger!Next]_Ledger!vars
  <2> SUFFICES ASSUME IInv, IInv', [Next]_vars PROVE [Ledger!Next]_Ledger!vars
    OBVIOUS
  <2> USE HookAssumption DEF IInv, TypeOK, RowsInv, Ledger!Next, Ledger!vars
  <2>1. ASSUME NEW h \in Hook, RecordLinked(h) PROVE Ledger!Record
    BY <2>1 DEF RecordLinked, Ledger!Record
  <2>2. ASSUME NEW h \in Hook, Encode(h) PROVE Ledger!Learn
    BY <2>2 DEF Encode, Ledger!Learn
  <2>3. ASSUME UNCHANGED <<use, linked, learned>> PROVE UNCHANGED Ledger!vars
    BY <2>3
  <2>4. ASSUME NEW h \in Hook, Run(h) \/ Throw(h) \/ Kill(h) PROVE [Ledger!Next]_Ledger!vars
    BY <2>1, <2>2, <2>3, <2>4 DEF Run, CheckNew, CheckExisting, Acquire, Refuse, Correlate,
       RecordLoose, Learn, EncodeLoose, Release, Throw, Kill
  <2>5. CASE Tick
    BY <2>3, <2>5 DEF Tick
  <2>6. CASE UNCHANGED vars
    BY <2>3, <2>6 DEF vars
  <2> QED
    BY <2>4, <2>5, <2>6 DEF Next
<1> QED
  BY <1>1, <1>2, Invariance, PTL DEF Spec, LedgerSpec, Ledger!Spec
=============================================================================
