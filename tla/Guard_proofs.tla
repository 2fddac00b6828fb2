---------------------------- MODULE Guard_proofs ----------------------------
(***************************************************************************)
(* Proofs about Guard, for any processes, actions, window and retention,   *)
(* and about PreToolHook, for any number of parallel tool uses.            *)
(*                                                                         *)
(* The log is ordered: ids and times grow together, and retention only     *)
(* takes a prefix.  A receipt belongs to the check that inserted it until  *)
(* that check stamps it, so nobody reports on it before; and what the      *)
(* check saw of the failures before its receipt stays true of the log,     *)
(* because a success that cleared a failure outlives it.                   *)
(*                                                                         *)
(* Every step of PreToolHook is a step of the Guard, so that the Guard's   *)
(* theorems hold of the tool uses; and what the Guard stamped on a receipt *)
(* is still true when the hook that asked lets its tool run.               *)
(***************************************************************************)
EXTENDS PreToolHook, TLAPS

Rows == receipts \cup outcomes

(* Ids are given once and in the order of the clock.                       *)
LogInv ==
    /\ \A x \in Rows : x.id \in Nat /\ x.at \in Nat /\ 0 < x.id /\ x.id < nextId /\ x.at <= now
    /\ \A x, y \in Rows : x.id = y.id => x = y
    /\ \A x, y \in Rows : x.id < y.id => x.at <= y.at

(* Where a check or a report is, and what it relies on.                    *)
Checking(p) == pc[p] \in {"receipted", "judged"}

CallInv ==
    /\ \A p \in Proc : pc[p] # "idle" => 0 < call[p].receipt /\ call[p].receipt < nextId
    /\ \A p \in Proc, r \in receipts :
         Checking(p) /\ r.id = call[p].receipt => ~r.guard /\ r.key = call[p].key
    /\ \A p, q \in Proc :
         Checking(p) /\ Checking(q) /\ call[p].receipt = call[q].receipt => p = q
    /\ \A p \in Proc : pc[p] = "judged" /\ call[p].exact => call[p].decision = "block"
    /\ \A p \in Proc, r \in receipts :
         pc[p] = "checked" /\ r.id = call[p].receipt =>
             /\ r.guard /\ r.key = call[p].key
             /\ call[p].outcome = "succeeded" => ~r.exact

(* Only stamped receipts have outcomes.                                    *)
ReceiptInv ==
    /\ \A r \in receipts : r.guard /\ r.exact => r.decision = "block"
    /\ \A o \in outcomes : o.receipt < nextId
    /\ \A o \in outcomes, r \in receipts :
         o.receipt = r.id =>
             /\ r.guard /\ o.key = r.key
             /\ o.outcome = "succeeded" => ~r.exact

ClearInv ==
    /\ \A p \in Proc :
         pc[p] = "judged" /\ ~call[p].exact /\ ~call[p].ack =>
             Cleared(call[p].key, call[p].receipt)
    /\ \A r \in receipts : r.guard /\ ~r.exact /\ ~r.ack => Cleared(r.key, r.id)

IInv == TypeOK /\ LogInv /\ CallInv /\ ReceiptInv /\ ClearInv /\ RecoveryIsAcknowledged

-----------------------------------------------------------------------------
(* A row that an insertion adds comes after every row of the log.          *)
LEMMA InsertedLast ==
    ASSUME TypeOK, LogInv, NEW x, x.id = nextId, x.at = now, nextId' = nextId + 1, now' = now,
           Rows' = Rows \cup {x}
    PROVE  LogInv'
BY DEF LogInv, TypeOK

(* Fewer rows are still in order.                                          *)
LEMMA FewerRows ==
    ASSUME TypeOK, LogInv, Rows' \subseteq Rows, nextId' = nextId, now' \in Nat, now <= now'
    PROVE  LogInv'
BY DEF LogInv, TypeOK

(* Rescoping a receipt changes nothing of it but the decision.             *)
LEMMA Rescoped ==
    ASSUME TypeOK, NEW r \in receipts, Rescope(r)
    PROVE  /\ r.guard /\ ~r.exact /\ ~r.ack
           /\ now' = now /\ nextId' = nextId /\ outcomes' = outcomes
           /\ pc' = pc /\ call' = call
           /\ \E s \in Receipt :
                /\ receipts' = (receipts \ {r}) \cup {s}
                /\ s.id = r.id /\ s.key = r.key /\ s.at = r.at
                /\ s.guard /\ ~s.exact /\ ~s.ack
<1> DEFINE s == [r EXCEPT !.decision = "go"]
<1>1. r \in Receipt
  BY DEF TypeOK
<1>2. /\ s \in Receipt
      /\ s.id = r.id /\ s.key = r.key /\ s.at = r.at
      /\ s.guard = r.guard /\ s.exact = r.exact /\ s.ack = r.ack
  BY <1>1 DEF Receipt, Decision
<1>3. receipts' = (receipts \ {r}) \cup {s}
  BY DEF Rescope
<1> HIDE DEF s
<1> QED
  BY <1>2, <1>3 DEF Rescope

(* A step of the Guard keeps the type of every variable.                   *)
LEMMA TypeKept ==
    ASSUME TypeOK, [Next]_vars
    PROVE  TypeOK'
<1> USE ParamsAssumption DEF TypeOK, Step, Goto
<1>1. ASSUME NEW p \in Proc, NEW a \in Action, NEW ack \in BOOLEAN, NEW d \in Advice,
             Before(p, a, ack, d)
      PROVE  TypeOK'
  <2> DEFINE r == [id |-> nextId, key |-> a, at |-> now, guard |-> FALSE,
                   decision |-> d, exact |-> FALSE, ack |-> FALSE]
             c == [call[p] EXCEPT !.key = a, !.ack = ack, !.receipt = nextId, !.decision = d]
  <2>1. r \in Receipt
    BY DEF Receipt, Decision
  <2>2. c \in Call
    BY DEF Call
  <2>3. receipts' = receipts \cup {r} /\ call' = [call EXCEPT ![p] = c]
    BY <1>1 DEF Before
  <2> HIDE DEF r, c
  <2> QED
    BY <1>1, <2>1, <2>2, <2>3 DEF Before
<1>2. ASSUME NEW p \in Proc, NEW d \in Decision, Judge(p, d) PROVE TypeOK'
  <2> DEFINE failed == Failures(call[p].key) # {}
             c == [call[p] EXCEPT !.decision = d, !.exact = failed /\ ~call[p].ack,
                                  !.ack = failed /\ call[p].ack]
  <2>1. c \in Call
    BY DEF Call
  <2>2. call' = [call EXCEPT ![p] = c]
    BY <1>2 DEF Judge
  <2> HIDE DEF c
  <2> QED
    BY <1>2, <2>1, <2>2 DEF Judge
<1>3. ASSUME NEW p \in Proc, Stamp(p) PROVE TypeOK'
  <2>1. \A r \in receipts : Stamped(p, r) \in Receipt
    BY DEF Stamped, Receipt, Call
  <2>2. NoCall(call[p].key) \in Call
    BY DEF NoCall, Call, Decision, Outcome
  <2> QED
    BY <1>3, <2>1, <2>2 DEF Stamp, Return
<1>4. ASSUME NEW p \in Proc, NEW r \in receipts, NEW o \in Outcome, NEW v \in BOOLEAN,
             After(p, r, o, v)
      PROVE  TypeOK'
  <2> DEFINE c == [call[p] EXCEPT !.key = r.key, !.receipt = r.id, !.outcome = o]
  <2>1. c \in Call
    BY DEF Call, Receipt
  <2>2. call' = [call EXCEPT ![p] = c]
    BY <1>4 DEF After, Accept
  <2> HIDE DEF c
  <2> QED
    BY <1>4, <2>1, <2>2 DEF After, Accept
<1>5. ASSUME NEW p \in Proc, Record(p) PROVE TypeOK'
  BY <1>5 DEF Record, Insert, Return, NoCall, Observed, Call, Decision, Outcome
<1>6. ASSUME NEW p \in Proc, NEW a \in Action, NEW o \in Outcome, Observe(p, a, o)
      PROVE  TypeOK'
  BY <1>6 DEF Observe, Insert, Observed
<1>7. ASSUME NEW p \in Proc, Crash(p) PROVE TypeOK'
  BY <1>7 DEF Crash, Return, NoCall, Call, Decision, Outcome
<1>8. CASE Tick
  BY <1>8 DEF Tick
<1>9. ASSUME NEW n \in 1..MaxRows, Prune(n) PROVE TypeOK'
  BY <1>9 DEF Prune
<1>10. ASSUME NEW r \in receipts, Rescope(r) PROVE TypeOK'
  BY <1>10, Rescoped
<1>11. CASE UNCHANGED vars
  BY <1>11 DEF vars
<1> QED
  BY <1>1, <1>2, <1>3, <1>4, <1>5, <1>6, <1>7, <1>8, <1>9, <1>10, <1>11 DEF Next

(* Every variable keeps its type.                                          *)
THEOREM TypeCorrect == Spec => []TypeOK
<1>1. Init => TypeOK
  BY DEF Init, TypeOK, NoCall, Step, Call, Decision, Outcome
<1>2. TypeOK /\ [Next]_vars => TypeOK'
  BY TypeKept
<1> QED
  BY <1>1, <1>2, PTL DEF Spec

-----------------------------------------------------------------------------
(* The log stays in order: rows are added at its end and taken from it.    *)
LEMMA LogKept ==
    ASSUME TypeOK, TypeOK', LogInv, [Next]_vars
    PROVE  LogInv'
<1> USE DEF Rows
<1>1. ASSUME NEW x, x.id = nextId, x.at = now, nextId' = nextId + 1, now' = now,
             Rows' = Rows \cup {x}
      PROVE  LogInv'
  BY <1>1, InsertedLast
<1>2. ASSUME Rows' \subseteq Rows, nextId' = nextId, now' = now
      PROVE  LogInv'
  BY <1>2, FewerRows DEF TypeOK
<1>3. ASSUME NEW p \in Proc, NEW a \in Action, NEW ack \in BOOLEAN, NEW d \in Advice,
             Before(p, a, ack, d)
      PROVE  LogInv'
  <2> DEFINE r == [id |-> nextId, key |-> a, at |-> now, guard |-> FALSE,
                   decision |-> d, exact |-> FALSE, ack |-> FALSE]
  <2>1. Rows' = Rows \cup {r} /\ nextId' = nextId + 1 /\ now' = now
    BY <1>3 DEF Before
  <2>2. r.id = nextId /\ r.at = now
    OBVIOUS
  <2> HIDE DEF r, Rows
  <2> QED
    BY <1>1, <2>1, <2>2
<1>4. ASSUME NEW p \in Proc, NEW d \in Decision, Judge(p, d) PROVE LogInv'
  BY <1>2, <1>4 DEF Judge
<1>5. ASSUME NEW p \in Proc, Stamp(p) PROVE LogInv'
  <2> DEFINE S(r) == IF r.id = call[p].receipt THEN Stamped(p, r) ELSE r
  <2>1. /\ receipts' = {S(r) : r \in receipts}
        /\ outcomes' = outcomes /\ nextId' = nextId /\ now' = now
    BY <1>5 DEF Stamp
  <2>2. \A r \in receipts : S(r).id = r.id /\ S(r).at = r.at
    BY DEF Stamped, TypeOK, Receipt
  <2> HIDE DEF S
  <2>3. \A x \in Rows' : \E y \in Rows : x.id = y.id /\ x.at = y.at
    BY <2>1, <2>2
  <2>4. \A x, y \in Rows' : x.id = y.id => x = y
    <3>1. \A r \in receipts, o \in outcomes : S(r).id # o.id \/ r = o
      BY <2>2 DEF LogInv
    <3>2. \A r \in receipts, o \in outcomes : r # o
      BY DEF TypeOK, Receipt, Observed
    <3> QED
      BY <2>1, <2>2, <3>1, <3>2 DEF LogInv
  <2> QED
    BY <2>1, <2>3, <2>4 DEF LogInv
<1>6. ASSUME NEW p \in Proc, NEW r \in receipts, NEW o \in Outcome, NEW v \in BOOLEAN,
             After(p, r, o, v)
      PROVE  LogInv'
  BY <1>2, <1>6 DEF After, Accept
<1>7. ASSUME NEW a, NEW o, NEW receipt, Insert(a, o, receipt) PROVE LogInv'
  <2> DEFINE q == [id |-> nextId, key |-> a, at |-> now, outcome |-> o, receipt |-> receipt]
  <2>1. Rows' = Rows \cup {q} /\ nextId' = nextId + 1 /\ now' = now
    BY <1>7 DEF Insert
  <2>2. q.id = nextId /\ q.at = now
    OBVIOUS
  <2> HIDE DEF q, Rows
  <2> QED
    BY <1>1, <2>1, <2>2
<1>8. ASSUME NEW p \in Proc,
             Record(p) \/ \E a \in Action, o \in Outcome : Observe(p, a, o)
      PROVE  LogInv'
  BY <1>7, <1>8 DEF Record, Observe
<1>9. ASSUME NEW p \in Proc, Crash(p) PROVE LogInv'
  BY <1>2, <1>9 DEF Crash
<1>10. CASE Tick
  BY <1>10, FewerRows DEF Tick, TypeOK
<1>11. ASSUME NEW n \in 1..MaxRows, Prune(n) PROVE LogInv'
  BY <1>2, <1>11 DEF Prune
<1>12. ASSUME NEW r \in receipts, Rescope(r) PROVE LogInv'
  <2>1. PICK s \in Receipt : /\ receipts' = (receipts \ {r}) \cup {s}
                             /\ s.id = r.id /\ s.at = r.at
    BY <1>12, Rescoped
  <2>2. outcomes' = outcomes /\ nextId' = nextId /\ now' = now
    BY <1>12, Rescoped
  <2>3. \A x \in Rows' : x = s \/ (x \in Rows /\ x # r)
    <3>1. r \notin outcomes
      BY DEF TypeOK, Receipt, Observed
    <3> QED
      BY <2>1, <2>2, <3>1
  <2>4. \A x \in Rows' : x # s => x.id # s.id
    BY <2>1, <2>3 DEF LogInv
  <2>5. \A x \in Rows' : \E y \in Rows : x.id = y.id /\ x.at = y.at
    BY <2>1, <2>3
  <2>6. \A x, y \in Rows' : x.id = y.id => x = y
    BY <2>3, <2>4 DEF LogInv
  <2> QED
    BY <2>2, <2>5, <2>6 DEF LogInv
<1>13. CASE UNCHANGED vars
  BY <1>2, <1>13 DEF vars
<1> QED
  BY <1>3, <1>4, <1>5, <1>6, <1>8, <1>9, <1>10, <1>11, <1>12, <1>13 DEF Next

(* A receipt is its check's own until it is stamped, and only then         *)
(* reported on.                                                            *)
LEMMA OwnershipKept ==
    ASSUME TypeOK, TypeOK', LogInv, CallInv, ReceiptInv, [Next]_vars
    PROVE  CallInv' /\ ReceiptInv'
<1> USE DEF TypeOK, Step, Checking, Goto
<1>1. ASSUME NEW p \in Proc, NEW a \in Action, NEW ack \in BOOLEAN, NEW d \in Advice,
             Before(p, a, ack, d)
      PROVE  CallInv' /\ ReceiptInv'
  <2> DEFINE r == [id |-> nextId, key |-> a, at |-> now, guard |-> FALSE,
                   decision |-> d, exact |-> FALSE, ack |-> FALSE]
  <2>1. receipts' = receipts \cup {r} /\ outcomes' = outcomes /\ nextId' = nextId + 1
    BY <1>1 DEF Before
  <2>2. r.id = nextId /\ r.key = a /\ ~r.guard
    OBVIOUS
  <2>3. /\ pc' = [pc EXCEPT ![p] = "receipted"]
        /\ \A q \in Proc \ {p} : call'[q] = call[q]
        /\ call'[p].key = a /\ call'[p].receipt = nextId
    BY <1>1 DEF Before, Call
  <2>4. /\ \A q \in receipts : q.id # nextId
        /\ \A q \in Proc \ {p} : pc[q] # "idle" => call[q].receipt < nextId
        /\ \A o \in outcomes : o.receipt # nextId
    BY DEF LogInv, Rows, CallInv, ReceiptInv, Call, Observed
  <2> HIDE DEF r
  <2>5. CallInv'
    BY <2>1, <2>2, <2>3, <2>4 DEF CallInv, Call
  <2>6. ReceiptInv'
    BY <2>1, <2>2, <2>4 DEF ReceiptInv, Observed
  <2> QED
    BY <2>5, <2>6
<1>2. ASSUME NEW p \in Proc, NEW d \in Decision, Judge(p, d)
      PROVE  CallInv' /\ ReceiptInv'
  <2>1. /\ pc[p] = "receipted" /\ pc' = [pc EXCEPT ![p] = "judged"]
        /\ receipts' = receipts /\ outcomes' = outcomes /\ nextId' = nextId
        /\ \A q \in Proc : call'[q].key = call[q].key /\ call'[q].receipt = call[q].receipt
        /\ \A q \in Proc \ {p} : call'[q] = call[q]
    BY <1>2 DEF Judge, Call
  <2>2. call'[p].exact => call'[p].decision = "block"
    BY <1>2 DEF Judge, Call, Decisions
  <2>3. CallInv'
    BY <2>1, <2>2 DEF CallInv
  <2>4. ReceiptInv'
    BY <2>1 DEF ReceiptInv
  <2> QED
    BY <2>3, <2>4
<1>3. ASSUME NEW p \in Proc, Stamp(p) PROVE CallInv' /\ ReceiptInv'
  <2> DEFINE S(r) == IF r.id = call[p].receipt THEN Stamped(p, r) ELSE r
  <2>1. /\ receipts' = {S(r) : r \in receipts} /\ outcomes' = outcomes /\ nextId' = nextId
        /\ pc[p] = "judged" /\ pc' = [pc EXCEPT ![p] = "idle"]
        /\ \A q \in Proc \ {p} : call'[q] = call[q]
    BY <1>3 DEF Stamp, Return
  <2>2. \A r \in receipts : S(r).id = r.id /\ S(r).key = r.key
    BY DEF Stamped, Receipt
  <2>3. \A r \in receipts : r.id # call[p].receipt => S(r) = r
    OBVIOUS
  <2>4. ASSUME NEW r \in receipts, r.id = call[p].receipt
        PROVE  /\ S(r).guard /\ S(r).exact = call[p].exact /\ S(r).decision = call[p].decision
               /\ ~r.guard
    <3>1. S(r) = Stamped(p, r)
      BY <2>4
    <3>2. Stamped(p, r).guard /\ Stamped(p, r).exact = call[p].exact
      BY DEF Stamped, Receipt
    <3>3. Stamped(p, r).decision = call[p].decision
      BY DEF Stamped, Receipt
    <3>4. ~r.guard
      BY <2>1, <2>4 DEF CallInv
    <3> QED
      BY <3>1, <3>2, <3>3, <3>4
  <2> HIDE DEF S
  <2>5. CallInv'
    <3>1. \A q \in Proc, r \in receipts' :
            pc'[q] \in {"receipted", "judged"} /\ r.id = call'[q].receipt =>
                ~r.guard /\ r.key = call'[q].key
      <4> SUFFICES ASSUME NEW q \in Proc, NEW r \in receipts,
                          pc'[q] \in {"receipted", "judged"}, S(r).id = call'[q].receipt
                   PROVE  ~S(r).guard /\ S(r).key = call'[q].key
        BY <2>1
      <4>1. q # p /\ call'[q] = call[q] /\ pc[q] = pc'[q]
        BY <2>1
      <4>2. r.id # call[p].receipt
        BY <2>1, <2>2, <4>1 DEF CallInv
      <4> QED
        BY <2>2, <2>3, <4>1, <4>2 DEF CallInv
    <3>2. \A q \in Proc, r \in receipts' :
            pc'[q] = "checked" /\ r.id = call'[q].receipt =>
                /\ r.guard /\ r.key = call'[q].key
                /\ call'[q].outcome = "succeeded" => ~r.exact
      <4> SUFFICES ASSUME NEW q \in Proc, NEW r \in receipts,
                          pc'[q] = "checked", S(r).id = call'[q].receipt
                   PROVE  /\ S(r).guard /\ S(r).key = call'[q].key
                          /\ call'[q].outcome = "succeeded" => ~S(r).exact
        BY <2>1
      <4>1. q # p /\ call'[q] = call[q] /\ pc[q] = pc'[q]
        BY <2>1
      <4>2. r.guard /\ r.id # call[p].receipt
        BY <2>1, <2>2, <2>4, <4>1 DEF CallInv
      <4> QED
        BY <2>2, <2>3, <4>1, <4>2 DEF CallInv
    <3> QED
      BY <2>1, <3>1, <3>2 DEF CallInv
  <2>6. ReceiptInv'
    BY <2>1, <2>2, <2>3, <2>4 DEF ReceiptInv, CallInv
  <2> QED
    BY <2>5, <2>6
<1>4. ASSUME NEW p \in Proc, NEW r \in receipts, NEW o \in Outcome, NEW v \in BOOLEAN,
             After(p, r, o, v)
      PROVE  CallInv' /\ ReceiptInv'
  <2>1. /\ receipts' = receipts /\ outcomes' = outcomes /\ nextId' = nextId
        /\ pc' = [pc EXCEPT ![p] = "checked"]
        /\ \A q \in Proc \ {p} : call'[q] = call[q]
        /\ call'[p].key = r.key /\ call'[p].receipt = r.id /\ call'[p].outcome = o
    BY <1>4 DEF After, Accept, Call
  <2>2. r.guard /\ (o = "succeeded" => ~r.exact)
    BY <1>4 DEF After, MaySucceed, ReceiptInv
  <2>3. 0 < r.id /\ r.id < nextId /\ \A q \in receipts : q.id = r.id => q = r
    BY DEF LogInv, Rows
  <2>4. CallInv'
    BY <2>1, <2>2, <2>3 DEF CallInv
  <2>5. ReceiptInv'
    BY <2>1 DEF ReceiptInv
  <2> QED
    BY <2>4, <2>5
<1>5. ASSUME NEW p \in Proc, Record(p) PROVE CallInv' /\ ReceiptInv'
  <2> DEFINE q == [id |-> nextId, key |-> call[p].key, at |-> now,
                   outcome |-> call[p].outcome, receipt |-> call[p].receipt]
  <2>1. /\ receipts' = receipts /\ outcomes' = outcomes \cup {q} /\ nextId' = nextId + 1
        /\ pc[p] = "checked" /\ pc' = [pc EXCEPT ![p] = "idle"]
        /\ \A g \in Proc \ {p} : call'[g] = call[g]
    BY <1>5 DEF Record, Insert, Return
  <2>2. q.key = call[p].key /\ q.outcome = call[p].outcome /\ q.receipt = call[p].receipt
    OBVIOUS
  <2> HIDE DEF q
  <2>3. CallInv'
    BY <2>1 DEF CallInv, Call
  <2>4. ReceiptInv'
    BY <2>1, <2>2 DEF ReceiptInv, CallInv, Call, Observed
  <2> QED
    BY <2>3, <2>4
<1>6. ASSUME NEW p \in Proc, NEW a \in Action, NEW o \in Outcome, Observe(p, a, o)
      PROVE  CallInv' /\ ReceiptInv'
  <2>1. \A r \in receipts : r.id # 0
    BY DEF LogInv, Rows
  <2>2. CallInv'
    BY <1>6 DEF Observe, Insert, CallInv, Call
  <2>3. ReceiptInv'
    BY <1>6, <2>1 DEF Observe, Insert, ReceiptInv, Observed
  <2> QED
    BY <2>2, <2>3
<1>7. ASSUME NEW p \in Proc, Crash(p) PROVE CallInv' /\ ReceiptInv'
  BY <1>7 DEF Crash, Return, CallInv, ReceiptInv
<1>8. CASE Tick
  BY <1>8 DEF Tick, CallInv, ReceiptInv
<1>9. ASSUME NEW n \in 1..MaxRows, Prune(n) PROVE CallInv' /\ ReceiptInv'
  BY <1>9 DEF Prune, CallInv, ReceiptInv
<1>10. ASSUME NEW r \in receipts, Rescope(r) PROVE CallInv' /\ ReceiptInv'
  <2>1. PICK s \in Receipt : /\ receipts' = (receipts \ {r}) \cup {s}
                             /\ s.id = r.id /\ s.key = r.key /\ s.guard /\ ~s.exact
    BY <1>10, Rescoped
  <2>2. /\ r.guard /\ ~r.exact
        /\ outcomes' = outcomes /\ nextId' = nextId /\ pc' = pc /\ call' = call
    BY <1>10, Rescoped
  <2>3. CallInv'
    BY <2>1, <2>2 DEF CallInv
  <2>4. ReceiptInv'
    BY <2>1, <2>2 DEF ReceiptInv
  <2> QED
    BY <2>3, <2>4
<1>11. CASE UNCHANGED vars
  BY <1>11 DEF vars, CallInv, ReceiptInv
<1> QED
  BY <1>1, <1>2, <1>3, <1>4, <1>5, <1>6, <1>7, <1>8, <1>9, <1>10, <1>11 DEF Next

-----------------------------------------------------------------------------
(* What a step does to the outcomes and the clock: nothing or a later      *)
(* clock, a new last row, or the removal of the first rows.                *)
Unchanged == outcomes' = outcomes /\ now' \in Nat /\ now <= now'
Appended == now' = now /\ \E o \in Observed : o.id = nextId /\ outcomes' = outcomes \cup {o}
Pruned == now' = now /\ \E n \in Nat : outcomes' = {o \in outcomes : o.id > n}

LEMMA OutcomeSteps ==
    ASSUME TypeOK, TypeOK', [Next]_vars
    PROVE  Unchanged \/ Appended \/ Pruned
<1> USE DEF TypeOK
<1>1. ASSUME NEW a, NEW o, NEW receipt, Insert(a, o, receipt) PROVE Appended
  <2> DEFINE q == [id |-> nextId, key |-> a, at |-> now, outcome |-> o, receipt |-> receipt]
  <2>1. outcomes' = outcomes \cup {q} /\ now' = now
    BY <1>1 DEF Insert
  <2>2. q.id = nextId
    OBVIOUS
  <2> HIDE DEF q
  <2> QED
    BY <2>1, <2>2 DEF Appended
<1>2. ASSUME NEW n \in 1..MaxRows, Prune(n) PROVE Pruned
  BY <1>2, ParamsAssumption DEF Prune, Pruned
<1>3. ASSUME outcomes' = outcomes, now' = now \/ now' = now + 1 PROVE Unchanged
  BY <1>3 DEF Unchanged
<1> QED
  BY <1>1, <1>2, <1>3 DEF Next, Before, Judge, Stamp, After, Accept, Record, Observe,
     Crash, Rescope, Tick, vars

(* What has been cleared stays cleared: a failure leaves the log before    *)
(* the success that cleared it, and new rows come after both.              *)
LEMMA ClearedKept ==
    ASSUME TypeOK, TypeOK', LogInv, [Next]_vars,
           NEW a \in Action, NEW n \in Nat, n <= nextId, Cleared(a, n)
    PROVE  Cleared(a, n)'
<1> USE ParamsAssumption DEF TypeOK, Observed
<1>1. CASE Unchanged
  BY <1>1 DEF Unchanged, Cleared
<1>2. CASE Appended
  <2> PICK o \in Observed : o.id = nextId /\ outcomes' = outcomes \cup {o} /\ now' = now
    BY <1>2 DEF Appended
  <2> QED
    BY DEF Cleared
<1>3. CASE Pruned
  <2> PICK m \in Nat : outcomes' = {o \in outcomes : o.id > m} /\ now' = now
    BY <1>3 DEF Pruned
  <2> QED
    BY DEF Cleared
<1> QED
  BY <1>1, <1>2, <1>3, OutcomeSteps

(* A check that finds no failure finds every failure cleared.              *)
LEMMA NoFailureCleared ==
    ASSUME TypeOK, LogInv, NEW a \in Action, NEW n \in Nat, Failures(a) = {}
    PROVE  Cleared(a, n)
<1> SUFFICES ASSUME NEW f \in outcomes, f.key = a, f.outcome = "failed", InWindow(f)
             PROVE  \E g \in outcomes : g.key = a /\ g.outcome = "succeeded" /\ f.id < g.id
  BY ParamsAssumption DEF Cleared, InWindow, TypeOK, Observed
<1>1. f \in History(a)
  BY DEF History
<1>2. PICK s \in Successes(a) : ~(s.id < f.id)
  BY <1>1 DEF Failures
<1>3. s \in outcomes /\ s.key = a /\ s.outcome = "succeeded"
  BY <1>2 DEF Successes, History
<1>4. s.id # f.id /\ s.id \in Nat /\ f.id \in Nat
  BY <1>3 DEF LogInv, Rows
<1> QED
  BY <1>2, <1>3, <1>4

(* What a check saw of the failures before its receipt stays so.           *)
LEMMA ClearKept ==
    ASSUME TypeOK, TypeOK', LogInv, CallInv, ReceiptInv, ClearInv, [Next]_vars
    PROVE  ClearInv'
<1> USE DEF TypeOK, Goto
<1>1. \A a \in Action, n \in Nat : n <= nextId /\ Cleared(a, n) => Cleared(a, n)'
  BY ClearedKept
<1>2. /\ \A p \in Proc : call[p].key \in Action /\ call[p].receipt \in Nat
      /\ \A p \in Proc : pc[p] # "idle" => call[p].receipt <= nextId
      /\ \A r \in receipts : r.key \in Action /\ r.id \in Nat /\ r.id <= nextId
  BY DEF CallInv, LogInv, Rows, Call, Receipt
<1>3. ASSUME \A p \in Proc : pc'[p] = "judged" => pc[p] = "judged" /\ call'[p] = call[p],
             \A r \in receipts' : r.guard => r \in receipts
      PROVE  ClearInv'
  <2>1. ASSUME NEW p \in Proc, pc'[p] = "judged", ~call'[p].exact, ~call'[p].ack
        PROVE  Cleared(call[p].key, call[p].receipt)'
    BY <1>1, <1>2, <1>3, <2>1 DEF ClearInv
  <2>2. ASSUME NEW r \in receipts', r.guard, ~r.exact, ~r.ack
        PROVE  Cleared(r.key, r.id)'
    BY <1>1, <1>2, <1>3, <2>2 DEF ClearInv
  <2> QED
    BY <2>1, <2>2 DEF ClearInv
<1>4. ASSUME NEW p \in Proc, NEW d \in Decision, Judge(p, d) PROVE ClearInv'
  <2>1. /\ pc' = [pc EXCEPT ![p] = "judged"] /\ pc[p] = "receipted"
        /\ receipts' = receipts /\ outcomes' = outcomes /\ now' = now
        /\ \A q \in Proc \ {p} : call'[q] = call[q]
        /\ call'[p].key = call[p].key /\ call'[p].receipt = call[p].receipt
    BY <1>4 DEF Judge, Call
  <2>2. ~call'[p].exact /\ ~call'[p].ack => Failures(call[p].key) = {}
    BY <1>4 DEF Judge, Call
  <2>3. ASSUME Failures(call[p].key) = {} PROVE Cleared(call[p].key, call[p].receipt)
    BY <1>2, <2>3, NoFailureCleared
  <2>4. \A q \in Proc : pc'[q] = "judged" /\ ~call'[q].exact /\ ~call'[q].ack =>
            Cleared(call'[q].key, call'[q].receipt)
    BY <2>1, <2>2, <2>3 DEF ClearInv
  <2>5. \A r \in receipts : r.guard /\ ~r.exact /\ ~r.ack => Cleared(r.key, r.id)
    BY DEF ClearInv
  <2> QED
    BY <2>1, <2>4, <2>5 DEF ClearInv, Cleared
<1>5. ASSUME NEW p \in Proc, Stamp(p) PROVE ClearInv'
  <2> DEFINE S(r) == IF r.id = call[p].receipt THEN Stamped(p, r) ELSE r
  <2>1. /\ receipts' = {S(r) : r \in receipts} /\ outcomes' = outcomes /\ now' = now
        /\ pc[p] = "judged" /\ pc' = [pc EXCEPT ![p] = "idle"]
        /\ \A q \in Proc \ {p} : call'[q] = call[q]
    BY <1>5 DEF Stamp, Return
  <2>2. \A r \in receipts : S(r).id = r.id /\ S(r).key = r.key
    BY DEF Stamped, Receipt
  <2>3. \A r \in receipts : r.id # call[p].receipt => S(r) = r
    OBVIOUS
  <2>4. ASSUME NEW r \in receipts, r.id = call[p].receipt
        PROVE  /\ S(r).exact = call[p].exact /\ S(r).ack = call[p].ack
               /\ r.key = call[p].key
    <3>1. S(r) = Stamped(p, r)
      BY <2>4
    <3>2. Stamped(p, r).exact = call[p].exact
      BY DEF Stamped, Receipt
    <3>3. Stamped(p, r).ack = call[p].ack
      BY DEF Stamped, Receipt
    <3>4. r.key = call[p].key
      BY <2>1, <2>4 DEF CallInv, Checking
    <3> QED
      BY <3>1, <3>2, <3>3, <3>4
  <2> HIDE DEF S
  <2>5. \A r \in receipts : S(r).guard /\ ~S(r).exact /\ ~S(r).ack => Cleared(S(r).key, S(r).id)
    BY <2>1, <2>2, <2>3, <2>4 DEF ClearInv
  <2>6. \A q \in Proc : pc'[q] = "judged" /\ ~call'[q].exact /\ ~call'[q].ack =>
            Cleared(call'[q].key, call'[q].receipt)
    BY <2>1 DEF ClearInv
  <2> QED
    BY <2>1, <2>5, <2>6 DEF ClearInv, Cleared
<1>6. ASSUME NEW p \in Proc, NEW a \in Action, NEW ack \in BOOLEAN, NEW d \in Advice,
             Before(p, a, ack, d)
      PROVE  ClearInv'
  <2> DEFINE r == [id |-> nextId, key |-> a, at |-> now, guard |-> FALSE,
                   decision |-> d, exact |-> FALSE, ack |-> FALSE]
  <2>1. /\ receipts' = receipts \cup {r} /\ pc' = [pc EXCEPT ![p] = "receipted"]
        /\ \A q \in Proc \ {p} : call'[q] = call[q]
    BY <1>6 DEF Before
  <2>2. ~r.guard
    OBVIOUS
  <2> HIDE DEF r
  <2> QED
    BY <1>3, <2>1, <2>2
<1>7. ASSUME NEW p \in Proc, NEW r \in receipts, NEW o \in Outcome, NEW v \in BOOLEAN,
             After(p, r, o, v)
      PROVE  ClearInv'
  BY <1>3, <1>7 DEF After, Accept
<1>8. ASSUME NEW p \in Proc, Record(p) \/ Crash(p) PROVE ClearInv'
  BY <1>3, <1>8 DEF Record, Insert, Crash, Return
<1>9. ASSUME NEW p \in Proc, NEW a \in Action, NEW o \in Outcome, Observe(p, a, o)
      PROVE  ClearInv'
  BY <1>3, <1>9 DEF Observe, Insert
<1>10. CASE Tick
  BY <1>3, <1>10 DEF Tick
<1>11. ASSUME NEW n \in 1..MaxRows, Prune(n) PROVE ClearInv'
  BY <1>3, <1>11 DEF Prune
<1>12. ASSUME NEW r \in receipts, Rescope(r) PROVE ClearInv'
  <2>1. PICK s \in Receipt : /\ receipts' = (receipts \ {r}) \cup {s}
                             /\ s.id = r.id /\ s.key = r.key
    BY <1>12, Rescoped
  <2>2. /\ r.guard /\ ~r.exact /\ ~r.ack
        /\ outcomes' = outcomes /\ now' = now /\ pc' = pc /\ call' = call
    BY <1>12, Rescoped
  <2> QED
    BY <2>1, <2>2 DEF ClearInv, Cleared
<1>13. CASE UNCHANGED vars
  BY <1>3, <1>13 DEF vars
<1> QED
  BY <1>4, <1>5, <1>6, <1>7, <1>8, <1>9, <1>10, <1>11, <1>12, <1>13 DEF Next

(* A success is inserted over what its check saw of the failures.          *)
LEMMA RecoveryKept ==
    ASSUME TypeOK, TypeOK', LogInv, CallInv, ReceiptInv, ClearInv,
           RecoveryIsAcknowledged, [Next]_vars
    PROVE  RecoveryIsAcknowledged'
<1> USE ParamsAssumption DEF TypeOK, Goto
<1>1. ASSUME outcomes' = outcomes, receipts' \subseteq receipts PROVE RecoveryIsAcknowledged'
  BY <1>1 DEF RecoveryIsAcknowledged
<1>2. /\ \A x \in receipts : 0 < x.id /\ x.id < nextId /\ x.id \in Nat
      /\ \A x \in outcomes : x.id < nextId /\ x.id \in Nat /\ x.at \in Nat
      /\ \A x \in outcomes : x.receipt # nextId
  BY DEF LogInv, Rows, ReceiptInv, Observed
<1>3. ASSUME NEW p \in Proc, NEW a \in Action, NEW ack \in BOOLEAN, NEW d \in Advice,
             Before(p, a, ack, d)
      PROVE  RecoveryIsAcknowledged'
  <2> DEFINE x == [id |-> nextId, key |-> a, at |-> now, guard |-> FALSE,
                   decision |-> d, exact |-> FALSE, ack |-> FALSE]
  <2>1. receipts' = receipts \cup {x} /\ outcomes' = outcomes
    BY <1>3 DEF Before
  <2>2. x.id = nextId
    OBVIOUS
  <2> HIDE DEF x
  <2> QED
    BY <1>2, <2>1, <2>2 DEF RecoveryIsAcknowledged
<1>4. ASSUME NEW p \in Proc, Stamp(p) PROVE RecoveryIsAcknowledged'
  <2> DEFINE S(r) == IF r.id = call[p].receipt THEN Stamped(p, r) ELSE r
  <2>1. receipts' = {S(r) : r \in receipts} /\ outcomes' = outcomes /\ pc[p] = "judged"
    BY <1>4 DEF Stamp
  <2>2. \A r \in receipts : S(r).id = r.id
    BY DEF Stamped, Receipt
  <2>3. \A r \in receipts : r.id # call[p].receipt => S(r) = r
    OBVIOUS
  <2>4. \A r \in receipts, s \in outcomes : s.receipt = r.id => r.id # call[p].receipt
    BY <2>1 DEF CallInv, Checking, ReceiptInv
  <2> HIDE DEF S
  <2>5. \A r \in receipts, s \in outcomes : s.receipt = S(r).id => S(r) = r
    BY <2>2, <2>3, <2>4
  <2> QED
    BY <2>1, <2>2, <2>5 DEF RecoveryIsAcknowledged
<1>5. ASSUME NEW p \in Proc, Record(p) PROVE RecoveryIsAcknowledged'
  <2> DEFINE q == [id |-> nextId, key |-> call[p].key, at |-> now,
                   outcome |-> call[p].outcome, receipt |-> call[p].receipt]
  <2>1. receipts' = receipts /\ outcomes' = outcomes \cup {q} /\ now' = now /\ pc[p] = "checked"
    BY <1>5 DEF Record, Insert
  <2>2. /\ q.id = nextId /\ q.at = now /\ q.key = call[p].key
        /\ q.outcome = call[p].outcome /\ q.receipt = call[p].receipt
    OBVIOUS
  <2> HIDE DEF q
  <2>3. ASSUME NEW r \in receipts, NEW f \in outcomes, q.receipt = r.id, q.outcome = "succeeded",
               f.key = q.key, f.outcome = "failed", f.id < r.id,
               Window = 0 \/ f.at >= q.at - Window, ~r.ack
        PROVE  \E g \in outcomes : /\ g.key = q.key /\ g.outcome = "succeeded"
                                   /\ f.id < g.id /\ g.id < q.id
    <3>1. r.guard /\ ~r.exact /\ r.key = q.key
      BY <2>1, <2>2, <2>3 DEF CallInv
    <3>2. Cleared(r.key, r.id)
      BY <2>3, <3>1 DEF ClearInv
    <3>3. ~(Window # 0 /\ f.at < now - Window)
      BY <1>2, <2>2, <2>3
    <3> QED
      BY <1>2, <2>2, <2>3, <3>1, <3>2, <3>3 DEF Cleared
  <2>4. ASSUME NEW s \in outcomes', NEW f \in outcomes', NEW r \in receipts',
               s.receipt = r.id, s.outcome = "succeeded", f.key = s.key, f.outcome = "failed",
               f.id < r.id, Window = 0 \/ f.at >= s.at - Window, ~r.ack
        PROVE  \E g \in outcomes' : /\ g.key = s.key /\ g.outcome = "succeeded"
                                    /\ f.id < g.id /\ g.id < s.id
    <3>1. r \in receipts /\ f \in outcomes
      BY <1>2, <2>1, <2>2, <2>4
    <3>2. CASE s = q
      BY <2>1, <2>3, <2>4, <3>1, <3>2
    <3>3. CASE s \in outcomes
      BY <2>1, <2>4, <3>1, <3>3 DEF RecoveryIsAcknowledged
    <3> QED
      BY <2>1, <3>2, <3>3
  <2> QED
    BY <2>4 DEF RecoveryIsAcknowledged
<1>6. ASSUME NEW p \in Proc, NEW a \in Action, NEW o \in Outcome, Observe(p, a, o)
      PROVE  RecoveryIsAcknowledged'
  <2> DEFINE q == [id |-> nextId, key |-> a, at |-> now, outcome |-> o, receipt |-> 0]
  <2>1. receipts' = receipts /\ outcomes' = outcomes \cup {q} /\ now' = now
    BY <1>6 DEF Observe, Insert
  <2>2. q.id = nextId /\ q.receipt = 0
    OBVIOUS
  <2> HIDE DEF q
  <2> QED
    BY <1>2, <2>1, <2>2 DEF RecoveryIsAcknowledged
<1>7. ASSUME NEW n \in 1..MaxRows, Prune(n) PROVE RecoveryIsAcknowledged'
  BY <1>2, <1>7 DEF Prune, RecoveryIsAcknowledged
<1>8. ASSUME NEW r \in receipts, Rescope(r) PROVE RecoveryIsAcknowledged'
  <2>1. PICK s \in Receipt : receipts' = (receipts \ {r}) \cup {s} /\ s.id = r.id /\ ~s.ack
    BY <1>8, Rescoped
  <2>2. ~r.ack /\ outcomes' = outcomes
    BY <1>8, Rescoped
  <2> QED
    BY <2>1, <2>2 DEF RecoveryIsAcknowledged
<1> QED
  BY <1>1, <1>3, <1>4, <1>5, <1>6, <1>7, <1>8
     DEF Next, Judge, After, Accept, Crash, Tick, vars

-----------------------------------------------------------------------------
(* The inductive invariant.                                                *)
THEOREM Invariance == Spec => []IInv
<1>1. Init => LogInv /\ CallInv /\ ReceiptInv /\ ClearInv /\ RecoveryIsAcknowledged
  BY DEF Init, LogInv, Rows, CallInv, Checking, ReceiptInv, ClearInv, RecoveryIsAcknowledged
<1>2. TypeOK /\ TypeOK' /\ IInv /\ [Next]_vars => IInv'
  BY LogKept, OwnershipKept, ClearKept, RecoveryKept DEF IInv
<1>3. TypeOK /\ LogInv /\ CallInv /\ ReceiptInv /\ ClearInv /\ RecoveryIsAcknowledged <=> IInv
  BY DEF IInv
<1> QED
  BY <1>1, <1>2, <1>3, TypeCorrect, PTL DEF Spec

(* No success is ever recorded over an exact-repeat block.                 *)
THEOREM ExactBlockStands == Spec => []NoSuccessOverExactBlock
<1>1. IInv => NoSuccessOverExactBlock
  BY DEF IInv, ReceiptInv, NoSuccessOverExactBlock
<1> QED
  BY <1>1, Invariance, PTL

(* No receipted success clears a failure nobody acknowledged.              *)
THEOREM RecoveryNeedsAcknowledgement == Spec => []RecoveryIsAcknowledged
<1>1. IInv => RecoveryIsAcknowledged
  BY DEF IInv
<1> QED
  BY <1>1, Invariance, PTL

(* An action only becomes blocked by the report of its failure.            *)
THEOREM FailuresStayCleared == Spec => OnlyFailureBlocks
<1>1. ASSUME TypeOK, TypeOK', LogInv, [Next]_vars, NEW a \in Action,
             Failures(a) = {}, Failures(a)' # {}
      PROVE  \E f \in outcomes' \ outcomes : f.key = a /\ f.outcome = "failed"
  <2>1. PICK f \in outcomes' : f.key = a /\ f.outcome = "failed" /\ InWindow(f)' /\
                               \A s \in Successes(a)' : s.id < f.id
    BY <1>1 DEF Failures, History
  <2>2. SUFFICES ASSUME f \in outcomes PROVE FALSE
    BY <2>1
  <2>3. f.id \in Nat /\ f.at \in Nat /\ now \in Nat /\ now' \in Nat /\ now <= now'
    BY <2>2, ParamsAssumption, OutcomeSteps, <1>1
       DEF TypeOK, Observed, Unchanged, Appended, Pruned
  <2>4. f \in History(a)
    BY <2>1, <2>2, <2>3, ParamsAssumption DEF History, InWindow
  <2>5. PICK s \in Successes(a) : ~(s.id < f.id)
    BY <1>1, <2>1, <2>4 DEF Failures
  <2>6. s \in outcomes /\ s.key = a /\ s.outcome = "succeeded"
    BY <2>5 DEF Successes, History
  <2>7. s.id \in Nat /\ s.at \in Nat /\ f.id < s.id /\ f.at <= s.at
    BY <1>1, <2>1, <2>2, <2>3, <2>5, <2>6 DEF LogInv, Rows
  <2>8. s \in outcomes'
    BY <1>1, <2>1, <2>3, <2>6, <2>7, OutcomeSteps DEF Unchanged, Appended, Pruned
  <2>9. InWindow(s)'
    BY <2>1, <2>3, <2>7, ParamsAssumption DEF InWindow
  <2>10. s \in Successes(a)'
    BY <2>6, <2>8, <2>9 DEF Successes, History
  <2> QED
    BY <2>1, <2>3, <2>7, <2>10
<1>2. IInv /\ IInv' /\ [Next]_vars =>
        [\A a \in Action : Failures(a) = {} /\ Failures(a)' # {} =>
            \E f \in outcomes' \ outcomes : f.key = a /\ f.outcome = "failed"]_vars
  BY <1>1 DEF IInv
<1> QED
  BY <1>2, Invariance, PTL DEF Spec, OnlyFailureBlocks
-----------------------------------------------------------------------------
(* The uses and the retry intent have their types.                         *)
UseOK == use \in [Proc -> Use] /\ intent \in Nat /\ prompts \in Nat

(* A step of the composition is a step of the Guard, or not one of its.    *)
LEMMA GuardSteps ==
    ASSUME UseOK, [HookNext]_allVars
    PROVE  [Next]_vars
<1> USE DEF UseOK, Use
<1>1. ASSUME NEW yes \in BOOLEAN, Prompt(yes) PROVE [Next]_vars
  BY <1>1 DEF Prompt
<1>2. ASSUME NEW u \in Proc, NEW a \in Action, NEW direct \in BOOLEAN, NEW stale \in BOOLEAN,
             ReadIntent(u, a, direct, stale)
      PROVE  [Next]_vars
  BY <1>2 DEF ReadIntent
<1>3. ASSUME NEW u \in Proc, NEW d \in Advice, AskGuard(u, d) PROVE [Next]_vars
  BY <1>3 DEF AskGuard, Next
<1>4. ASSUME NEW u \in Proc, NEW d \in Decision, GuardJudges(u, d) PROVE [Next]_vars
  BY <1>4 DEF GuardJudges, Next
<1>5. ASSUME NEW u \in Proc, GuardAnswers(u) PROVE [Next]_vars
  BY <1>5 DEF GuardAnswers, Next
<1>6. ASSUME NEW u \in Proc, Consume(u) \/ Answer(u) \/ NextUse(u) PROVE [Next]_vars
  BY <1>6 DEF Consume, Answer, NextUse
<1>7. ASSUME NEW u \in Proc, NEW relax \in BOOLEAN, Correlate(u, relax) PROVE [Next]_vars
  BY <1>7 DEF Correlate, Next
<1>8. ASSUME NEW u \in Proc, FailOpen(u) \/ LoseReport(u) PROVE [Next]_vars
  BY <1>8 DEF FailOpen, LoseReport, Next
<1>9. ASSUME NEW u \in Proc, NEW o \in {"succeeded", "failed"}, RunTool(u, o)
      PROVE  [Next]_vars
  BY <1>9 DEF RunTool
<1>10. ASSUME NEW u \in Proc, Report(u) PROVE [Next]_vars
  BY <1>10 DEF Report, OwnReceipt, Next
<1>11. ASSUME NEW u \in Proc, RecordReport(u) PROVE [Next]_vars
  BY <1>11 DEF RecordReport, Next
<1>12. ASSUME NEW u \in Proc, ReportLoose(u) PROVE [Next]_vars
  BY <1>12 DEF ReportLoose, Next
<1>13. CASE Housekeep
  BY <1>13 DEF Housekeep, Next
<1>14. CASE UNCHANGED allVars
  BY <1>14 DEF allVars
<1> QED
  BY <1>1, <1>2, <1>3, <1>4, <1>5, <1>6, <1>7, <1>8, <1>9, <1>10, <1>11, <1>12, <1>13, <1>14
     DEF HookNext

(* One use changes at a time, to a value of its type.                      *)
LEMMA UseKept ==
    ASSUME TypeOK, UseOK, [HookNext]_allVars
    PROVE  UseOK'
<1>1. ASSUME NEW u \in Proc, NEW x \in Use, use' = [use EXCEPT ![u] = x],
             intent' \in Nat, prompts' = prompts
      PROVE  UseOK'
  BY <1>1 DEF UseOK
<1>2. intent \in Nat /\ prompts \in Nat /\ Stage # {} /\ Decision # {} /\ Outcome # {}
  BY DEF UseOK, Stage, Decision, Outcome
<1>3. ASSUME NEW u \in Proc
      PROVE  /\ use[u] \in Use /\ call[u] \in Call
             /\ use[u].key \in Action /\ use[u].token \in Nat /\ use[u].receipt \in Nat
             /\ use[u].linked \in BOOLEAN /\ use[u].retry \in BOOLEAN
             /\ use[u].decision \in Decision
             /\ call[u].receipt \in Nat /\ call[u].decision \in Decision
             /\ call[u].exact \in BOOLEAN /\ call[u].ack \in BOOLEAN
  BY DEF UseOK, TypeOK, Use, Call
<1>4. ASSUME NEW yes \in BOOLEAN, Prompt(yes) PROVE UseOK'
  BY <1>2, <1>4 DEF Prompt, UseOK
<1>5. ASSUME NEW u \in Proc, NEW a \in Action, NEW direct \in BOOLEAN, NEW stale \in BOOLEAN,
             ReadIntent(u, a, direct, stale)
      PROVE  UseOK'
  <2> DEFINE token == IF direct \/ stale THEN 0 ELSE intent
             ack == direct \/ token # 0
             x == [use[u] EXCEPT !.stage = "asking", !.key = a, !.token = token,
                                 !.ack = ack]
  <2>1. token \in Nat /\ ack \in BOOLEAN /\ intent' \in Nat /\ prompts' = prompts
    BY <1>2, <1>5 DEF ReadIntent
  <2>2. use' = [use EXCEPT ![u] = x]
    BY <1>5 DEF ReadIntent
  <2> HIDE DEF token, ack
  <2>3. x \in Use
    BY <1>3, <2>1 DEF Use, Stage
  <2> HIDE DEF x
  <2> QED
    BY <1>1, <2>1, <2>2, <2>3
<1>6. ASSUME NEW u \in Proc, NEW stage \in Stage, use' = [use EXCEPT ![u].stage = stage],
             intent' \in Nat, prompts' = prompts
      PROVE  UseOK'
  <2> DEFINE x == [use[u] EXCEPT !.stage = stage]
  <2>1. x \in Use
    BY <1>3 DEF Use
  <2>2. use' = [use EXCEPT ![u] = x]
    BY <1>6
  <2> HIDE DEF x
  <2> QED
    BY <1>1, <1>6, <2>1, <2>2
<1>7. ASSUME NEW u \in Proc, NEW d \in Advice, AskGuard(u, d) PROVE UseOK'
  BY <1>2, <1>6, <1>7 DEF AskGuard, Stage
<1>8. ASSUME NEW u \in Proc, NEW d \in Decision, GuardJudges(u, d) PROVE UseOK'
  BY <1>8 DEF GuardJudges, hookVars, UseOK
<1>9. ASSUME NEW u \in Proc, GuardAnswers(u) PROVE UseOK'
  <2> DEFINE x == [use[u] EXCEPT !.stage = "stamped", !.receipt = call[u].receipt,
                                 !.decision = call[u].decision, !.exact = call[u].exact,
                                 !.retry = call[u].ack]
  <2>1. x \in Use
    BY <1>3 DEF Use, Stage
  <2>2. use' = [use EXCEPT ![u] = x] /\ intent' = intent /\ prompts' = prompts
    BY <1>9 DEF GuardAnswers
  <2> HIDE DEF x
  <2> QED
    BY <1>1, <1>2, <2>1, <2>2
<1>10. ASSUME NEW u \in Proc, Consume(u) PROVE UseOK'
  BY <1>2, <1>6, <1>10 DEF Consume, Stage
<1>11. ASSUME NEW u \in Proc, NEW relax \in BOOLEAN, Correlate(u, relax) PROVE UseOK'
  <2> DEFINE d == IF relax THEN "go" ELSE use[u].decision
             x == [use[u] EXCEPT !.stage = "correlated", !.linked = TRUE, !.decision = d]
  <2>1. d \in Decision
    BY <1>3 DEF Decision
  <2>2. use' = [use EXCEPT ![u] = x] /\ intent' = intent /\ prompts' = prompts
    BY <1>11 DEF Correlate
  <2> HIDE DEF d
  <2>3. x \in Use
    BY <1>3, <2>1 DEF Use, Stage
  <2> HIDE DEF x
  <2> QED
    BY <1>1, <1>2, <2>2, <2>3
<1>12. ASSUME NEW u \in Proc PROVE NewUse(use[u].key) \in Use
  BY <1>3 DEF NewUse, Use, Stage, Decision, Outcome
<1>13. ASSUME NEW u \in Proc, Answer(u) PROVE UseOK'
  <2> DEFINE passed == use[u].decision # "block"
             stage == IF passed THEN "allowed" ELSE "denied"
             v == NewUse(use[u].key)
             x == [v EXCEPT !.stage = stage, !.passed = passed, !.token = use[u].token,
                            !.retry = use[u].retry, !.receipt = use[u].receipt,
                            !.linked = TRUE]
  <2>1. passed \in BOOLEAN /\ stage \in Stage /\ v \in Use
    BY <1>12 DEF Stage
  <2>2. use' = [use EXCEPT ![u] = x] /\ intent' = intent /\ prompts' = prompts
    BY <1>13 DEF Answer
  <2> HIDE DEF passed, stage, v
  <2>3. x \in Use
    BY <1>3, <2>1 DEF Use
  <2> HIDE DEF x
  <2> QED
    BY <1>1, <1>2, <2>2, <2>3
<1>14. ASSUME NEW u \in Proc, FailOpen(u) PROVE UseOK'
  <2> DEFINE v == NewUse(use[u].key)
             x == [v EXCEPT !.stage = "open", !.receipt = use[u].receipt,
                            !.linked = use[u].linked]
  <2>1. use' = [use EXCEPT ![u] = x] /\ intent' = intent /\ prompts' = prompts
    BY <1>14 DEF FailOpen
  <2>2. v \in Use
    BY <1>12
  <2> HIDE DEF v
  <2>3. x \in Use
    BY <1>3, <2>2 DEF Use, Stage
  <2> HIDE DEF x
  <2> QED
    BY <1>1, <1>2, <2>1, <2>3
<1>15. ASSUME NEW u \in Proc, NEW stage \in Stage, NEW o \in Outcome,
              use' = [use EXCEPT ![u] = [@ EXCEPT !.stage = stage, !.result = o]],
              intent' = intent, prompts' = prompts
       PROVE  UseOK'
  <2> DEFINE x == [use[u] EXCEPT !.stage = stage, !.result = o]
  <2>1. x \in Use
    BY <1>3 DEF Use
  <2>2. use' = [use EXCEPT ![u] = x]
    BY <1>15
  <2> HIDE DEF x
  <2> QED
    BY <1>1, <1>2, <1>15, <2>1, <2>2
<1>16. ASSUME NEW u \in Proc, NEW o \in {"succeeded", "failed"}, RunTool(u, o) PROVE UseOK'
  BY <1>15, <1>16 DEF RunTool, Stage, Outcome
<1>17. ASSUME NEW u \in Proc, Report(u) PROVE UseOK'
  BY <1>2, <1>6, <1>17 DEF Report, Stage
<1>18. ASSUME NEW u \in Proc, RecordReport(u) \/ ReportLoose(u) \/ LoseReport(u) PROVE UseOK'
  BY <1>15, <1>18 DEF RecordReport, ReportLoose, LoseReport, Over, Stage, Outcome
<1>19. ASSUME NEW u \in Proc, NextUse(u) PROVE UseOK'
  BY <1>1, <1>2, <1>12, <1>19 DEF NextUse
<1>20. CASE Housekeep \/ UNCHANGED allVars
  BY <1>20 DEF Housekeep, allVars, hookVars, UseOK
<1> QED
  BY <1>4, <1>5, <1>7, <1>8, <1>9, <1>10, <1>11, <1>13, <1>14, <1>16, <1>17, <1>18, <1>19, <1>20
     DEF HookNext

(* The composition keeps its type.                                         *)
THEOREM HookTypeCorrect == HookSpec => []HookTypeOK
<1>1. HookInit => TypeOK /\ UseOK
  BY DEF HookInit, Init, TypeOK, NoCall, Step, Call, Decision, Outcome, UseOK, NewUse, Use, Stage
<1>2. TypeOK /\ UseOK /\ [HookNext]_allVars => TypeOK' /\ UseOK'
  BY GuardSteps, UseKept, TypeKept
<1>3. TypeOK /\ UseOK <=> HookTypeOK
  BY DEF UseOK, HookTypeOK
<1> QED
  BY <1>1, <1>2, <1>3, PTL DEF HookSpec

(* The composition implements the Guard.                                   *)
THEOREM HookImplementsGuard == HookSpec => GuardSpec
<1>1. HookInit => Init
  BY DEF HookInit
<1>2. HookTypeOK /\ [HookNext]_allVars => [Next]_vars
  BY GuardSteps DEF HookTypeOK, UseOK
<1> QED
  BY <1>1, <1>2, HookTypeCorrect, PTL DEF HookSpec, GuardSpec, Spec

(* What holds of the Guard holds of the tool uses: no success of a tool    *)
(* use is recorded over a receipt that an exact repeat blocked.            *)
THEOREM HookExactBlockStands == HookSpec => []NoSuccessOverExactBlock
  BY HookImplementsGuard, ExactBlockStands, PTL DEF GuardSpec

-----------------------------------------------------------------------------
(* What a hook knows of the check it asked for: while the Guard works on   *)
(* it, that it is about the action of the use; from the answer on, that an *)
(* exact repeat is blocked, and that a check which neither blocked nor     *)
(* acknowledged a failure left none before its receipt uncleared.          *)
Knows(u) ==
    LET x == use[u]
    IN  /\ x.receipt <= nextId
        /\ x.stage = "checking" => call[u].key = x.key
        /\ x.stage \in {"stamped", "consumed", "correlated"} =>
              /\ x.exact => x.decision = "block"
              /\ ~x.exact /\ ~x.retry => Cleared(x.key, x.receipt)
        /\ x.passed => x.stage \in {"allowed", "ran", "reporting", "over"}
        /\ x.passed /\ ~x.retry => Cleared(x.key, x.receipt)

CheckInv == \A u \in Proc : Knows(u)

(* Ids only grow.                                                          *)
LEMMA IdsGrow ==
    ASSUME TypeOK, [Next]_vars
    PROVE  nextId' \in Nat /\ nextId <= nextId'
<1> USE DEF TypeOK
<1>1. ASSUME NEW p \in Proc, NEW a \in Action, NEW ack \in BOOLEAN, NEW d \in Advice,
             Before(p, a, ack, d)
      PROVE  nextId' = nextId + 1
  BY <1>1 DEF Before
<1>2. ASSUME NEW p \in Proc, NEW d \in Decision, Judge(p, d) PROVE nextId' = nextId
  BY <1>2 DEF Judge
<1>3. ASSUME NEW p \in Proc, Stamp(p) \/ Crash(p) PROVE nextId' = nextId
  BY <1>3 DEF Stamp, Crash
<1>4. ASSUME NEW p \in Proc, NEW r \in receipts, NEW o \in Outcome, NEW v \in BOOLEAN,
             After(p, r, o, v)
      PROVE  nextId' = nextId
  BY <1>4 DEF After, Accept
<1>5. ASSUME NEW p \in Proc, Record(p) PROVE nextId' = nextId + 1
  BY <1>5 DEF Record, Insert
<1>6. ASSUME NEW p \in Proc, NEW a \in Action, NEW o \in Outcome, Observe(p, a, o)
      PROVE  nextId' = nextId + 1
  BY <1>6 DEF Observe, Insert
<1>7. ASSUME NEW r \in receipts, Rescope(r) PROVE nextId' = nextId
  BY <1>7 DEF Rescope
<1>8. ASSUME Tick \/ (\E n \in 1..MaxRows : Prune(n)) \/ UNCHANGED vars PROVE nextId' = nextId
  BY <1>8 DEF Tick, Prune, vars
<1>9. nextId' = nextId \/ nextId' = nextId + 1
  BY <1>1, <1>2, <1>3, <1>4, <1>5, <1>6, <1>7, <1>8 DEF Next
<1> QED
  BY <1>9

LEMMA CheckKept ==
    ASSUME IInv, HookTypeOK, CheckInv, [HookNext]_allVars, [Next]_vars, TypeOK', UseOK'
    PROVE  CheckInv'
<1>1. /\ TypeOK /\ LogInv /\ CallInv /\ ClearInv
      /\ nextId \in Nat /\ nextId' \in Nat /\ nextId <= nextId'
  BY IdsGrow DEF IInv, TypeOK
<1>2. ASSUME NEW a \in Action, NEW n \in Nat, n <= nextId, Cleared(a, n) PROVE Cleared(a, n)'
  BY <1>1, <1>2, ClearedKept
<1>3. ASSUME NEW u \in Proc
      PROVE  use[u] \in Use /\ use[u].key \in Action /\ use[u].receipt \in Nat /\ Knows(u)
  BY DEF HookTypeOK, Use, CheckInv
<1>4. ASSUME NEW u \in Proc, use'[u] = use[u], call'[u].key = call[u].key PROVE Knows(u)'
  BY <1>1, <1>2, <1>3, <1>4 DEF Knows
<1>5. ASSUME NEW u \in Proc, \A v \in Proc : v # u => use'[v] = use[v],
             \A v \in Proc : v # u => call'[v].key = call[v].key, Knows(u)'
      PROVE  CheckInv'
  BY <1>4, <1>5 DEF CheckInv
<1>6. ASSUME use' = use, call' = call PROVE CheckInv'
  BY <1>4, <1>6 DEF CheckInv
<1>7. ASSUME NEW yes \in BOOLEAN, Prompt(yes) PROVE CheckInv'
  BY <1>6, <1>7 DEF Prompt, vars
<1> USE DEF HookTypeOK
<1>8. ASSUME NEW u \in Proc, NEW a \in Action, NEW direct \in BOOLEAN, NEW stale \in BOOLEAN,
             ReadIntent(u, a, direct, stale)
      PROVE  CheckInv'
  <2>1. /\ use[u].stage = "new" /\ ~use[u].passed /\ use[u].receipt <= nextId
        /\ use'[u].stage = "asking" /\ use'[u].passed = use[u].passed
        /\ use'[u].receipt = use[u].receipt
    BY <1>3, <1>8 DEF ReadIntent, Use, Knows
  <2>2. Knows(u)'
    BY <1>8, <2>1 DEF ReadIntent, vars, Knows
  <2> QED
    BY <1>5, <1>8, <2>2 DEF ReadIntent, vars
<1>9. ASSUME NEW u \in Proc, NEW d \in Advice, AskGuard(u, d) PROVE CheckInv'
  <2>1. /\ use[u].stage = "asking" /\ ~use[u].passed /\ use[u].receipt <= nextId
        /\ use'[u] = [use[u] EXCEPT !.stage = "checking"]
        /\ call'[u].key = use[u].key
        /\ \A v \in Proc : v # u => use'[v] = use[v] /\ call'[v] = call[v]
    BY <1>1, <1>3, <1>9 DEF AskGuard, Before, TypeOK, Call, Knows
  <2>2. Knows(u)'
    BY <1>1, <1>3, <2>1 DEF Knows, Use
  <2> QED
    BY <1>5, <2>1, <2>2
<1>10. ASSUME NEW u \in Proc, NEW d \in Decision, GuardJudges(u, d) PROVE CheckInv'
  <2>1. use' = use /\ \A v \in Proc : call'[v].key = call[v].key
    BY <1>1, <1>10 DEF GuardJudges, Judge, hookVars, TypeOK, Call
  <2> QED
    BY <1>4, <2>1 DEF CheckInv
<1>11. ASSUME NEW u \in Proc, GuardAnswers(u) PROVE CheckInv'
  <2>1. /\ pc[u] = "judged" /\ call[u].key = use[u].key /\ ~use[u].passed
        /\ use'[u] = [use[u] EXCEPT !.stage = "stamped", !.receipt = call[u].receipt,
                                    !.decision = call[u].decision, !.exact = call[u].exact,
                                    !.retry = call[u].ack]
        /\ \A v \in Proc : v # u => use'[v] = use[v] /\ call'[v] = call[v]
    BY <1>1, <1>3, <1>11 DEF GuardAnswers, Stamp, Return, TypeOK, Knows
  <2>2. /\ call[u].receipt \in Nat /\ call[u].receipt <= nextId
        /\ call[u].exact => call[u].decision = "block"
        /\ ~call[u].exact /\ ~call[u].ack => Cleared(call[u].key, call[u].receipt)
    BY <1>1, <2>1 DEF TypeOK, Call, CallInv, ClearInv
  <2>3. /\ use'[u].stage = "stamped" /\ use'[u].receipt = call[u].receipt
        /\ use'[u].decision = call[u].decision /\ use'[u].exact = call[u].exact
        /\ use'[u].retry = call[u].ack /\ use'[u].key = use[u].key
        /\ use'[u].passed = use[u].passed
    BY <1>3, <2>1 DEF Use
  <2>4. ~call[u].exact /\ ~call[u].ack => Cleared(use[u].key, use[u].receipt)'
    BY <1>2, <1>3, <2>1, <2>2, <2>3
  <2>5. Knows(u)'
    BY <1>1, <2>1, <2>2, <2>3, <2>4 DEF Knows
  <2> QED
    BY <1>5, <2>1, <2>5
(* A use that goes on with what it knows.                                  *)
<1>12. ASSUME NEW u \in Proc,
              use[u].stage \in {"stamped", "consumed", "allowed", "open", "ran", "reporting"},
              use'[u].stage \in {"consumed", "ran", "reporting", "over"},
              use'[u].stage = "consumed" => use[u].stage = "stamped",
              use[u].stage = "stamped" => use'[u].stage = "consumed",
              use'[u].key = use[u].key, use'[u].receipt = use[u].receipt,
              use'[u].exact = use[u].exact, use'[u].decision = use[u].decision,
              use'[u].retry = use[u].retry, use'[u].passed = use[u].passed
       PROVE  Knows(u)'
  BY <1>1, <1>2, <1>3, <1>12 DEF Knows
<1>13. ASSUME NEW u \in Proc, Consume(u) PROVE CheckInv'
  <2>1. Knows(u)'
    BY <1>3, <1>12, <1>13 DEF Consume, Use
  <2> QED
    BY <1>5, <1>13, <2>1 DEF Consume, vars
<1>14. ASSUME NEW u \in Proc, NEW relax \in BOOLEAN, Correlate(u, relax) PROVE CheckInv'
  <2>1. /\ call' = call /\ use[u].stage = "consumed" /\ use'[u].stage = "correlated"
        /\ use'[u].key = use[u].key /\ use'[u].receipt = use[u].receipt
        /\ use'[u].exact = use[u].exact /\ use'[u].retry = use[u].retry
        /\ use'[u].passed = use[u].passed
        /\ use[u].exact => use'[u].decision = use[u].decision
        /\ \A v \in Proc : v # u => use'[v] = use[v]
    BY <1>3, <1>14 DEF Correlate, Rescope, vars, Use
  <2>2. Knows(u)'
    BY <1>1, <1>2, <1>3, <2>1 DEF Knows
  <2> QED
    BY <1>5, <2>1, <2>2
<1>15. ASSUME NEW u \in Proc, Answer(u) PROVE CheckInv'
  <2> DEFINE passed == use[u].decision # "block"
  <2>1. /\ call' = call /\ use[u].stage = "correlated"
        /\ use'[u].stage = IF passed THEN "allowed" ELSE "denied"
        /\ use'[u].passed = passed /\ use'[u].key = use[u].key
        /\ use'[u].retry = use[u].retry /\ use'[u].receipt = use[u].receipt
        /\ \A v \in Proc : v # u => use'[v] = use[v]
    BY <1>3, <1>15 DEF Answer, NewUse, vars
  <2>2. passed /\ ~use[u].retry => Cleared(use[u].key, use[u].receipt)'
    BY <1>2, <1>3, <2>1 DEF Knows, Use
  <2>3. use[u].receipt <= nextId' /\ passed \in BOOLEAN
    BY <1>1, <1>3 DEF Knows
  <2> HIDE DEF passed
  <2>4. Knows(u)'
    BY <2>1, <2>2, <2>3 DEF Knows
  <2> QED
    BY <1>5, <2>1, <2>4
<1>16. ASSUME NEW u \in Proc, pc[u] = "idle" => UNCHANGED vars, pc[u] # "idle" => Crash(u),
              NEW v \in Proc, v # u
       PROVE  call'[v].key = call[v].key
  BY <1>1, <1>16 DEF vars, Crash, Return, TypeOK
<1>17. ASSUME NEW u \in Proc, FailOpen(u) PROVE CheckInv'
  <2>1. /\ use'[u].stage = "open" /\ use'[u].passed = FALSE
        /\ use'[u].receipt = use[u].receipt
        /\ \A v \in Proc : v # u => use'[v] = use[v] /\ call'[v].key = call[v].key
    BY <1>3, <1>16, <1>17 DEF FailOpen, NewUse
  <2>2. Knows(u)'
    BY <1>1, <1>3, <2>1 DEF Knows
  <2> QED
    BY <1>5, <2>1, <2>2
<1>18. ASSUME NEW u \in Proc, NEW o \in {"succeeded", "failed"}, RunTool(u, o) PROVE CheckInv'
  <2>1. Knows(u)'
    BY <1>3, <1>12, <1>18 DEF RunTool, Use
  <2> QED
    BY <1>5, <1>18, <2>1 DEF RunTool, vars
<1>19. ASSUME NEW u \in Proc, Report(u) PROVE CheckInv'
  <2>1. Knows(u)'
    BY <1>3, <1>12, <1>19 DEF Report, Use
  <2>2. \A v \in Proc : v # u => call'[v] = call[v]
    BY <1>1, <1>19 DEF Report, After, Accept, TypeOK
  <2> QED
    BY <1>5, <1>19, <2>1, <2>2 DEF Report
<1>20. ASSUME NEW u \in Proc, RecordReport(u) \/ ReportLoose(u) \/ LoseReport(u)
       PROVE  CheckInv'
  <2>1. /\ use[u].stage \in {"ran", "reporting"}
        /\ use' = [use EXCEPT ![u] = [@ EXCEPT !.stage = "over", !.result = "unknown"]]
    BY <1>20 DEF RecordReport, ReportLoose, LoseReport, Over
  <2>2. Knows(u)'
    BY <1>3, <1>12, <2>1 DEF Use
  <2>3. \A v \in Proc : v # u => call'[v].key = call[v].key
    BY <1>1, <1>16, <1>20 DEF RecordReport, ReportLoose, LoseReport, Record, Observe, Return,
       TypeOK
  <2> QED
    BY <1>5, <2>1, <2>2, <2>3
<1>21. ASSUME NEW u \in Proc, NextUse(u) PROVE CheckInv'
  <2>1. use'[u] = NewUse(use[u].key)
    BY <1>3, <1>21 DEF NextUse
  <2>2. Knows(u)'
    BY <1>1, <2>1 DEF Knows, NewUse
  <2> QED
    BY <1>5, <1>21, <2>2 DEF NextUse, vars
<1>22. CASE Housekeep
  BY <1>6, <1>22 DEF Housekeep, Tick, Prune, hookVars
<1>23. CASE UNCHANGED allVars
  BY <1>6, <1>23 DEF allVars, hookVars, vars
<1> QED
  BY <1>7, <1>8, <1>9, <1>10, <1>11, <1>13, <1>14, <1>15, <1>17, <1>18, <1>19, <1>20, <1>21,
     <1>22, <1>23 DEF HookNext

(* No tool that its hook let pass without an acknowledgement is a blind    *)
(* repeat of a failure.                                                    *)
THEOREM NoUseIsBlind == HookSpec => []NoBlindRetry
<1>1. HookInit => CheckInv
  <2> SUFFICES ASSUME HookInit, NEW u \in Proc PROVE Knows(u)
    BY DEF CheckInv
  <2>1. PICK a \in Action : use[u] = NewUse(a)
    BY DEF HookInit
  <2> QED
    BY <2>1 DEF HookInit, Init, Knows, NewUse
<1>2. /\ IInv /\ HookTypeOK /\ HookTypeOK' /\ CheckInv /\ [HookNext]_allVars
      => CheckInv'
  BY GuardSteps, CheckKept DEF HookTypeOK, UseOK
<1>3. CheckInv => NoBlindRetry
  BY DEF CheckInv, Knows, NoBlindRetry
<1> QED
  BY <1>1, <1>2, <1>3, HookTypeCorrect, HookImplementsGuard, Invariance, PTL
     DEF HookSpec, GuardSpec
=============================================================================
