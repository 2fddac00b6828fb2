---------------------------- MODULE Memory_proofs ----------------------------
(***************************************************************************)
(* Proofs about the memory tables.  Store: the marks never claim a row     *)
(* that the index does not hold unless an opening wrote what it knew from  *)
(* before others dropped the tables, for any number of rows and processes, *)
(* however they overlap.  Recall and Preflight, for all memories, queries, *)
(* options and failures: an answer hides what it should, leaves nothing    *)
(* out without a reason and puts the words of the query first; and a       *)
(* must-follow rule that stands is seen.                                   *)
(***************************************************************************)
EXTENDS Store, Preflight, FiniteSetTheorems, TLAPS

NoTableNoIndex == table = None => index = {}

(* What a process is to copy was read from the table, and from one that was  *)
(* there.                                                                    *)
CopyKnown == \A p \in Process :
    /\ \A e \in scan[p].copy : row[e] # None
    /\ pc[p] = "copy" /\ table = None => scan[p].stale

(* What a process has read is still all that is missing from the index, and  *)
(* of the size of the table, unless the tables were dropped since.           *)
ScanCurrent == \A p \in Process : ~misled /\ ~scan[p].stale =>
    /\ pc[p] = "select"
         => \A e \in Live : e \in index \/ row[e].rowid > scan[p].from
    /\ pc[p] = "copy" /\ ~scan[p].misfit => Live \subseteq index \cup scan[p].copy
    /\ pc[p] = "mark" => Live \subseteq index
    /\ pc[p] = "copy" /\ table = Dim(p)
         => \A e \in scan[p].copy \cap Present : row[e].dim = Dim(p)

IInv ==
    /\ TypeOK
    /\ NoTableNoIndex /\ CopyKnown /\ ScanCurrent
    /\ NothingSkipped /\ IndexFitsTable
-----------------------------------------------------------------------------
LEMMA InitIInv == ASSUME Init PROVE IInv
<1> USE StoreConstants DEF Init, Process, Size, Opening, NoScan, Scan
<1>1. TypeOK
  <2>1. NoScan \in Scan
    OBVIOUS
  <2>2. pc \in [Process -> Opening \cup {"closed", "recreate", "open"}]
    OBVIOUS
  <2>3. scan \in [Process -> Scan]
    BY <2>1
  <2>4. row \in [Row -> Standing \cup {None, Gone}]
    OBVIOUS
  <2>5. table \in Size \cup {None} /\ dims \in Size
    OBVIOUS
  <2>6. mark \in Nat /\ kills \in 0..MaxKills
    OBVIOUS
  <2>7. index \in SUBSET Row /\ misled \in BOOLEAN
    OBVIOUS
  <2>8. pending \in [Process -> BOOLEAN] /\ reading \in [Process -> SUBSET SUBSET Row]
    OBVIOUS
  <2> QED
    BY <2>2, <2>3, <2>4, <2>5, <2>6, <2>7, <2>8 DEF TypeOK
<1>2. Present = {} /\ Live = {}
  BY DEF Present, Live
<1>3. NoTableNoIndex /\ CopyKnown /\ ScanCurrent
  BY <1>2 DEF NoTableNoIndex, CopyKnown, ScanCurrent
<1>4. NothingSkipped /\ IndexFitsTable
  BY <1>2 DEF NothingSkipped, UnindexedIsAboveMark, IndexFitsTable
<1> QED
  BY <1>1, <1>3, <1>4 DEF IInv

(* A row is a record, and so no other thing; what a row can become.          *)
LEMMA PresentRows ==
    ASSUME TypeOK
    PROVE  \A e \in Row : e \in Present <=> row[e] \in Standing
BY StoreConstants DEF TypeOK, Present

LEMMA PresentRowsNext ==
    ASSUME TypeOK'
    PROVE  \A e \in Row : e \in Present' <=> row'[e] \in Standing
BY StoreConstants DEF TypeOK, Present

(* Superseding a row leaves it what it was, but for its standing.            *)
LEMMA StaleRows ==
    ASSUME TypeOK, NEW s \in Present \cup {None}
    PROVE  /\ Superseding(s) \in [Row -> Standing \cup {None, Gone}]
           /\ \A f \in Row :
                /\ f \in Present => /\ Superseding(s)[f] \in Standing
                                    /\ Superseding(s)[f].dim = row[f].dim
                                    /\ Superseding(s)[f].rowid = row[f].rowid
                /\ f \notin Present => Superseding(s)[f] = row[f]
                /\ f \in Present /\ Superseding(s)[f].live => row[f].live
<1>1. row \in [Row -> Standing \cup {None, Gone}]
  BY DEF TypeOK
<1>2. CASE s = None
  BY <1>1, <1>2, PresentRows DEF Superseding
<1>3. CASE s # None
  <2>1. s \in Row /\ row[s] \in Standing /\ s \in Present
    BY <1>3, PresentRows DEF Present
  <2>2. /\ [row[s] EXCEPT !.live = FALSE] \in Standing
        /\ [row[s] EXCEPT !.live = FALSE].live = FALSE
        /\ [row[s] EXCEPT !.live = FALSE].dim = row[s].dim
        /\ [row[s] EXCEPT !.live = FALSE].rowid = row[s].rowid
    BY <2>1 DEF Standing
  <2>3. /\ Superseding(s) \in [Row -> Standing \cup {None, Gone}]
        /\ Superseding(s)[s] = [row[s] EXCEPT !.live = FALSE]
        /\ \A f \in Row \ {s} : Superseding(s)[f] = row[f]
    BY <1>1, <1>3, <2>1, <2>2 DEF Superseding
  <2> QED
    BY <2>1, <2>2, <2>3, PresentRows
<1> QED
  BY <1>2, <1>3
-----------------------------------------------------------------------------
(* What a process reads, and what it forgets, is of the type of a scan.      *)
LEMMA ScanTypes ==
    ASSUME TypeOK, NEW p \in Process
    PROVE  /\ NoScan \in Scan
           /\ [scan[p] EXCEPT !.stale = TRUE] \in Scan
           /\ [scan[p] EXCEPT !.copy = {}] \in Scan
           /\ [NoScan EXCEPT !.misfit = TRUE] \in Scan
           /\ \A top \in Nat : [NoScan EXCEPT !.from = mark, !.top = top] \in Scan
<1>1. NoScan \in Scan /\ scan[p] \in Scan /\ mark \in Nat
  BY DEF TypeOK, Scan, NoScan
<1>2. [scan[p] EXCEPT !.stale = TRUE] \in Scan /\ [scan[p] EXCEPT !.copy = {}] \in Scan
  BY <1>1 DEF Scan
<1>3. [NoScan EXCEPT !.misfit = TRUE] \in Scan
  BY <1>1 DEF Scan
<1>4. ASSUME NEW top \in Nat PROVE [NoScan EXCEPT !.from = mark, !.top = top] \in Scan
  BY <1>1 DEF Scan
<1> QED
  BY <1>1, <1>2, <1>3, <1>4

LEMMA DropType ==
    ASSUME TypeOK, NEW p \in Process, Drop(p)
    PROVE  /\ scan' \in [Process -> Scan]
           /\ table' \in Size \cup {None} /\ index' \in SUBSET Row /\ misled' \in BOOLEAN
BY ScanTypes DEF Drop, TypeOK

LEMMA LeaveType ==
    ASSUME TypeOK, NEW p \in Process, Exit(p)
    PROVE  /\ pc' \in [Process -> Opening \cup {"closed", "recreate", "open"}]
           /\ scan' \in [Process -> Scan]
           /\ pending' \in [Process -> BOOLEAN]
           /\ reading' \in [Process -> SUBSET SUBSET Row]
BY ScanTypes DEF Exit, Goto, TypeOK

LEMMA TypeNext == ASSUME TypeOK, [Next]_vars PROVE TypeOK'
<1> USE StoreConstants DEF TypeOK, Goto, store, Opening
<1>1. ASSUME NEW p \in Process PROVE Dim(p) \in Size /\ Missing(p) \in SUBSET Row
  BY DEF Dim, Size, Missing, Present
<1>2. Present \in SUBSET Row
  BY DEF Present
<1>3. Tops \in SUBSET Nat
  BY DEF Tops, Present, Standing
<1>4. ASSUME NEW p \in Process, UNCHANGED kills,
             Open(p) \/ Continue(p) \/ RecreateDrop(p) \/ ReembedRead(p)
      PROVE  TypeOK'
  <2>1. CASE Open(p)
    BY <1>4, <2>1 DEF Open
  <2>2. CASE DropTables(p)
    BY <1>4, <2>2, DropType DEF DropTables
  <2>3. CASE UpdateDimensions(p)
    BY <1>1, <1>4, <2>3 DEF UpdateDimensions
  <2>4. CASE CreateTables(p)
    <3>1. Created(p) \in Size
      BY <1>1 DEF Created
    <3>2. misled' \in BOOLEAN
      BY <2>4 DEF CreateTables, Scan
    <3> QED
      BY <1>4, <2>4, <3>1, <3>2 DEF CreateTables
  <2>5. CASE ReadMark(p)
    <3>1. scan' \in [Process -> Scan]
      <4>1. PICK top \in Tops :
              \/ scan' = [scan EXCEPT ![p] = NoScan]
              \/ scan' = [scan EXCEPT ![p] = [NoScan EXCEPT !.from = mark, !.top = top]]
        BY <2>5 DEF ReadMark
      <4> QED
        <5>1. NoScan \in Scan /\ [NoScan EXCEPT !.from = mark, !.top = top] \in Scan
          BY <1>3, ScanTypes
        <5> QED
          BY <4>1, <5>1
    <3>2. pc' \in [Process -> Opening \cup {"closed", "recreate", "open"}]
      BY <2>5 DEF ReadMark
    <3> QED
      BY <1>4, <2>5, <3>1, <3>2 DEF ReadMark
  <2>6. CASE SelectRows(p)
    <3>1. scan[p] \in Scan /\ Fits(p, Missing(p)) \in SUBSET Row
      BY <1>1 DEF Fits
    <3>2. [scan[p] EXCEPT !.copy = Fits(p, Missing(p)),
                          !.misfit = Fits(p, Missing(p)) # Missing(p),
                          !.from = 0] \in Scan
      BY <3>1 DEF Scan
    <3> QED
      BY <1>4, <2>6, <3>2 DEF SelectRows
  <2>7. CASE CopyRows(p)
    <3>1. scan[p].copy \in SUBSET Row /\ scan[p].misfit \in BOOLEAN /\ scan[p].stale \in BOOLEAN
      BY DEF Scan
    <3>2. scan' \in [Process -> Scan]
      BY <2>7, ScanTypes DEF CopyRows
    <3>3. misled' \in BOOLEAN /\ pending' \in [Process -> BOOLEAN]
      BY <2>7, <3>1 DEF CopyRows
    <3> QED
      BY <1>4, <2>7, <3>1, <3>2, <3>3 DEF CopyRows
  <2>8. CASE OpenFails(p)
    BY <1>4, <2>8, LeaveType DEF OpenFails, Leave
  <2>9. CASE WriteMark(p)
    <3>1. scan[p].top \in Nat /\ scan[p].stale \in BOOLEAN
      BY DEF Scan
    <3>2. scan' \in [Process -> Scan]
      BY <2>9, ScanTypes DEF WriteMark
    <3> QED
      BY <1>4, <2>9, <3>1, <3>2 DEF WriteMark
  <2>10. CASE RecreateDrop(p)
    BY <1>4, <2>10, DropType DEF RecreateDrop
  <2>11. CASE RecreateTables(p)
    BY <1>1, <1>2, <1>4, <2>11 DEF RecreateTables, Created, Snapshot
  <2>12. CASE ReembedRead(p)
    BY <1>2, <1>4, <2>12 DEF ReembedRead, Snapshot
  <2>13. CASE ReembedWrite(p)
    <3>1. PICK read \in reading[p] :
            /\ row' = [e \in Row |-> IF e \in read \cap Present
                                     THEN [row[e] EXCEPT !.dim = Dim(p)] ELSE row[e]]
            /\ index' = index \cup read
            /\ Return(p, read)
            /\ UNCHANGED <<table, dims, mark, misled>>
      BY <2>13 DEF ReembedWrite
    <3>2. ASSUME NEW e \in Present
          PROVE  [row[e] EXCEPT !.dim = Dim(p)] \in Standing
      <4>1. row[e] \in Standing
        BY PresentRows DEF Present
      <4> QED
        BY <1>1, <4>1 DEF Standing
    <3>3. row' \in [Row -> Standing \cup {None, Gone}] /\ index' \in SUBSET Row
      BY <3>1, <3>2
    <3>4. CASE p \in Cli
      BY <1>4, <3>1, <3>3, <3>4, LeaveType DEF Return
    <3>5. CASE p \notin Cli
      <4>1. reading[p] \ {read} \in SUBSET SUBSET Row
        OBVIOUS
      <4>2. /\ pending' = [pending EXCEPT ![p] = FALSE]
            /\ reading' = [reading EXCEPT ![p] = @ \ {read}]
            /\ UNCHANGED <<pc, scan>>
        BY <3>1, <3>5 DEF Return
      <4>3. pending' \in [Process -> BOOLEAN] /\ reading' \in [Process -> SUBSET SUBSET Row]
        BY <4>1, <4>2
      <4> QED
        BY <1>4, <3>1, <3>3, <4>2, <4>3
    <3> QED
      BY <3>4, <3>5
  <2>14. CASE ReembedFail(p)
    <3>1. CASE p \in Cli
      BY <1>4, <2>14, <3>1, LeaveType DEF ReembedFail, Leave
    <3>2. CASE p \notin Cli
      <4>1. PICK read \in reading[p] :
              /\ reading' = [reading EXCEPT ![p] = @ \ {read}]
              /\ UNCHANGED <<store, pc, scan, pending, misled>>
        BY <2>14, <3>2 DEF ReembedFail
      <4>2. reading[p] \ {read} \in SUBSET SUBSET Row
        OBVIOUS
      <4> QED
        BY <1>4, <4>1, <4>2
    <3> QED
      BY <3>1, <3>2
  <2> QED
    BY <1>4, <2>1, <2>2, <2>3, <2>4, <2>5, <2>6, <2>7, <2>8, <2>9, <2>10,
       <2>11, <2>12, <2>13, <2>14 DEF Continue
<1>5. ASSUME NEW p \in Process, Close(p), UNCHANGED kills PROVE TypeOK'
  BY <1>5, LeaveType DEF Close, Leave
<1>6. ASSUME NEW p \in Process, Kill(p) PROVE TypeOK'
  BY <1>6, LeaveType DEF Kill, Leave
<1>7. ASSUME NEW p \in Process, NEW e \in Row, Forget(p, e), UNCHANGED kills
      PROVE  TypeOK'
  <2>1. row[e] \in Standing
    BY <1>7, PresentRows DEF Forget
  <2>2. [row[e] EXCEPT !.live = FALSE] \in Standing
    BY <2>1 DEF Standing
  <2> QED
    BY <1>7, <2>2 DEF Forget
<1>8. ASSUME NEW p \in Process, NEW e \in Row, Purge(p, e), UNCHANGED kills
      PROVE  TypeOK'
  BY <1>8 DEF Purge
<1>9. ASSUME NEW p \in Process, NEW e \in Row, NEW s \in Row \cup {None},
             Encode(p, e, s), UNCHANGED kills
      PROVE  TypeOK'
  <2>1. PICK top \in Tops :
          row' = [Superseding(s) EXCEPT
                    ![e] = [rowid |-> top + 1, dim |-> Dim(p), live |-> TRUE]]
    BY <1>9 DEF Encode
  <2>2. [rowid |-> top + 1, dim |-> Dim(p), live |-> TRUE] \in Standing
    BY <1>1, <1>3 DEF Standing
  <2>3. Superseding(s) \in [Row -> Standing \cup {None, Gone}]
    BY <1>9, StaleRows DEF Encode
  <2>4. row' \in [Row -> Standing \cup {None, Gone}]
    BY <2>1, <2>2, <2>3
  <2> QED
    BY <1>9, <2>4 DEF Encode
<1>10. CASE UNCHANGED vars
  BY <1>10 DEF vars
<1> QED
  BY <1>4, <1>5, <1>6, <1>7, <1>8, <1>9, <1>10 DEF Next, Step
-----------------------------------------------------------------------------
(* The rows and the index, one step at a time.                               *)
IndexInv ==
    /\ NoTableNoIndex /\ CopyKnown /\ ScanCurrent
    /\ NothingSkipped /\ IndexFitsTable

LEMMA SameRows ==
    ASSUME UNCHANGED row
    PROVE  Present' = Present /\ Live' = Live
BY DEF Present, Live

(* A step that changes what one process knows, and neither rows nor index.   *)
LEMMA QuietNext ==
    ASSUME IInv, UNCHANGED <<row, index, table, mark, misled>>, NEW p \in Process,
           \A q \in Process \ {p} : pc'[q] = pc[q] /\ scan'[q] = scan[q],
           pc'[p] \notin {"select", "copy", "mark"}, scan'[p].copy \subseteq scan[p].copy
    PROVE  IndexInv'
<1>1. Present' = Present /\ Live' = Live
  BY SameRows
<1>2. CopyKnown'
  BY DEF IInv, CopyKnown
<1>3. ScanCurrent'
  BY <1>1 DEF IInv, ScanCurrent
<1> QED
  BY <1>1, <1>2, <1>3 DEF IInv, IndexInv, NoTableNoIndex, NothingSkipped,
     UnindexedIsAboveMark, IndexFitsTable

(* What the processes know is the same.                                      *)
LEMMA IdleNext ==
    ASSUME IInv, UNCHANGED <<row, index, table, mark, misled, pc, scan>>
    PROVE  IndexInv'
<1>1. Present' = Present /\ Live' = Live
  BY SameRows
<1> QED
  BY <1>1 DEF IInv, IndexInv, NoTableNoIndex, CopyKnown, ScanCurrent,
     NothingSkipped, UnindexedIsAboveMark, IndexFitsTable

LEMMA LeaveNext ==
    ASSUME IInv, NEW p \in Process, Leave(p)
    PROVE  IndexInv'
<1>1. /\ \A q \in Process \ {p} : pc'[q] = pc[q] /\ scan'[q] = scan[q]
      /\ pc'[p] = "closed" /\ scan'[p] = NoScan
  BY DEF Leave, Exit, Goto, IInv, TypeOK
<1>2. UNCHANGED <<row, index, table, mark, misled>> /\ scan'[p].copy = {}
  BY <1>1 DEF Leave, store, NoScan
<1> QED
  BY <1>1, <1>2, QuietNext

(* The table is gone, and every process that has read of it is told stale.   *)
LEMMA DropNext ==
    ASSUME IInv, NEW p \in Process, Drop(p), mark' = 0, UNCHANGED row,
           \A q \in Process : pc'[q] = pc[q] \/ pc'[q] \notin {"select", "copy", "mark"}
    PROVE  IndexInv'
<1>1. Present' = Present /\ Live' = Live
  BY SameRows
<1>2. \A e \in Live : row[e].rowid > 0
  BY PresentRows DEF IInv, Live, Present, Standing
<1>3. ASSUME NEW q \in Process
      PROVE  /\ scan'[q].copy = scan[q].copy
             /\ pc[q] \in {"select", "copy", "mark"} => scan'[q].stale
  <2>1. scan[q] \in Scan /\ scan' = [r \in Process |->
          IF r \in Overtaken(p) THEN [scan[r] EXCEPT !.stale = TRUE] ELSE scan[r]]
    BY DEF IInv, TypeOK, Drop
  <2>2. CASE q \in Overtaken(p)
    BY <2>1, <2>2 DEF Scan
  <2>3. CASE q \notin Overtaken(p)
    BY <2>1, <2>3 DEF Overtaken
  <2> QED
    BY <2>2, <2>3
<1>4. index' = {} /\ table' = None
  BY DEF Drop
<1>5. CopyKnown' /\ ScanCurrent'
  BY <1>3 DEF IInv, CopyKnown, ScanCurrent
<1>6. NoTableNoIndex' /\ IndexFitsTable'
  BY <1>4 DEF NoTableNoIndex, IndexFitsTable
<1>7. NothingSkipped'
  BY <1>1, <1>2 DEF NothingSkipped, UnindexedIsAboveMark
<1> QED
  BY <1>5, <1>6, <1>7 DEF IndexInv

(* The table is there now.  It was not before only for a process that had no *)
(* rows to copy, or was stale.                                               *)
LEMMA CreatedNext ==
    ASSUME IInv, NEW p \in Process, table' = Created(p),
           UNCHANGED <<row, index, mark, scan>>,
           ~misled' => ~misled,
           \A q \in Process \ {p} : pc'[q] = pc[q],
           pc'[p] \notin {"select", "copy", "mark"}
    PROVE  IndexInv'
<1>1. Present' = Present /\ Live' = Live
  BY SameRows
<1>2. table # None => table' = table
  BY DEF Created
<1>3. table' # None
  BY StoreConstants DEF Created, Dim, Size
<1>4. CopyKnown'
  BY <1>3 DEF IInv, CopyKnown
<1>5. ScanCurrent'
  <2>1. ASSUME NEW q \in Process, ~misled, ~scan[q].stale,
               pc'[q] \in {"select", "copy", "mark"}
        PROVE  pc'[q] = pc[q] /\ (pc[q] = "copy" => table' = table)
    BY <1>2, <2>1 DEF IInv, CopyKnown
  <2> QED
    BY <1>1, <2>1 DEF IInv, ScanCurrent
<1>6. NoTableNoIndex' /\ NothingSkipped'
  BY <1>1, <1>3 DEF IInv, NoTableNoIndex, NothingSkipped, UnindexedIsAboveMark
<1>7. IndexFitsTable'
  BY <1>1, <1>2 DEF IInv, NoTableNoIndex, IndexFitsTable
<1> QED
  BY <1>4, <1>5, <1>6, <1>7 DEF IndexInv

LEMMA ReadNext ==
    ASSUME IInv, NEW p \in Process, ReadMark(p)
    PROVE  IndexInv'
<1>1. Present' = Present /\ Live' = Live
  BY SameRows DEF ReadMark, store
<1>2. PICK top \in Tops :
        \/ Goto(p, "open") /\ scan' = [scan EXCEPT ![p] = NoScan]
        \/ /\ Goto(p, "select")
           /\ scan' = [scan EXCEPT ![p] = [NoScan EXCEPT !.from = mark, !.top = top]]
  BY DEF ReadMark
<1>3. \A q \in Process \ {p} : pc'[q] = pc[q] /\ scan'[q] = scan[q]
  BY <1>2 DEF Goto, IInv, TypeOK
<1>4. \/ pc'[p] = "open" /\ scan'[p].copy = {}
      \/ pc'[p] = "select" /\ scan'[p].copy = {} /\ scan'[p].from = mark
  <2>1. NoScan.copy = {} /\ [NoScan EXCEPT !.from = mark, !.top = top].copy = {}
        /\ [NoScan EXCEPT !.from = mark, !.top = top].from = mark
    BY DEF NoScan
  <2> QED
    BY <1>2, <2>1 DEF Goto, IInv, TypeOK
<1>5. UNCHANGED <<row, index, table, mark, misled>>
  BY DEF ReadMark, store
<1>6. CopyKnown'
  BY <1>3, <1>4, <1>5 DEF IInv, CopyKnown
<1>7. ScanCurrent'
  <2>1. ASSUME NEW q \in Process \ {p}
        PROVE  pc'[q] = pc[q] /\ scan'[q] = scan[q]
    BY <1>3
  <2>2. ~misled => \A e \in Live : e \in index \/ row[e].rowid > mark
    BY DEF IInv, NothingSkipped, UnindexedIsAboveMark
  <2> QED
    BY <1>1, <1>4, <1>5, <2>1, <2>2 DEF IInv, ScanCurrent
<1> QED
  BY <1>1, <1>5, <1>6, <1>7 DEF IInv, IndexInv, NoTableNoIndex, NothingSkipped,
     UnindexedIsAboveMark, IndexFitsTable

LEMMA SelectNext ==
    ASSUME IInv, NEW p \in Process, SelectRows(p)
    PROVE  IndexInv'
<1>1. Present' = Present /\ Live' = Live
  BY SameRows DEF SelectRows, store
<1>2. /\ scan'[p].copy = Fits(p, Missing(p))
      /\ scan'[p].misfit = (Fits(p, Missing(p)) # Missing(p))
      /\ scan'[p].stale = scan[p].stale
  <2>1. scan[p] \in Scan /\ scan' = [scan EXCEPT ![p] =
          [scan[p] EXCEPT !.copy = Fits(p, Missing(p)),
                    !.misfit = Fits(p, Missing(p)) # Missing(p),
                    !.from = 0]]
    BY DEF SelectRows, IInv, TypeOK
  <2>2. scan'[p] = [scan[p] EXCEPT !.copy = Fits(p, Missing(p)),
                    !.misfit = Fits(p, Missing(p)) # Missing(p),
                    !.from = 0]
    BY <2>1 DEF IInv, TypeOK
  <2> QED
    BY <2>1, <2>2 DEF Scan
<1>3. /\ \A q \in Process \ {p} : pc'[q] = pc[q] /\ scan'[q] = scan[q]
      /\ pc'[p] = "copy" /\ pc[p] = "select" /\ table # None
  BY DEF SelectRows, Goto, IInv, TypeOK
<1>4. UNCHANGED <<row, index, table, mark, misled>>
  BY DEF SelectRows, store
<1>5. ~misled /\ ~scan[p].stale => Live \subseteq index \cup Missing(p)
  BY <1>3 DEF IInv, ScanCurrent, Missing, Live
<1>6. \A e \in Fits(p, Missing(p)) : row[e] # None /\ row[e].dim = Dim(p)
  BY DEF Fits, Missing, Present
<1>7. CopyKnown'
  BY <1>2, <1>3, <1>4, <1>6 DEF IInv, CopyKnown
<1>8. ScanCurrent'
  <2>1. ASSUME NEW q \in Process \ {p}
        PROVE  pc'[q] = pc[q] /\ scan'[q] = scan[q]
    BY <1>3
  <2> QED
    BY <1>1, <1>2, <1>3, <1>4, <1>5, <1>6, <2>1 DEF IInv, ScanCurrent
<1> QED
  BY <1>1, <1>4, <1>7, <1>8 DEF IInv, IndexInv, NoTableNoIndex, NothingSkipped,
     UnindexedIsAboveMark, IndexFitsTable

LEMMA CopyNext ==
    ASSUME IInv, NEW p \in Process, CopyRows(p)
    PROVE  IndexInv'
<1>1. Present' = Present /\ Live' = Live
  BY SameRows DEF CopyRows
<1>2. scan[p] \in Scan /\ scan[p].misfit \in BOOLEAN /\ scan[p].stale \in BOOLEAN
  BY DEF IInv, TypeOK, Scan
<1>3. /\ scan'[p].copy = {}
      /\ ~scan[p].misfit => scan'[p].stale = scan[p].stale
  <2>1. scan'[p] = IF scan[p].misfit THEN [NoScan EXCEPT !.misfit = TRUE]
                   ELSE [scan[p] EXCEPT !.copy = {}]
    BY DEF CopyRows, IInv, TypeOK
  <2> QED
    BY <1>2, <2>1 DEF NoScan, Scan
<1>4. /\ \A q \in Process \ {p} : pc'[q] = pc[q] /\ scan'[q] = scan[q]
      /\ pc'[p] = IF scan[p].misfit THEN "open" ELSE "mark"
      /\ pc[p] = "copy"
  BY DEF CopyRows, Goto, IInv, TypeOK
<1>5. /\ UNCHANGED <<row, table, mark>> /\ index' = index \cup scan[p].copy
      /\ ~misled' => ~misled /\ (scan[p].copy # {} => ~scan[p].stale)
  BY <1>2 DEF CopyRows
<1>6. scan[p].copy = {} \/ table = Dim(p)
  BY DEF CopyRows, Insertable
<1>7. CopyKnown'
  BY <1>3, <1>4, <1>5 DEF IInv, CopyKnown
<1>8. ScanCurrent'
  <2>1. ASSUME ~misled', ~scan'[p].stale, ~scan[p].misfit
        PROVE  Live \subseteq index'
    BY <1>3, <1>4, <1>5, <2>1 DEF IInv, ScanCurrent
  <2>2. ASSUME NEW q \in Process \ {p}
        PROVE  pc'[q] = pc[q] /\ scan'[q] = scan[q]
    BY <1>4
  <2>3. ASSUME NEW q \in Process \ {p}, ~misled', ~scan'[q].stale
        PROVE  /\ pc'[q] = "select"
                    => \A e \in Live' : e \in index' \/ row'[e].rowid > scan'[q].from
               /\ pc'[q] = "copy" /\ ~scan'[q].misfit
                    => Live' \subseteq index' \cup scan'[q].copy
               /\ pc'[q] = "mark" => Live' \subseteq index'
               /\ pc'[q] = "copy" /\ table' = Dim(q)
                    => \A e \in scan'[q].copy \cap Present' : row'[e].dim = Dim(q)
    BY <1>1, <1>5, <2>2, <2>3 DEF IInv, ScanCurrent
  <2> QED
    BY <1>1, <1>4, <2>1, <2>3 DEF ScanCurrent
<1>9. NothingSkipped'
  BY <1>1, <1>5 DEF IInv, NothingSkipped, UnindexedIsAboveMark
<1>10. NoTableNoIndex'
  BY <1>5, <1>6, StoreConstants DEF IInv, NoTableNoIndex, Dim, Size
<1>11. IndexFitsTable'
  <2>1. ASSUME ~misled', NEW e \in scan[p].copy \cap Present
        PROVE  row[e].dim = table
    BY <1>4, <1>5, <1>6, <2>1 DEF IInv, ScanCurrent
  <2> QED
    BY <1>1, <1>5, <2>1 DEF IInv, IndexFitsTable
<1> QED
  BY <1>7, <1>8, <1>9, <1>10, <1>11 DEF IndexInv

LEMMA MarkNext ==
    ASSUME IInv, NEW p \in Process, WriteMark(p)
    PROVE  IndexInv'
<1>1. Present' = Present /\ Live' = Live
  BY SameRows DEF WriteMark
<1>2. /\ \A q \in Process \ {p} : pc'[q] = pc[q] /\ scan'[q] = scan[q]
      /\ pc'[p] = "open" /\ pc[p] = "mark" /\ scan'[p].copy = {}
  BY DEF WriteMark, Goto, NoScan, IInv, TypeOK
<1>3. UNCHANGED <<row, index, table>>
  BY DEF WriteMark
<1>4. ~misled' => ~misled /\ Live \subseteq index
  <2>1. scan[p].stale \in BOOLEAN
    BY DEF IInv, TypeOK, Scan
  <2> QED
    BY <1>2, <2>1 DEF IInv, ScanCurrent, WriteMark
<1>5. CopyKnown'
  BY <1>2, <1>3 DEF IInv, CopyKnown
<1>6. ScanCurrent'
  BY <1>1, <1>2, <1>3, <1>4 DEF IInv, ScanCurrent
<1>7. NothingSkipped' /\ NoTableNoIndex' /\ IndexFitsTable'
  BY <1>1, <1>3, <1>4 DEF IInv, NothingSkipped, UnindexedIsAboveMark,
     NoTableNoIndex, IndexFitsTable
<1> QED
  BY <1>5, <1>6, <1>7 DEF IndexInv

LEMMA ReembedWriteNext ==
    ASSUME IInv, NEW p \in Process, ReembedWrite(p)
    PROVE  IndexInv'
<1>1. PICK read \in reading[p] :
        /\ table # None
        /\ read # {} => table = Dim(p)
        /\ row' = [e \in Row |-> IF e \in read \cap Present
                                 THEN [row[e] EXCEPT !.dim = Dim(p)] ELSE row[e]]
        /\ index' = index \cup read
        /\ Return(p, read)
        /\ UNCHANGED <<table, dims, mark, misled>>
  BY DEF ReembedWrite
<1>2. read \in SUBSET Row
  BY DEF IInv, TypeOK
<1>3. ASSUME NEW e \in Present
      PROVE  /\ row[e] \in Standing /\ e \in Row
             /\ [row[e] EXCEPT !.dim = Dim(p)] \in Standing
             /\ [row[e] EXCEPT !.dim = Dim(p)].live = row[e].live
             /\ [row[e] EXCEPT !.dim = Dim(p)].rowid = row[e].rowid
             /\ [row[e] EXCEPT !.dim = Dim(p)].dim = Dim(p)
  <2>1. row[e] \in Standing /\ e \in Row
    BY PresentRows DEF IInv, Present
  <2>2. Dim(p) \in Size
    BY DEF Dim, Size
  <2> QED
    BY <2>1, <2>2 DEF Standing
<1>4. ASSUME NEW e \in Present
      PROVE  /\ row'[e] \in Standing
             /\ row'[e].live = row[e].live /\ row'[e].rowid = row[e].rowid
             /\ row'[e].dim = IF e \in read THEN table ELSE row[e].dim
  BY <1>1, <1>3
<1>5. \A e \in Row \ Present : row'[e] = row[e]
  BY <1>1
<1>6. Present' = Present
  BY <1>4, <1>5, StoreConstants DEF Present
<1>7. Live' = Live
  BY <1>4, <1>6 DEF Live
<1>8. \A e \in Row : row[e] # None => row'[e] # None
  BY <1>4, <1>5, StoreConstants
<1>9. ASSUME NEW q \in Process
      PROVE  \/ pc'[q] = pc[q] /\ scan'[q] = scan[q]
             \/ pc'[q] = "closed" /\ scan'[q].copy = {}
  BY <1>1 DEF Return, Exit, Goto, NoScan, IInv, TypeOK
<1>10. CopyKnown'
  <2>1. \A q \in Process : scan[q].copy \subseteq Row
    BY DEF IInv, TypeOK, Scan
  <2> QED
    BY <1>1, <1>8, <1>9, <2>1 DEF IInv, CopyKnown
<1>11. ScanCurrent'
  <2>1. \A e \in Present : row'[e].dim = row[e].dim \/ row'[e].dim = table
    BY <1>4
  <2>2. ASSUME NEW q \in Process, ~misled', ~scan'[q].stale
        PROVE  /\ pc'[q] = "select"
                    => \A e \in Live' : e \in index' \/ row'[e].rowid > scan'[q].from
               /\ pc'[q] = "copy" /\ ~scan'[q].misfit
                    => Live' \subseteq index' \cup scan'[q].copy
               /\ pc'[q] = "mark" => Live' \subseteq index'
               /\ pc'[q] = "copy" /\ table' = Dim(q)
                    => \A e \in scan'[q].copy \cap Present' : row'[e].dim = Dim(q)
    <3>1. CASE pc'[q] = "closed"
      BY <3>1
    <3>2. CASE pc'[q] = pc[q] /\ scan'[q] = scan[q]
      <4>1. /\ pc[q] = "select"
                 => \A e \in Live : e \in index \/ row[e].rowid > scan[q].from
            /\ pc[q] = "copy" /\ ~scan[q].misfit => Live \subseteq index \cup scan[q].copy
            /\ pc[q] = "mark" => Live \subseteq index
            /\ pc[q] = "copy" /\ table = Dim(q)
                 => \A e \in scan[q].copy \cap Present : row[e].dim = Dim(q)
        BY <1>1, <2>2, <3>2 DEF IInv, ScanCurrent
      <4>2. \A e \in Live : row'[e].rowid = row[e].rowid
        BY <1>4 DEF Live
      <4> QED
        BY <1>1, <1>6, <1>7, <2>1, <3>2, <4>1, <4>2
    <3> QED
      BY <1>9, <3>1, <3>2
  <2> QED
    BY <2>2 DEF ScanCurrent
<1>12. NothingSkipped' /\ NoTableNoIndex'
  BY <1>1, <1>4, <1>7 DEF IInv, NothingSkipped, UnindexedIsAboveMark, Live,
     NoTableNoIndex
<1>13. IndexFitsTable'
  BY <1>1, <1>4, <1>6 DEF IInv, IndexFitsTable
<1> QED
  BY <1>10, <1>11, <1>12, <1>13 DEF IndexInv

LEMMA EncodeNext ==
    ASSUME IInv, NEW p \in Process, NEW e \in Row, NEW s \in Row \cup {None},
           Encode(p, e, s)
    PROVE  IndexInv'
<1>1. PICK top \in Tops :
        row' = [Superseding(s) EXCEPT
                  ![e] = [rowid |-> top + 1, dim |-> Dim(p), live |-> TRUE]]
  BY DEF Encode
<1>2. row[e] = None /\ s \in Present \cup {None} /\ table = Dim(p)
  BY DEF Encode
<1>3. Superseding(s) \in [Row -> Standing \cup {None, Gone}]
  BY StaleRows, <1>2 DEF IInv
<1>4. row'[e] = [rowid |-> top + 1, dim |-> Dim(p), live |-> TRUE]
  BY <1>1, <1>3
<1>5. row'[e].dim = Dim(p) /\ row'[e] \in Standing
  <2>1. top \in Nat /\ Dim(p) \in Size
    BY DEF Tops, Present, Standing, Dim, Size, IInv, TypeOK
  <2> QED
    BY <1>4, <2>1 DEF Standing
<1>6. ASSUME NEW f \in Row \ {e}
      PROVE  /\ row'[f] = Superseding(s)[f]
             /\ row'[f] = None <=> row[f] = None
             /\ f \in Present' <=> f \in Present
             /\ f \in Present => row'[f].dim = row[f].dim
                                /\ row'[f].rowid = row[f].rowid
             /\ f \in Present /\ row'[f].live => row[f].live
  <2>1. row'[f] = Superseding(s)[f]
    BY <1>1, <1>3
  <2> QED
    BY <1>2, <2>1, StaleRows, StoreConstants DEF IInv, Present
<1>7. \A f \in Live' : f = e \/ (f \in Live /\ row'[f].rowid = row[f].rowid)
  BY <1>6 DEF Live, Present
<1>8. /\ index' = index \cup {e}
      /\ UNCHANGED <<table, mark, pc, scan, misled>>
  BY DEF Encode
<1>9. \A q \in Process : e \notin scan[q].copy /\ scan[q].copy \subseteq Row
  BY <1>2 DEF IInv, TypeOK, Scan, CopyKnown
<1>10. CopyKnown'
  BY <1>6, <1>8, <1>9 DEF IInv, CopyKnown
<1>11. ScanCurrent'
  <2>1. \A f \in Present' : f = e \/ (f \in Present /\ row'[f].dim = row[f].dim)
    BY <1>6 DEF Present
  <2> QED
    BY <1>7, <1>8, <1>9, <2>1 DEF IInv, ScanCurrent
<1>12. NothingSkipped'
  BY <1>7, <1>8 DEF IInv, NothingSkipped, UnindexedIsAboveMark
<1>13. NoTableNoIndex'
  BY <1>8 DEF Encode, Ready, NoTableNoIndex
<1>14. IndexFitsTable'
  BY <1>2, <1>5, <1>6, <1>8 DEF IInv, TypeOK, IndexFitsTable, Present
<1> QED
  BY <1>10, <1>11, <1>12, <1>13, <1>14 DEF IndexInv

(* A row that is forgotten or purged leaves the index.                       *)
LEMMA RemoveNext ==
    ASSUME IInv, NEW p \in Process, NEW e \in Row, Forget(p, e) \/ Purge(p, e)
    PROVE  IndexInv'
<1>1. /\ index' = index \ {e} /\ row' \in [Row -> Standing \cup {None, Gone}]
      /\ UNCHANGED <<table, mark, pc, scan, misled>>
      /\ \A f \in Row \ {e} : row'[f] = row[f]
  <2>1. row \in [Row -> Standing \cup {None, Gone}]
    BY DEF IInv, TypeOK
  <2>2. CASE Forget(p, e)
    <3>1. row[e] \in Standing
      BY <2>2, PresentRows DEF Forget, IInv
    <3>2. [row[e] EXCEPT !.live = FALSE] \in Standing
      BY <3>1 DEF Standing
    <3> QED
      BY <2>1, <2>2, <3>2 DEF Forget
  <2>3. CASE Purge(p, e)
    BY <2>1, <2>3 DEF Purge
  <2> QED
    BY <2>2, <2>3
<1>2. e \notin Live' /\ row'[e] # None
      /\ (e \in Present' => row'[e].dim = row[e].dim)
      /\ row[e] # None /\ e \in Present
  <2>1. CASE Forget(p, e)
    <3>1. row[e] \in Standing
      BY <2>1, PresentRows DEF Forget, IInv
    <3>2. row'[e] = [row[e] EXCEPT !.live = FALSE]
      BY <2>1 DEF Forget, IInv, TypeOK
    <3>3. row'[e] \in Standing /\ row'[e].live = FALSE /\ row'[e].dim = row[e].dim
      BY <3>1, <3>2 DEF Standing
    <3> QED
      BY <2>1, <3>1, <3>3, StoreConstants DEF Forget, Live, Present
  <2>2. CASE Purge(p, e)
    BY <2>2, StoreConstants DEF Purge, Live, Present, IInv, TypeOK
  <2> QED
    BY <2>1, <2>2
<1>3. \A f \in Row \ {e} : (f \in Present' <=> f \in Present)
                            /\ (f \in Live' <=> f \in Live)
  BY <1>1 DEF Present, Live
<1>4. Live' = Live \ {e}
  BY <1>2, <1>3 DEF Live, Present
<1>5. \A f \in Present' : f \in Present /\ row'[f].dim = row[f].dim
  BY <1>1, <1>2, <1>3 DEF Present
<1>6. CopyKnown'
  <2>1. \A q \in Process : scan[q].copy \subseteq Row
    BY DEF IInv, TypeOK, Scan
  <2> QED
    BY <1>1, <1>2, <2>1 DEF IInv, CopyKnown
<1>7. ScanCurrent'
  <2>1. \A f \in Live' : f \in Live /\ f # e /\ row'[f] = row[f]
    BY <1>1, <1>4 DEF Live, Present
  <2> QED
    BY <1>1, <1>5, <2>1 DEF IInv, ScanCurrent
<1>8. NothingSkipped' /\ NoTableNoIndex'
  BY <1>1, <1>4 DEF IInv, NothingSkipped, UnindexedIsAboveMark, NoTableNoIndex,
     Live, Present
<1>9. IndexFitsTable'
  BY <1>1, <1>5 DEF IInv, IndexFitsTable
<1> QED
  BY <1>6, <1>7, <1>8, <1>9 DEF IndexInv

LEMMA IndexNext == ASSUME IInv, [Next]_vars PROVE IndexInv'
<1>1. ASSUME NEW p \in Process,
             Open(p) \/ Continue(p) \/ RecreateDrop(p) \/ ReembedRead(p)
      PROVE  IndexInv'
  <2> USE DEF IInv, TypeOK, Opening
  <2>1. CASE Open(p)
    BY <2>1, QuietNext DEF Open, Goto, store
  <2>2. CASE DropTables(p)
    BY <2>2, DropNext DEF DropTables, Goto
  <2>3. CASE UpdateDimensions(p)
    BY <2>3, QuietNext DEF UpdateDimensions, Goto
  <2>4. CASE CreateTables(p)
    BY <2>4, CreatedNext DEF CreateTables, Goto
  <2>5. CASE ReadMark(p)
    BY <2>5, ReadNext
  <2>6. CASE SelectRows(p)
    BY <2>6, SelectNext
  <2>7. CASE CopyRows(p)
    BY <2>7, CopyNext
  <2>8. CASE OpenFails(p)
    BY <2>8, LeaveNext DEF OpenFails
  <2>9. CASE WriteMark(p)
    BY <2>9, MarkNext
  <2>10. CASE RecreateDrop(p)
    BY <2>10, DropNext DEF RecreateDrop, Goto
  <2>11. CASE RecreateTables(p)
    BY <2>11, CreatedNext DEF RecreateTables, Goto
  <2>12. CASE ReembedRead(p)
    BY <2>12, IdleNext DEF ReembedRead, store
  <2>13. CASE ReembedWrite(p)
    BY <2>13, ReembedWriteNext
  <2>14. CASE ReembedFail(p)
    BY <2>14, LeaveNext, IdleNext DEF ReembedFail, store
  <2> QED
    BY <1>1, <2>1, <2>2, <2>3, <2>4, <2>5, <2>6, <2>7, <2>8, <2>9, <2>10,
       <2>11, <2>12, <2>13, <2>14 DEF Continue
<1>2. ASSUME NEW p \in Process, Close(p) \/ Kill(p) PROVE IndexInv'
  BY <1>2, LeaveNext DEF Close, Kill
<1>3. CASE UNCHANGED vars
  BY <1>3, IdleNext DEF vars, store
<1> QED
  BY <1>1, <1>2, <1>3, EncodeNext, RemoveNext DEF Next, Step
-----------------------------------------------------------------------------
(* The invariant holds in every state, however openings overlap: what they   *)
(* knew of the tables is exempt from the moment others dropped them.         *)
THEOREM StoreInvariant == Spec => []IInv
<1>1. Init => IInv
  BY InitIInv
<1>2. IInv /\ [Next]_vars => IInv'
  <2> SUFFICES ASSUME IInv, [Next]_vars PROVE IInv'
    OBVIOUS
  <2>1. TypeOK'
    BY TypeNext DEF IInv
  <2>2. IndexInv'
    BY IndexNext
  <2> QED
    BY <2>1, <2>2 DEF IInv, IndexInv
<1> QED
  BY <1>1, <1>2, PTL DEF Spec

(* A memory that is not in the vector index lies above the mark, where       *)
(* migrateTable looks, unless an opening that others overtook has written    *)
(* the mark (or the table): nothing else makes createDatabase skip one.      *)
THEOREM NeverSkipped == Spec => []NothingSkipped
BY StoreInvariant, PTL DEF IInv

(* The index holds no vector of another size than its table and its memory:  *)
(* copying and re-embedding leave row and index in step, however openings    *)
(* and calls of reembedAll overlap, unless a row copied from before the      *)
(* tables were dropped gets in.                                              *)
THEOREM IndexInStep == Spec => []IndexFitsTable
BY StoreInvariant, PTL DEF IInv
-----------------------------------------------------------------------------
(* Sets of memories are finite, and their scores are numbers.                *)
LEMMA Finite ==
    ASSUME NEW S \in SUBSET Memory
    PROVE  IsFiniteSet(S) /\ Cardinality(S) \in Nat /\ S \subseteq Nat
  BY RecallConstants, FS_Subset, FS_CardinalityType

Scores == [Memory -> Int]

(* Before is a total order of the memories.                                  *)
LEMMA Order ==
    ASSUME NEW score \in Scores, NEW a \in Memory, NEW b \in Memory, NEW c \in Memory
    PROVE  /\ ~Before(a, a, score)
           /\ a = b \/ Before(a, b, score) \/ Before(b, a, score)
           /\ ~(Before(a, b, score) /\ Before(b, a, score))
           /\ Before(a, b, score) /\ Before(b, c, score) => Before(a, c, score)
  BY RecallConstants DEF Before, Scores

(* What is ahead of one that is ahead is ahead.                              *)
LEMMA AheadOfAhead ==
    ASSUME NEW score \in Scores, NEW S \in SUBSET Memory, NEW a \in S, NEW b \in S,
           Before(a, b, score)
    PROVE  /\ Ahead(S, a, score) \cup {a} \subseteq Ahead(S, b, score)
           /\ Cardinality(Ahead(S, a, score)) < Cardinality(Ahead(S, b, score))
           /\ Cardinality(Ahead(S, a, score)) \in Nat /\ Cardinality(Ahead(S, b, score)) \in Nat
<1>1. Ahead(S, a, score) \cup {a} \subseteq Ahead(S, b, score)
  BY Order DEF Ahead
<1>2. a \notin Ahead(S, a, score)
  BY Order DEF Ahead
<1>3. /\ IsFiniteSet(Ahead(S, a, score)) /\ IsFiniteSet(Ahead(S, b, score))
      /\ Cardinality(Ahead(S, a, score)) \in Nat /\ Cardinality(Ahead(S, b, score)) \in Nat
  BY Finite DEF Ahead
<1>4. Cardinality(Ahead(S, a, score) \cup {a}) = Cardinality(Ahead(S, a, score)) + 1
  BY <1>2, <1>3, FS_AddElement
<1>5. Cardinality(Ahead(S, a, score) \cup {a}) <= Cardinality(Ahead(S, b, score))
  BY <1>1, <1>3, FS_Subset
<1> QED
  BY <1>1, <1>3, <1>4, <1>5

(* A set of numbers has a least one; so has what they measure.               *)
LEMMA Least ==
    ASSUME NEW N \in SUBSET Nat, N # {}
    PROVE  \E n \in N : \A k \in N : n <= k
<1>1. PICK n \in N : \A k \in N : ~(<<k, n>> \in OpToRel(<, Nat))
  BY NatLessThanWellFounded, WFMin
<1>2. \A k \in N : ~(k < n)
  BY <1>1 DEF OpToRel
<1> QED
  BY <1>2

(* The first and the last of some.                                           *)
LEMMA Extremes ==
    ASSUME NEW score \in Scores, NEW S \in SUBSET Memory, S # {}
    PROVE  /\ \E a \in S : \A b \in S \ {a} : Before(a, b, score)
           /\ \E a \in S : \A b \in S \ {a} : Before(b, a, score)
<1> DEFINE rank == [a \in S |-> Cardinality(Ahead(S, a, score))]
<1>1. /\ \A a \in S : rank[a] \in Nat /\ rank[a] <= Cardinality(S)
      /\ Cardinality(S) \in Nat
  BY Finite, FS_Subset DEF Ahead
<1>2. \A a, b \in S : Before(a, b, score) => rank[a] < rank[b]
  BY AheadOfAhead
<1>3. \A a, b \in S : a = b \/ Before(a, b, score) \/ Before(b, a, score)
  BY Order
<1> HIDE DEF rank
<1>4. \E a \in S : \A b \in S \ {a} : Before(a, b, score)
  <2>1. PICK n \in {rank[a] : a \in S} : \A k \in {rank[a] : a \in S} : n <= k
    <3>1. {rank[a] : a \in S} \subseteq Nat /\ {rank[a] : a \in S} # {}
      BY <1>1
    <3> QED
      BY <3>1, Least
  <2>2. PICK a \in S : n = rank[a]
    OBVIOUS
  <2>3. \A b \in S : rank[a] <= rank[b]
    BY <2>1, <2>2
  <2> QED
    BY <1>1, <1>2, <1>3, <2>3
<1>5. \E a \in S : \A b \in S \ {a} : Before(b, a, score)
  <2> DEFINE back == [a \in S |-> Cardinality(S) - rank[a]]
  <2>0. \A a \in S : back[a] \in Nat /\ back[a] = Cardinality(S) - rank[a]
    BY <1>1
  <2> HIDE DEF back
  <2>1. PICK n \in {back[a] : a \in S} : \A k \in {back[a] : a \in S} : n <= k
    <3>1. {back[a] : a \in S} \subseteq Nat /\ {back[a] : a \in S} # {}
      BY <2>0
    <3> QED
      BY <3>1, Least
  <2>2. PICK a \in S : n = back[a]
    OBVIOUS
  <2>3. \A b \in S : back[a] <= back[b]
    BY <2>1, <2>2
  <2>4. \A b \in S : rank[b] <= rank[a]
    BY <1>1, <2>0, <2>3
  <2> QED
    BY <1>1, <1>2, <1>3, <2>4
<1> QED
  BY <1>4, <1>5
(* There is always a set that the rule of the loop describes.                *)
LEMMA Accepted ==
    ASSUME NEW score \in Scores, NEW limit, NEW fit \in SUBSET Memory
    PROVE  \E G \in SUBSET fit : Accepts(G, fit, limit, score)
<1> DEFINE Bad == {D \in SUBSET Memory : ~\E G \in SUBSET D : Accepts(G, D, limit, score)}
<1>1. SUFFICES ASSUME Bad # {} PROVE FALSE
  OBVIOUS
<1>2. PICK D \in Bad : \A E \in Bad : ~(E \subseteq D /\ E # D)
  <2>1. Bad \subseteq FiniteSubsetsOf(Memory)
    BY Finite DEF FiniteSubsetsOf
  <2>2. PICK D \in Bad : \A E \in Bad : ~(<<E, D>> \in StrictSubsetOrdering(Memory))
    BY <1>1, <2>1, FS_StrictSubsetOrderingWellFounded, WFMin
  <2>3. ASSUME NEW E \in Bad, E \subseteq D, E # D PROVE FALSE
    <3>1. <<E, D>> \in StrictSubsetOrdering(Memory)
      BY <2>3 DEF StrictSubsetOrdering
    <3> QED
      BY <2>2, <3>1
  <2> QED
    BY <2>3
<1>3. D # {}
  <2>1. Accepts({}, {}, limit, score)
    BY DEF Accepts
  <2> QED
    BY <2>1
<1>4. PICK x \in D : \A b \in D \ {x} : Before(b, x, score)
  BY <1>3, Extremes
<1>5. PICK G \in SUBSET (D \ {x}) : Accepts(G, D \ {x}, limit, score)
  BY <1>2
<1> DEFINE takes == /\ Cardinality(Ahead(G, x, score)) < limit
                    /\ \A e \in Ahead(G, x, score) : ~Suppresses(e, x, score)
           H == IF takes THEN G \cup {x} ELSE G
<1>6. \A m \in D : Ahead(H, m, score) = Ahead(G, m, score)
  <2>1. \A m \in D : ~Before(x, m, score)
    BY <1>4, Order
  <2> QED
    BY <2>1 DEF Ahead
<1>7. Accepts(H, D, limit, score)
  <2>1. \A m \in D \ {x} : m \in H <=> m \in G
    OBVIOUS
  <2>2. x \in H <=> takes
    OBVIOUS
  <2>3. \A m \in D \ {x} : m \in H <=> /\ Cardinality(Ahead(H, m, score)) < limit
                                       /\ \A e \in Ahead(H, m, score) : ~Suppresses(e, m, score)
    BY <1>5, <1>6, <2>1 DEF Accepts
  <2>4. x \in H <=> /\ Cardinality(Ahead(H, x, score)) < limit
                    /\ \A e \in Ahead(H, x, score) : ~Suppresses(e, x, score)
    BY <1>6, <2>2
  <2> QED
    BY <2>3, <2>4 DEF Accepts
<1>8. H \in SUBSET D
  OBVIOUS
<1> QED
  BY <1>7, <1>8

(* What is left out is repeated by an entry, or the answer is full of entries *)
(* that come before it.                                                      *)
LEMMA GuardedKeeps ==
    ASSUME NEW o, IsRequest(o), NEW q, NEW entries \in SUBSET Memory, NEW score \in Scores
    PROVE  LET G == Guarded(o, q, entries, score)
           IN  /\ G \subseteq entries \cap q.holds
               /\ \A m \in G : Cardinality(Ahead(G, m, score)) < o.limit
               /\ \A m \in (entries \cap q.holds) \ G :
                     \/ \E e \in G : Suppresses(e, m, score)
                     \/ Cardinality(Ahead(G, m, score)) >= o.limit
<1> DEFINE fit == Fit(q, entries)
           G == Guarded(o, q, entries, score)
<1>1. fit \in SUBSET Memory /\ fit = entries \cap q.holds
  BY DEF Fit
<1>2. G \in SUBSET fit /\ Accepts(G, fit, o.limit, score)
  BY <1>1, Accepted DEF Guarded
<1>3. \A m \in fit : m \in G <=> /\ Cardinality(Ahead(G, m, score)) < o.limit
                                 /\ \A e \in Ahead(G, m, score) : ~Suppresses(e, m, score)
  BY <1>2 DEF Accepts
<1>4. \A m \in fit : Cardinality(Ahead(G, m, score)) \in Nat /\ Ahead(G, m, score) \subseteq G
  BY <1>1, <1>2, Finite DEF Ahead
<1>5. o.limit \in Nat
  BY DEF IsRequest
<1> HIDE DEF fit, G
<1>6. G \subseteq fit
  BY <1>2
<1>7. \A m \in G : Cardinality(Ahead(G, m, score)) < o.limit
  BY <1>3, <1>6
<1>8. \A m \in fit \ G : \/ \E e \in G : Suppresses(e, m, score)
                         \/ Cardinality(Ahead(G, m, score)) >= o.limit
  BY <1>3, <1>4, <1>5
<1> QED
  BY <1>1, <1>6, <1>7, <1>8 DEF G
-----------------------------------------------------------------------------
(* One pass: what it ranks, with which scores, and what is left of it.       *)
ScoresOf(o, q, k, down) ==
    [m \in Memory |-> Score(o, q, m, VectorPass(o, q, k, down), FtsHits(o, q, down))]
Candidates(o, q, k, down) == Fused(o, q, VectorPass(o, q, k, down), FtsHits(o, q, down))
Kept(o, q, k, down) == Guarded(o, q, Candidates(o, q, k, down), ScoresOf(o, q, k, down))

(* Numbers of candidates are numbers.                                        *)
LEMMA CandidateTypes ==
    ASSUME NEW o, IsRequest(o)
    PROVE  /\ CandidateK(o) \in Nat /\ CandidateK(o) >= 1
           /\ Retry \in Nat /\ CandidateK(o) * Retry \in Nat
<1>1. PICK l, w : l \in Nat \ {0} /\ w \in Nat \ {0} /\ CandidateK(o) = l * w
  BY RecallConstants DEF CandidateK, IsRequest
<1>2. l * w \in Nat /\ l * w >= 1
  BY <1>1
<1>3. \A n, r \in Nat : n * r \in Nat
  OBVIOUS
<1> QED
  BY <1>1, <1>2, <1>3, RecallConstants

(* What a pass finds are memories.                                           *)
LEMMA PassTypes ==
    ASSUME NEW o, IsRequest(o), NEW q, IsQuery(q), NEW k, NEW down
    PROVE  /\ VectorPass(o, q, k, down) \subseteq Memory
           /\ FtsHits(o, q, down) \subseteq Memory
           /\ Candidates(o, q, k, down) \subseteq Memory
<1>1. VectorPass(o, q, k, down) \subseteq Memory
  BY DEF VectorPass, Knn, Nearest, Best, Rows
<1>2. FtsHits(o, q, down) \subseteq Memory
  BY DEF FtsHits, FtsIds, Best, Worded
<1> QED
  BY <1>1, <1>2 DEF Candidates, Fused

(* Scores are numbers; the vectors alone give no more than 300.              *)
LEMMA ScoreTypes ==
    ASSUME NEW o, IsRequest(o), NEW q, IsQuery(q), NEW k, NEW down
    PROVE  /\ ScoresOf(o, q, k, down) \in Scores
           /\ \A m \in Memory :
                /\ BaseScore(q, m) \in 0..100
                /\ FtsScore(o, q, m, FtsHits(o, q, down)) \in Nat
<1>1. ASSUME NEW m \in Memory PROVE BaseScore(q, m) \in 0..100
  <2>1. PICK x, y : x \in 0..100 /\ y \in 0..100 /\ BaseScore(q, m) = (x * y) \div 100
    BY RecallConstants DEF BaseScore, IsQuery, Percent
  <2>2. x * y \in 0..10000
    <3>1. x * y >= 0
      BY <2>1
    <3>2. x * y <= 100 * y
      BY <2>1
    <3> QED
      BY <2>1, <3>1, <3>2
  <2> QED
    BY <2>1, <2>2
<1>2. ASSUME NEW m \in Memory PROVE FtsScore(o, q, m, FtsHits(o, q, down)) \in Nat
  <2>1. FtsRank(o, q, m) \in Nat /\ FtsRank(o, q, m) >= 1
    BY Finite DEF FtsRank, Ahead, Worded
  <2>2. 60 + FtsRank(o, q, m) \in Nat /\ 60 + FtsRank(o, q, m) > 0
    BY <2>1
  <2>3. \A d \in Nat : d > 0 => 42700 \div d \in Nat
    OBVIOUS
  <2>4. ((RrfK + 1) * 100 * FtsWeight) \div (RrfK + FtsRank(o, q, m)) \in Nat
    BY <2>2, <2>3 DEF RrfK, FtsWeight
  <2> QED
    BY <2>4 DEF FtsScore
<1>3. ASSUME NEW m \in Memory
      PROVE  Score(o, q, m, VectorPass(o, q, k, down), FtsHits(o, q, down)) \in Int
  <2>1. BaseScore(q, m) * 10 \in Int /\ BaseScore(q, m) * VectorWeight \in Int
    BY <1>1 DEF VectorWeight
  <2> QED
    BY <1>2, <2>1 DEF Score
<1> QED
  BY <1>1, <1>2, <1>3 DEF ScoresOf, Scores

(* The entries of a pass are the memories that it keeps, each once.          *)
LEMMA PassEntries ==
    ASSUME NEW o, IsRequest(o), NEW q, IsQuery(q), NEW k, NEW down
    PROVE  /\ Kept(o, q, k, down) \subseteq Memory
           /\ TopAfter(o, q, k, down) =
                {Entry(m, ScoresOf(o, q, k, down), VectorPass(o, q, k, down)) :
                    m \in Kept(o, q, k, down)}
           /\ Ids(TopAfter(o, q, k, down)) = Kept(o, q, k, down)
           /\ IsFiniteSet(TopAfter(o, q, k, down))
           /\ Cardinality(TopAfter(o, q, k, down)) = Cardinality(Kept(o, q, k, down))
<1> DEFINE top == TopAfter(o, q, k, down)
           kept == Kept(o, q, k, down)
           entry == [m \in kept |-> Entry(m, ScoresOf(o, q, k, down), VectorPass(o, q, k, down))]
<1>1. kept \subseteq Memory
  BY PassTypes, ScoreTypes, GuardedKeeps DEF Kept
<1>2. top = {Entry(m, ScoresOf(o, q, k, down), VectorPass(o, q, k, down)) : m \in kept}
  BY DEF TopAfter, Kept, ScoresOf, Candidates
<1>3. \A m \in kept : entry[m] \in top /\ entry[m].id = m
  BY <1>2 DEF Entry
<1>5. \A e \in top : \E m \in kept : e = entry[m]
  BY <1>2
<1> HIDE DEF top, kept
<1>6. entry \in [kept -> top]
  BY <1>3
<1> HIDE DEF entry
<1>4. Ids(top) = kept
  BY <1>3, <1>5 DEF Ids
<1>7. entry \in Bijection(kept, top)
  <2>1. \A a, b \in kept : entry[a] = entry[b] => a = b
    BY <1>3
  <2>2. entry \in Injection(kept, top)
    BY <1>6, <2>1 DEF Injection, IsInjective
  <2>3. entry \in Surjection(kept, top)
    BY <1>5, <1>6 DEF Surjection
  <2> QED
    BY <2>2, <2>3 DEF Bijection
<1>8. IsFiniteSet(kept)
  BY <1>1, Finite
<1>9. IsFiniteSet(top) /\ Cardinality(top) = Cardinality(kept)
  BY <1>7, <1>8, FS_Bijection DEF ExistsBijection
<1> QED
  BY <1>1, <1>2, <1>4, <1>9 DEF top, kept
(* When all rows of a kind are near enough, a pass that comes out short has   *)
(* left out nothing of that kind but what an entry repeats.                  *)
LEMMA PassIsFull ==
    ASSUME NEW o, IsRequest(o), NEW q, IsQuery(q), NEW k \in Nat, o.mode # "keyword",
           NEW t \in o.types, Cardinality(Rows(o, t)) <= k,
           Cardinality(TopAfter(o, q, k, {})) < o.limit,
           NEW m \in Rows(o, t) \cap q.holds, Eligible(o, m), Certain[m] >= o.least
    PROVE  \/ m \in Ids(TopAfter(o, q, k, {}))
           \/ \E e \in Ids(TopAfter(o, q, k, {})) : Kind[e] = t /\ Overlap[<<e, m>>] >= 50
<1> DEFINE kept == Kept(o, q, k, {})
           rows == Rows(o, t)
<1>1. /\ rows \in SUBSET Memory /\ m \in Memory /\ Kind[m] = t
      /\ IsFiniteSet(rows) /\ Cardinality(rows) \in Nat
  BY Finite DEF Rows
<1>2. m \in Nearest(o, q, t, k)
  <2>0. q.near \in Scores
    BY DEF IsQuery, Scores, Percent
  <2>1. Ahead(rows, m, q.near) \subseteq rows \ {m}
    BY <1>1, <2>0, Order DEF Ahead
  <2>2. Cardinality(rows \ {m}) = Cardinality(rows) - 1
    BY <1>1, FS_RemoveElement
  <2>3. IsFiniteSet(rows \ {m})
    BY <1>1, FS_RemoveElement
  <2>4. /\ Cardinality(Ahead(rows, m, q.near)) <= Cardinality(rows \ {m})
        /\ Cardinality(Ahead(rows, m, q.near)) \in Nat
    BY <2>1, <2>3, FS_Subset, FS_CardinalityType
  <2>5. LeastOf(k, Cardinality(rows)) = Cardinality(rows)
    BY <1>1 DEF LeastOf
  <2> QED
    BY <1>1, <2>2, <2>4, <2>5 DEF Nearest, Best
<1>3. m \in VectorPass(o, q, k, {})
  BY <1>2 DEF VectorPass, Knn, Eligible
<1>4. m \in Candidates(o, q, k, {}) \cap q.holds
  BY <1>3 DEF Candidates, Fused
<1>5. \/ m \in kept
      \/ \E e \in kept : Suppresses(e, m, ScoresOf(o, q, k, {}))
      \/ Cardinality(Ahead(kept, m, ScoresOf(o, q, k, {}))) >= o.limit
  BY <1>4, PassTypes, ScoreTypes, GuardedKeeps DEF Kept
<1>6. /\ kept \subseteq Memory /\ Ids(TopAfter(o, q, k, {})) = kept
      /\ Cardinality(TopAfter(o, q, k, {})) = Cardinality(kept)
  BY PassEntries
<1> HIDE DEF kept
<1>7. Cardinality(Ahead(kept, m, ScoresOf(o, q, k, {}))) <= Cardinality(kept)
  BY <1>6, Finite, FS_Subset DEF Ahead
<1>8. /\ Cardinality(Ahead(kept, m, ScoresOf(o, q, k, {}))) \in Nat
      /\ Cardinality(kept) \in Nat /\ o.limit \in Nat
  BY <1>6, Finite DEF Ahead, IsRequest
<1> QED
  BY <1>1, <1>5, <1>6, <1>7, <1>8 DEF Suppresses

(* The second pass reaches the largest of the partitions that are searched.  *)
LEMMA LargestReached ==
    ASSUME NEW o, IsRequest(o), NEW t \in o.types
    PROVE  /\ LargestPartition(o) \in Nat
           /\ Cardinality(Rows(o, t)) \in Nat
           /\ Cardinality(Rows(o, t)) <= LargestPartition(o)
<1> DEFINE size == [u \in Types |-> Cardinality(Rows(o, u))]
           counts == {Cardinality(Rows(o, u)) : u \in o.types}
<1>1. o.types \subseteq Types /\ \A u \in Types : size[u] \in Nat
  BY Finite DEF Rows, IsRequest
<1>2. counts = {size[u] : u \in o.types}
  BY <1>1
<1> HIDE DEF size
<1>3. \E c \in counts : \A d \in counts : d <= c
  <2>1. \E u \in o.types : \A v \in o.types : size[v] <= size[u]
    BY <1>1 DEF Types
  <2> QED
    BY <1>2, <2>1
<1>4. Cardinality(Rows(o, t)) \in counts /\ counts \subseteq Nat
  BY <1>1, <1>2
<1> QED
  BY <1>3, <1>4 DEF LargestPartition

(* So is an answer, after one pass or two.                                   *)
LEMMA AnswerIsFull ==
    ASSUME NEW o, IsRequest(o), NEW q, IsQuery(q), o.mode # "keyword",
           NEW t \in o.types, Cardinality(Rows(o, t)) <= Reach(o),
           Cardinality(Top(o, q, {})) < o.limit,
           NEW m \in Rows(o, t) \cap q.holds, Eligible(o, m), Certain[m] >= o.least
    PROVE  \/ m \in Ids(Top(o, q, {}))
           \/ \E e \in Ids(Top(o, q, {})) : Kind[e] = t /\ Overlap[<<e, m>>] >= 50
<1>1. /\ CandidateK(o) \in Nat /\ Retry \in Nat
      /\ CandidateK(o) * Retry \in Nat /\ o.mine \in BOOLEAN
  BY CandidateTypes DEF IsRequest
<1>2. /\ LargestPartition(o) \in Nat /\ Cardinality(Rows(o, t)) \in Nat
      /\ Cardinality(Rows(o, t)) <= LargestPartition(o)
  BY LargestReached
<1>3. RetryK(o) \in Nat /\ (o.mine => Cardinality(Rows(o, t)) <= RetryK(o))
  BY <1>1, <1>2 DEF RetryK, LeastOf, Reach
<1>4. CASE Top(o, q, {}) = TopAfter(o, q, RetryK(o), {}) /\ o.mine
  BY <1>3, <1>4, PassIsFull
<1>5. CASE Top(o, q, {}) = TopAfter(o, q, CandidateK(o), {})
           /\ ~(o.mine /\ RetryK(o) > CandidateK(o))
  <2>1. Cardinality(Rows(o, t)) <= CandidateK(o)
    BY <1>1, <1>2, <1>3, <1>5 DEF Reach
  <2> QED
    BY <1>1, <1>5, <2>1, PassIsFull
<1> QED
  BY <1>4, <1>5 DEF Top
LEMMA TopIsPass ==
    ASSUME NEW o, NEW q, NEW down
    PROVE  \E k : Top(o, q, down) = TopAfter(o, q, k, down)
  BY DEF Top

(* The best keyword hit has a higher score than anything without its words.  *)
LEMMA WordsScoreHigher ==
    ASSUME NEW o, IsRequest(o), NEW q, IsQuery(q), NEW k, NEW down, o.mode = "hybrid",
           NEW b \in FtsHits(o, q, down), FtsRank(o, q, b) = 1,
           NEW n \in Memory \ FtsHits(o, q, down)
    PROVE  Before(b, n, ScoresOf(o, q, k, down))
<1> DEFINE scores == ScoresOf(o, q, k, down)
<1>1. b \in Memory /\ BaseScore(q, b) \in 0..100 /\ BaseScore(q, n) \in 0..100
  BY PassTypes, ScoreTypes
<1>2. FtsScore(o, q, b, FtsHits(o, q, down)) = 700 /\ FtsScore(o, q, n, FtsHits(o, q, down)) = 0
  BY DEF FtsScore, RrfK, FtsWeight
<1>3. scores[b] \in Int /\ scores[b] >= 700
  BY <1>1, <1>2 DEF ScoresOf, Score, VectorWeight
<1>4. scores[n] \in Int /\ scores[n] <= 300
  BY <1>1, <1>2 DEF ScoresOf, Score, VectorWeight
<1> QED
  BY <1>3, <1>4 DEF Before

(* So it comes before them in what a pass keeps, unless an entry repeats it. *)
LEMMA PassPutsWordsFirst ==
    ASSUME NEW o, IsRequest(o), NEW q, IsQuery(q), NEW k, NEW down, o.mode = "hybrid",
           NEW b \in FtsHits(o, q, down) \cap q.holds, FtsRank(o, q, b) = 1, Eligible(o, b),
           LeastOf(Certain[b], Coarse[b]) >= o.least,
           NEW n \in Kept(o, q, k, down) \ FtsHits(o, q, down)
    PROVE  \/ b \in Kept(o, q, k, down) /\ Before(b, n, ScoresOf(o, q, k, down))
           \/ \E e \in Kept(o, q, k, down) : Kind[e] = Kind[b] /\ Overlap[<<e, b>>] >= 50
<1> DEFINE kept == Kept(o, q, k, down)
           scores == ScoresOf(o, q, k, down)
           ahead(m) == Ahead(kept, m, scores)
<1>1. kept \subseteq Memory /\ scores \in Scores /\ b \in Memory
  BY PassEntries, PassTypes, ScoreTypes
<1>2. Before(b, n, scores)
  BY <1>1, WordsScoreHigher
<1>3. b \in Candidates(o, q, k, down)
  <2>0. Certain[b] \in 0..100 /\ Coarse[b] \in 0..100 /\ o.least \in 0..100
    BY <1>1, RecallConstants DEF IsRequest, Percent
  <2>a. \A x, y, z \in 0..100 : LeastOf(x, y) >= z => x >= z /\ y >= z
    BY DEF LeastOf
  <2>1. Certain[b] >= o.least /\ Coarse[b] >= o.least
    BY <2>0, <2>a
  <2> QED
    BY <2>1 DEF Candidates, Fused, LoadFtsOnly, Eligible
<1>4. \/ b \in kept
      \/ \E e \in kept : Suppresses(e, b, scores)
      \/ Cardinality(ahead(b)) >= o.limit
  BY <1>3, PassTypes, ScoreTypes, GuardedKeeps DEF Kept
<1>5. Cardinality(ahead(n)) < o.limit
  BY PassTypes, ScoreTypes, GuardedKeeps DEF Kept
<1>6. /\ Cardinality(ahead(b)) <= Cardinality(ahead(n)) /\ o.limit \in Nat
      /\ Cardinality(ahead(b)) \in Nat /\ Cardinality(ahead(n)) \in Nat
  <2>1. ahead(b) \subseteq ahead(n)
    BY <1>1, <1>2, Order DEF Ahead
  <2>2. IsFiniteSet(ahead(n)) /\ ahead(n) \subseteq Memory
    BY <1>1, Finite DEF Ahead
  <2> QED
    BY <2>1, <2>2, Finite, FS_Subset DEF IsRequest
<1> QED
  BY <1>2, <1>4, <1>5, <1>6 DEF Suppresses

(* The same of an answer, after one pass or two.                             *)
LEMMA AnswerPutsWordsFirst ==
    ASSUME NEW o, IsRequest(o), NEW q, IsQuery(q), NEW down, o.mode = "hybrid",
           NEW b \in FtsHits(o, q, down) \cap q.holds, FtsRank(o, q, b) = 1, Eligible(o, b),
           LeastOf(Certain[b], Coarse[b]) >= o.least,
           NEW n \in Ids(Top(o, q, down)) \ FtsHits(o, q, down)
    PROVE  \/ \E e, f \in Top(o, q, down) : e.id = b /\ f.id = n /\ Better(e, f)
           \/ \E e \in Ids(Top(o, q, down)) : Kind[e] = Kind[b] /\ Overlap[<<e, b>>] >= 50
<1>1. PICK k : Top(o, q, down) = TopAfter(o, q, k, down)
  BY TopIsPass
<1>2. Ids(Top(o, q, down)) = Kept(o, q, k, down)
  BY <1>1, PassEntries
<1> DEFINE entry(m) == Entry(m, ScoresOf(o, q, k, down), VectorPass(o, q, k, down))
<1>3. \A m \in Kept(o, q, k, down) : entry(m) \in Top(o, q, down)
  BY <1>1, PassEntries
<1>4. \A m : entry(m).id = m /\ entry(m).score = ScoresOf(o, q, k, down)[m]
  BY DEF Entry
<1>5. ASSUME b \in Kept(o, q, k, down), Before(b, n, ScoresOf(o, q, k, down))
      PROVE  \E e, f \in Top(o, q, down) : e.id = b /\ f.id = n /\ Better(e, f)
  <2>1. entry(b) \in Top(o, q, down) /\ entry(n) \in Top(o, q, down)
    BY <1>2, <1>3, <1>5
  <2>2. Better(entry(b), entry(n))
    BY <1>4, <1>5 DEF Better, Before
  <2> HIDE DEF entry
  <2> QED
    BY <1>4, <2>1, <2>2
<1> QED
  BY <1>2, <1>5, PassPutsWordsFirst
-----------------------------------------------------------------------------
(* Entries of an answer: of one memory each, and ranked.                     *)
WellListed(entries) ==
    /\ \A e \in entries : e.id \in Memory /\ e.score \in Int
    /\ \A e, f \in entries : e.id = f.id => e = f

(* So are the entries of every answer.                                       *)
LEMMA AnswerIsListed ==
    ASSUME NEW o, IsRequest(o), NEW q, IsQuery(q), NEW down
    PROVE  WellListed(Top(o, q, down))
<1>1. PICK k : Top(o, q, down) = TopAfter(o, q, k, down)
  BY TopIsPass
<1>2. \A m \in Memory :
        /\ Entry(m, ScoresOf(o, q, k, down), VectorPass(o, q, k, down)).id = m
        /\ Entry(m, ScoresOf(o, q, k, down), VectorPass(o, q, k, down)).score \in Int
  BY ScoreTypes DEF Entry, Scores
<1>3. /\ Kept(o, q, k, down) \subseteq Memory
      /\ \A e \in Top(o, q, down) : \E m \in Kept(o, q, k, down) :
           e = Entry(m, ScoresOf(o, q, k, down), VectorPass(o, q, k, down))
  BY <1>1, PassEntries
<1> QED
  BY <1>2, <1>3 DEF WellListed

(* One of some entries is yielded first.                                     *)
LEMMA FirstEntry ==
    ASSUME NEW entries, WellListed(entries), entries # {}
    PROVE  \E e \in entries : /\ \A f \in entries \ {e} : Better(e, f)
                              /\ \A f \in entries : ~Better(f, e)
<1> DEFINE of(m) == CHOOSE e \in entries : e.id = m
           score == [m \in Memory |-> IF m \in Ids(entries) THEN of(m).score ELSE 0]
<1>1. \A e \in entries : e.id \in Memory /\ e.id \in Ids(entries) /\ of(e.id) = e
  BY DEF WellListed, Ids
<1>2. \A e \in entries : score[e.id] = e.score /\ e.score \in Int
  BY <1>1 DEF WellListed
<1>3. score \in Scores
  <2>1. \A m \in Ids(entries) : \E e \in entries : e.id = m
    BY DEF Ids
  <2>2. ASSUME NEW m \in Memory PROVE score[m] \in Int
    <3>1. CASE m \in Ids(entries)
      <4>1. PICK e \in entries : e.id = m
        BY <2>1, <3>1
      <4> QED
        BY <1>2, <4>1
    <3>2. CASE m \notin Ids(entries)
      BY <3>2
    <3> QED
      BY <3>1, <3>2
  <2> QED
    BY <2>2 DEF Scores
<1>4. Ids(entries) \in SUBSET Memory /\ Ids(entries) # {}
  BY <1>1 DEF Ids
<1> HIDE DEF score
<1>5. PICK m \in Ids(entries) : \A n \in Ids(entries) \ {m} : Before(m, n, score)
  BY <1>3, <1>4, Extremes
<1>6. PICK e \in entries : e.id = m
  BY <1>5 DEF Ids
<1>7. \A f \in entries \ {e} : Better(e, f)
  <2>1. \A f \in entries \ {e} : f.id \in Ids(entries) \ {m}
    BY <1>1, <1>6 DEF WellListed
  <2> QED
    BY <1>2, <1>5, <1>6, <2>1 DEF Before, Better
<1>8. \A f \in entries : ~Better(f, e)
  <2>0. Memory \subseteq Nat
    BY RecallConstants
  <2>1. ASSUME NEW f \in entries PROVE f.id \in Int /\ f.score \in Int
    <3>1. f.id \in Memory /\ f.score \in Int
      BY DEF WellListed
    <3>2. f.id \in Nat
      BY <2>0, <3>1
    <3> QED
      BY <3>1, <3>2
  <2> QED
    BY <1>7, <2>1 DEF Better
<1> QED
  BY <1>7, <1>8

(* A search depends on nothing but the states of the memories.               *)
LEMMA SameState ==
    ASSUME UNCHANGED state
    PROVE  /\ \A o, t : Rows(o, t)' = Rows(o, t)
           /\ \A o, m : Eligible(o, m)' <=> Eligible(o, m)
           /\ \A o, q, down : Top(o, q, down)' = Top(o, q, down)
<1>1. ASSUME NEW o, NEW t PROVE Rows(o, t)' = Rows(o, t)
  BY DEF Rows, Indexed
<1>2. ASSUME NEW o, NEW m PROVE Eligible(o, m)' <=> Eligible(o, m)
  BY DEF Eligible, Owned, Stands, Passes
<1>3. ASSUME NEW o, NEW q, NEW k, NEW down
      PROVE  VectorPass(o, q, k, down)' = VectorPass(o, q, k, down)
  BY <1>1 DEF VectorPass, Knn, Nearest, Best, Ahead, Before, LeastOf, Stands, Passes, Rows, Indexed
<1>4. ASSUME NEW o, NEW q, NEW t PROVE Worded(o, q, t)' = Worded(o, q, t)
  BY DEF Worded, Served, Owned
<1>5. ASSUME NEW o, NEW q, NEW t PROVE FtsIds(o, q, t)' = FtsIds(o, q, t)
  BY <1>4 DEF FtsIds, Best, Ahead, Before, CandidateK, Filtered
<1>6. ASSUME NEW o, NEW q, NEW down PROVE FtsHits(o, q, down)' = FtsHits(o, q, down)
  BY <1>5 DEF FtsHits
<1>7. ASSUME NEW o, NEW q, NEW m PROVE FtsRank(o, q, m)' = FtsRank(o, q, m)
  BY <1>4 DEF FtsRank, Ahead, Before
<1>8. ASSUME NEW o, NEW q, NEW found, NEW hits
      PROVE  Fused(o, q, found, hits)' = Fused(o, q, found, hits)
  BY DEF Fused, LoadFtsOnly, Owned, Stands, Passes
<1>9. ASSUME NEW o, NEW q, NEW m, NEW found, NEW hits
      PROVE  Score(o, q, m, found, hits)' = Score(o, q, m, found, hits)
  BY <1>7 DEF Score, FtsScore
<1>10. ASSUME NEW m, NEW score, NEW found
       PROVE  Entry(m, score, found)' = Entry(m, score, found)
  BY DEF Entry
<1>11. ASSUME NEW o, NEW q, NEW k, NEW down
       PROVE  TopAfter(o, q, k, down)' = TopAfter(o, q, k, down)
  BY <1>3, <1>6, <1>8, <1>9, <1>10 DEF TopAfter
<1>12. ASSUME NEW o PROVE RetryK(o)' = RetryK(o)
  BY <1>1 DEF RetryK, LargestPartition
<1>13. ASSUME NEW o, NEW q, NEW down PROVE Top(o, q, down)' = Top(o, q, down)
  BY <1>11, <1>12 DEF Top
<1> QED
  BY <1>1, <1>2, <1>13
-----------------------------------------------------------------------------
(* What a recall knows.  Until somebody changes a memory or something fails, *)
(* what it has shown and what it has yet to show are what a search would     *)
(* find now.                                                                 *)
CallInv ==
    /\ changes \in Nat
    /\ call.at \in {"idle", "embedding", "yielding", "answered", "failed"}
    /\ call.at = "idle" => call = Asleep
    /\ call.at # "idle" =>
        /\ call = [at |-> call.at, opt |-> call.opt, query |-> call.query,
                   errors |-> call.errors, top |-> call.top, shown |-> call.shown]
        /\ IsRequest(call.opt) /\ IsQuery(call.query)
    /\ call.at = "embedding" => call.top = {} /\ call.shown = {}
    /\ call.at = "answered" => call.top = {}
    /\ WellListed(call.top \cup call.shown) /\ call.top \cap call.shown = {}
    /\ call.at \in {"yielding", "answered"} /\ changes = 0 /\ call.errors = {} =>
        call.top \cup call.shown = Top(call.opt, call.query, call.errors)

(* The steps that a recall can take.                                         *)
RecallStep ==
    \/ \E o, q : IsRequest(o) /\ IsQuery(q) /\ Ask(o, q)
    \/ \E down : Search(down)
    \/ EmbedFails
    \/ Yield
    \/ YieldUnreinforced
    \/ \E m, s : Change(m, s)
    \/ UNCHANGED recallVars

(* Every step of the system is one of these.                                 *)
LEMMA RecallSteps ==
    ASSUME CallInv, [PreflightNext]_allVars
    PROVE  RecallStep
<1>1. CASE \E o \in Request, q \in Query : call.at = "idle" /\ Ask(o, q) /\ UNCHANGED flight
  BY <1>1, RecallConstants DEF RecallStep
<1>2. CASE \E strict \in BOOLEAN, q \in Query : Preflight(strict, q)
  BY <1>2, RecallConstants, PreflightConstants DEF RecallStep, Preflight
<1>3. CASE (Answering \/ Others) /\ UNCHANGED flight
  BY <1>3 DEF RecallStep, Answering, Others
<1>4. CASE \E s \in Signals : Build(s)
  <2>1. PICK s \in Signals : Build(s)
    BY <1>4
  <2>2. call.at = "answered" /\ (Ask(SweepRequest, call.query) \/ UNCHANGED recallVars)
    BY <2>1 DEF Build
  <2>3. IsQuery(call.query) /\ IsRequest(SweepRequest)
    BY <2>2, PreflightConstants DEF CallInv
  <2> QED
    BY <2>2, <2>3 DEF RecallStep
<1>5. CASE Sweep \/ CapsuleFails
  BY <1>5 DEF RecallStep, Sweep, CapsuleFails
<1>6. CASE UNCHANGED allVars
  BY <1>6 DEF RecallStep, allVars
<1> QED
  BY <1>1, <1>2, <1>3, <1>4, <1>5, <1>6 DEF PreflightNext

(* A primed answer is that of the primed call.                               *)
LEMMA OneTop ==
    \A o, q, d : call.opt = o /\ call.query = q /\ call.errors = d =>
        Top(call.opt, call.query, call.errors) = Top(o, q, d)
  OBVIOUS

(* It stays what it was, when the memories do.                               *)
LEMMA SameTop ==
    ASSUME UNCHANGED state
    PROVE  Top(call.opt, call.query, call.errors)' = Top(call'.opt, call'.query, call'.errors)
<1>1. (\A o, q, d : call.opt = o /\ call.query = q /\ call.errors = d =>
         Top(call.opt, call.query, call.errors) = Top(o, q, d))'
  BY OneTop, PTL
<1>2. \A o, q, d : call'.opt = o /\ call'.query = q /\ call'.errors = d =>
         Top(call.opt, call.query, call.errors)' = Top(o, q, d)'
  BY <1>1
<1> QED
  BY <1>2, SameState

(* Each of them keeps what a recall knows.                                   *)
LEMMA CallStep ==
    ASSUME CallInv, RecallStep
    PROVE  CallInv'
<1>1. ASSUME NEW o, NEW q, IsRequest(o), IsQuery(q), Ask(o, q) PROVE CallInv'
  <2>1. call' = [at |-> "embedding", opt |-> o, query |-> q, errors |-> {},
                 top |-> {}, shown |-> {}]
    BY <1>1 DEF Ask
  <2>2. changes' \in Nat
    BY <1>1 DEF Ask, CallInv
  <2> QED
    BY <1>1, <2>1, <2>2 DEF CallInv, WellListed
<1>2. ASSUME NEW down, Search(down) PROVE CallInv'
  <2>1. PICK failed : call' = [call EXCEPT !.at = "yielding",
                                           !.top = Top(call.opt, call.query, failed),
                                           !.errors = failed]
    BY <1>2 DEF Search
  <2>2. call.at = "embedding" /\ UNCHANGED <<state, changes>>
    BY <1>2 DEF Search
  <2>3. call' = [at |-> "yielding", opt |-> call.opt, query |-> call.query, errors |-> failed,
                 top |-> Top(call.opt, call.query, failed), shown |-> {}]
    BY <2>1, <2>2 DEF CallInv
  <2>4. WellListed(Top(call.opt, call.query, failed))
    BY <2>2, AnswerIsListed DEF CallInv
  <2>5. Top(call.opt, call.query, call.errors)' = Top(call'.opt, call'.query, call'.errors)
    BY <2>2, SameTop
  <2>6. call'.top \cup call'.shown = Top(call.opt, call.query, call.errors)'
    BY <2>3, <2>5
  <2>7. WellListed(call'.top \cup call'.shown) /\ call'.top \cap call'.shown = {}
    BY <2>3, <2>4
  <2>8. IsRequest(call'.opt) /\ IsQuery(call'.query) /\ changes' \in Nat
    BY <2>2, <2>3 DEF CallInv
  <2> QED
    BY <2>3, <2>6, <2>7, <2>8 DEF CallInv
<1>3. CASE EmbedFails
  <2>1. call' = [call EXCEPT !.at = "failed"] /\ call.at = "embedding" /\ UNCHANGED <<state, changes>>
    BY <1>3 DEF EmbedFails
  <2>2. call' = [at |-> "failed", opt |-> call.opt, query |-> call.query, errors |-> call.errors,
                 top |-> call.top, shown |-> call.shown]
    BY <2>1 DEF CallInv
  <2> QED
    BY <2>1, <2>2 DEF CallInv, WellListed
<1>4. CASE Yield
  <2>0. call.at = "yielding" /\ UNCHANGED <<state, changes>>
    BY <1>4 DEF Yield
  <2>1. Top(call.opt, call.query, call.errors)' = Top(call'.opt, call'.query, call'.errors)
    BY <2>0, SameTop
  <2>2. changes = 0 /\ call.errors = {} => call.top \cup call.shown = Top(call.opt, call.query, call.errors)
    BY <2>0 DEF CallInv
  <2>3. IsRequest(call.opt) /\ IsQuery(call.query) /\ changes' \in Nat
    BY <2>0 DEF CallInv
  <2>4. WellListed(call.top \cup call.shown) /\ call.top \cap call.shown = {}
    BY DEF CallInv
  <2>5. CASE call.top = {}
    <3>1. call' = [call EXCEPT !.at = "answered"]
      BY <1>4, <2>5 DEF Yield
    <3>2. call' = [at |-> "answered", opt |-> call.opt, query |-> call.query,
                   errors |-> call.errors, top |-> {}, shown |-> call.shown]
      BY <2>0, <2>5, <3>1 DEF CallInv
    <3>3. changes' = 0 /\ call'.errors = {} =>
            call'.top \cup call'.shown = Top(call.opt, call.query, call.errors)'
      BY <2>0, <2>1, <2>2, <2>5, <3>2
    <3>4. WellListed(call'.top \cup call'.shown)
      BY <2>4, <2>5, <3>2
    <3> QED
      BY <2>3, <3>2, <3>3, <3>4 DEF CallInv
  <2>6. CASE call.top # {}
    <3> DEFINE e == CHOOSE e \in call.top : \A f \in call.top \ {e} : Better(e, f)
    <3>1. e \in call.top
      <4>1. WellListed(call.top)
        BY <2>4 DEF WellListed
      <4> QED
        BY <2>6, <4>1, FirstEntry
    <3>2. call' = [call EXCEPT !.top = @ \ {e}, !.shown = @ \cup {e}]
      BY <1>4, <2>6 DEF Yield
    <3> HIDE DEF e
    <3>3. call' = [at |-> "yielding", opt |-> call.opt, query |-> call.query,
                   errors |-> call.errors, top |-> call.top \ {e}, shown |-> call.shown \cup {e}]
      BY <2>0, <3>2 DEF CallInv
    <3>4. call'.top \cup call'.shown = call.top \cup call.shown /\ call'.top \cap call'.shown = {}
      BY <2>4, <3>1, <3>3
    <3>5. changes' = 0 /\ call'.errors = {} =>
            call'.top \cup call'.shown = Top(call.opt, call.query, call.errors)'
      BY <2>0, <2>1, <2>2, <3>3, <3>4
    <3>6. WellListed(call'.top \cup call'.shown)
      BY <2>4, <3>4
    <3> QED
      BY <2>3, <3>3, <3>4, <3>5, <3>6 DEF CallInv
  <2> QED
    BY <2>5, <2>6
<1>5. ASSUME NEW m, NEW s, Change(m, s) PROVE CallInv'
  <2>1. changes' = changes + 1 /\ UNCHANGED call
    BY <1>5 DEF Change
  <2>2. changes' \in Nat /\ changes' # 0
    BY <2>1 DEF CallInv
  <2> QED
    BY <2>1, <2>2 DEF CallInv, WellListed
<1>6. CASE UNCHANGED recallVars
  <2>1. UNCHANGED <<state, call, changes>>
    BY <1>6 DEF recallVars
  <2>2. Top(call.opt, call.query, call.errors)' = Top(call.opt, call.query, call.errors)
    BY <2>1, SameTop
  <2> QED
    BY <2>1, <2>2 DEF CallInv, WellListed
<1>7. CASE YieldUnreinforced
  <2>1. PICK e \in call.top :
          call' = [call EXCEPT !.top = @ \ {e}, !.shown = @ \cup {e},
                               !.errors = @ \cup {Kind[e.id]}]
    BY <1>7 DEF YieldUnreinforced
  <2>2. call.at = "yielding" /\ UNCHANGED <<state, changes>>
    BY <1>7 DEF YieldUnreinforced
  <2>3. call' = [at |-> "yielding", opt |-> call.opt, query |-> call.query,
                 errors |-> call.errors \cup {Kind[e.id]},
                 top |-> call.top \ {e}, shown |-> call.shown \cup {e}]
    BY <2>1, <2>2 DEF CallInv
  <2>4. WellListed(call.top \cup call.shown) /\ call.top \cap call.shown = {}
    BY DEF CallInv
  <2>5. call'.top \cup call'.shown = call.top \cup call.shown /\ call'.top \cap call'.shown = {}
    BY <2>1, <2>3, <2>4
  <2>6. WellListed(call'.top \cup call'.shown) /\ call'.errors # {}
    BY <2>3, <2>4, <2>5
  <2> QED
    BY <2>2, <2>3, <2>5, <2>6 DEF CallInv
<1> QED
  BY <1>1, <1>2, <1>3, <1>4, <1>5, <1>6, <1>7 DEF RecallStep

(* What a recall has shown and has yet to show is what a search would find,  *)
(* until somebody changes a memory or something fails.                       *)
THEOREM CallInvariant == PreflightSpec => []CallInv
<1>1. AllInit => CallInv
  BY DEF AllInit, RecallInit, CallInv, Asleep, WellListed
<1>2. CallInv /\ [PreflightNext]_allVars => CallInv'
  BY CallStep, RecallSteps
<1> QED
  BY <1>1, <1>2, PTL DEF PreflightSpec
-----------------------------------------------------------------------------
(* What the vectors find stands, passes the filters and has the right owner. *)
LEMMA FoundIsEligible ==
    ASSUME NEW o, NEW q, NEW k, NEW down, NEW m \in VectorPass(o, q, k, down)
    PROVE  m \in Memory /\ Eligible(o, m)
<1>1. PICK t \in o.types \ down : m \in Knn(o, q, t, k)
  BY DEF VectorPass
<1>2. m \in Rows(o, t) /\ Stands(o, m) /\ Passes(o, m)
  BY <1>1 DEF Knn, Nearest, Best
<1> QED
  BY <1>2 DEF Rows, Eligible, Owned

(* So do the entries of an answer, however they were found.                  *)
LEMMA AnswerIsEligible ==
    ASSUME NEW o, IsRequest(o), NEW q, IsQuery(q), NEW down, NEW m \in Ids(Top(o, q, down))
    PROVE  m \in Memory /\ Eligible(o, m)
<1>1. PICK k : Top(o, q, down) = TopAfter(o, q, k, down)
  BY TopIsPass
<1> DEFINE found == VectorPass(o, q, k, down)
           hits == FtsHits(o, q, down)
<1>2. m \in Kept(o, q, k, down)
  BY <1>1, PassEntries
<1>3. m \in Memory /\ m \in Fused(o, q, found, hits)
  BY <1>2, PassTypes, ScoreTypes, GuardedKeeps DEF Kept, Candidates
<1>4. CASE m \in found
  BY <1>4, FoundIsEligible
<1>5. CASE m \notin found
  BY <1>3, <1>5 DEF Fused, LoadFtsOnly, Eligible
<1> QED
  BY <1>4, <1>5

(* A search answers with what is to be found.                                *)
LEMMA SearchAnswers ==
    ASSUME CallInv, RecallStep, Searched
    PROVE  /\ call'.top = Top(call.opt, call.query, call'.errors)
           /\ IsRequest(call.opt) /\ IsQuery(call.query)
<1>1. IsRequest(call.opt) /\ IsQuery(call.query)
  BY DEF CallInv, Searched
<1>2. ASSUME NEW o, NEW q, Ask(o, q) PROVE FALSE
  BY <1>2 DEF Ask, Searched
<1>3. ASSUME NEW down, Search(down) PROVE call'.top = Top(call.opt, call.query, call'.errors)
  <2>1. PICK failed : call' = [call EXCEPT !.at = "yielding",
                                           !.top = Top(call.opt, call.query, failed),
                                           !.errors = failed]
    BY <1>3 DEF Search
  <2>2. call' = [at |-> "yielding", opt |-> call.opt, query |-> call.query, errors |-> failed,
                 top |-> Top(call.opt, call.query, failed), shown |-> call.shown]
    BY <2>1 DEF CallInv, Searched
  <2> QED
    BY <2>2
<1>4. ~EmbedFails
  <2>1. ASSUME EmbedFails PROVE FALSE
    <3>1. call' = [call EXCEPT !.at = "failed"]
      BY <2>1 DEF EmbedFails
    <3>2. call'.at = "failed"
      BY <3>1 DEF CallInv, Searched
    <3> QED
      BY <3>2 DEF Searched
  <2> QED
    BY <2>1
<1>5. ~Yield /\ ~YieldUnreinforced /\ (\A m, s : ~Change(m, s)) /\ ~(UNCHANGED recallVars)
  BY DEF Yield, YieldUnreinforced, Change, recallVars, Searched
<1> QED
  BY <1>1, <1>2, <1>3, <1>4, <1>5 DEF RecallStep

(* Whatever finds a memory, no answer has one that should be hidden.         *)
THEOREM AnswersHideWhatTheyShould == PreflightSpec => NothingHidden
<1>1. ASSUME CallInv, [PreflightNext]_allVars, Searched
      PROVE  \A m \in Ids(call'.top) : Eligible(call.opt, m)
  BY <1>1, RecallSteps, SearchAnswers, AnswerIsEligible
<1> QED
  BY <1>1, CallInvariant, PTL DEF PreflightSpec, NothingHidden

(* What a short answer leaves out is too uncertain, holds no value that was   *)
(* asked for, repeats an entry or is beyond the reach of both passes.        *)
THEOREM AnswersAreFull == PreflightSpec => FullAnswer
<1>1. ASSUME CallInv, [PreflightNext]_allVars, Searched, call.opt.mode # "keyword",
             call'.errors = {}, Cardinality(call'.top) < call.opt.limit,
             NEW t \in call.opt.types, Cardinality(Rows(call.opt, t)) <= Reach(call.opt),
             NEW m \in Rows(call.opt, t) \cap call.query.holds,
             Eligible(call.opt, m), Certain[m] >= call.opt.least
      PROVE  \/ m \in Ids(call'.top)
             \/ \E e \in Ids(call'.top) : Kind[e] = t /\ Overlap[<<e, m>>] >= 50
  <2>1. /\ call'.top = Top(call.opt, call.query, {})
        /\ IsRequest(call.opt) /\ IsQuery(call.query)
    BY <1>1, RecallSteps, SearchAnswers
  <2> QED
    BY <1>1, <2>1, AnswerIsFull
<1>2. ASSUME CallInv, [PreflightNext]_allVars
      PROVE  Searched /\ call.opt.mode # "keyword" /\ call'.errors = {}
               /\ Cardinality(call'.top) < call.opt.limit =>
             \A t \in call.opt.types : Cardinality(Rows(call.opt, t)) <= Reach(call.opt) =>
               \A m \in Rows(call.opt, t) \cap call.query.holds :
                 Eligible(call.opt, m) /\ Certain[m] >= call.opt.least =>
                   \/ m \in Ids(call'.top)
                   \/ \E e \in Ids(call'.top) : Kind[e] = t /\ Overlap[<<e, m>>] >= 50
  BY <1>1, <1>2
<1> QED
  BY <1>2, CallInvariant, PTL DEF PreflightSpec, FullAnswer

(* The best keyword hit comes before whatever only the vectors found.        *)
THEOREM KeywordsComeFirst == PreflightSpec => KeywordFirst
<1>1. ASSUME CallInv, [PreflightNext]_allVars, Searched, call.opt.mode = "hybrid",
             NEW b \in FtsHits(call.opt, call.query, call'.errors),
             NEW n \in Ids(call'.top) \ FtsHits(call.opt, call.query, call'.errors),
             FtsRank(call.opt, call.query, b) = 1, b \in call.query.holds,
             Eligible(call.opt, b), LeastOf(Certain[b], Coarse[b]) >= call.opt.least
      PROVE  \/ \E e, f \in call'.top : e.id = b /\ f.id = n /\ Better(e, f)
             \/ \E e \in Ids(call'.top) : Kind[e] = Kind[b] /\ Overlap[<<e, b>>] >= 50
  <2>1. /\ call'.top = Top(call.opt, call.query, call'.errors)
        /\ IsRequest(call.opt) /\ IsQuery(call.query)
    BY <1>1, RecallSteps, SearchAnswers
  <2>2. PICK down : down = call'.errors
    OBVIOUS
  <2>3. /\ b \in FtsHits(call.opt, call.query, down) \cap call.query.holds
        /\ n \in Ids(Top(call.opt, call.query, down)) \ FtsHits(call.opt, call.query, down)
    BY <1>1, <2>1, <2>2
  <2>4. \/ \E e, f \in Top(call.opt, call.query, down) : e.id = b /\ f.id = n /\ Better(e, f)
        \/ \E e \in Ids(Top(call.opt, call.query, down)) :
             Kind[e] = Kind[b] /\ Overlap[<<e, b>>] >= 50
    BY <1>1, <2>1, <2>3, AnswerPutsWordsFirst
  <2>5. call'.top = Top(call.opt, call.query, down)
    BY <2>1, <2>2
  <2> QED
    BY <2>4, <2>5
<1>2. ASSUME CallInv, [PreflightNext]_allVars
      PROVE  Searched /\ call.opt.mode = "hybrid" =>
             \A b \in FtsHits(call.opt, call.query, call'.errors),
                n \in Ids(call'.top) \ FtsHits(call.opt, call.query, call'.errors) :
               FtsRank(call.opt, call.query, b) = 1 /\ b \in call.query.holds
                 /\ Eligible(call.opt, b) /\ LeastOf(Certain[b], Coarse[b]) >= call.opt.least
               => \/ \E e, f \in call'.top : e.id = b /\ f.id = n /\ Better(e, f)
                  \/ \E e \in Ids(call'.top) : Kind[e] = Kind[b] /\ Overlap[<<e, b>>] >= 50
  BY <1>1, <1>2
<1> QED
  BY <1>2, CallInvariant, PTL DEF PreflightSpec, KeywordFirst
-----------------------------------------------------------------------------
(* What a preflight knows.  From its decision on, nothing moves any more.     *)
FlightFields == {"at", "strict", "capsule", "degraded", "health", "warnings", "decision"}

FlightInv ==
    /\ DOMAIN flight = FlightFields
    /\ flight.at \in {"idle", "capsule", "sweep", "decided", "thrown"}
    /\ flight.at = "sweep" => call.at # "idle" /\ call.opt = SweepRequest
    /\ flight.at = "decided" => call.at \in {"answered", "failed"}
    /\ RuleIsSeen

(* Nor does anything change for a rule when memories and call do not.        *)
LEMMA SameCrowd ==
    ASSUME UNCHANGED <<state, call>>
    PROVE  \A m : /\ Crowded(m)' <=> Crowded(m)
                  /\ Eligible(SweepRequest, m)' <=> Eligible(SweepRequest, m)
<1>1. \A n : Eligible(SweepRequest, n)' <=> Eligible(SweepRequest, n)
  BY SameState
<1>2. Rows(SweepRequest, "episodic")' = Rows(SweepRequest, "episodic")
  BY SameState
<1> QED
  BY <1>1, <1>2 DEF Crowded

(* A rule that stands is an episode, with its tags and the trust in it.      *)
LEMMA RuleStands ==
    ASSUME NEW m \in Memory, IsRule(m), Eligible(SweepRequest, m)
    PROVE  /\ m \in Rows(SweepRequest, "episodic")
           /\ "must-follow" \in TagsOf(m) /\ TrustIn(m) # "untrusted"
<1>1. Kind[m] = "episodic"
  BY PreflightConstants DEF IsRule
<1>2. state[m] = "live"
  BY <1>1 DEF Eligible, Stands
<1> QED
  BY <1>1, <1>2 DEF Rows, Indexed, Eligible, Owned, IsRule, TagsOf, TrustIn

(* A complete sweep shows every rule that is not crowded out.                *)
LEMMA SweepShows ==
    ASSUME NEW q, IsQuery(q), NEW m \in Memory, IsRule(m), Eligible(SweepRequest, m),
           Certain[m] >= SweepRequest.least, call.query = q, ~Crowded(m)
    PROVE  m \in Ids(Top(SweepRequest, q, {}))
<1> DEFINE o == SweepRequest
           answer == Ids(Top(o, q, {}))
           rivals == {n \in Memory \ {m} : Eligible(o, n)}
<1>1. IsRequest(o) /\ o.mode # "keyword" /\ "episodic" \in o.types
  BY PreflightConstants
<1>2. Kind[m] = "episodic" /\ m \in Rows(o, "episodic") \cap q.holds
  BY RuleStands DEF Crowded, Rows
<1>3. /\ ~(Cardinality(rivals) >= o.limit)
      /\ \A n \in rivals : ~(Kind[n] = Kind[m] /\ Overlap[<<n, m>>] >= 50)
      /\ ~(Cardinality(Rows(o, "episodic")) > Reach(o))
  BY DEF Crowded
<1>4. answer \subseteq Memory /\ \A n \in answer : Eligible(o, n)
  BY <1>1, AnswerIsEligible
<1>5. Cardinality(Top(o, q, {})) = Cardinality(answer)
  <2>1. PICK k : Top(o, q, {}) = TopAfter(o, q, k, {})
    BY TopIsPass
  <2> QED
    BY <1>1, <2>1, PassEntries
<1>6. /\ o.limit \in Nat /\ Cardinality(answer) \in Nat /\ Cardinality(rivals) \in Nat
      /\ Cardinality(Rows(o, "episodic")) \in Nat /\ Reach(o) \in Nat
  BY <1>1, <1>4, Finite, LargestReached, CandidateTypes DEF IsRequest, Reach
<1> SUFFICES ASSUME m \notin answer PROVE FALSE
  OBVIOUS
<1>7. answer \subseteq rivals
  BY <1>4
<1>8. Cardinality(answer) <= Cardinality(rivals)
  BY <1>7, Finite, FS_Subset
<1>9. PICK e \in answer : Kind[e] = "episodic" /\ Overlap[<<e, m>>] >= 50
  BY <1>1, <1>2, <1>3, <1>5, <1>6, <1>8, AnswerIsFull
<1> QED
  BY <1>2, <1>3, <1>7, <1>9

(* Of rules that are shown, the sweep takes some.                            *)
LEMMA SweepTakesOne ==
    ASSUME CallInv, NEW m \in Ids(call.shown), TrustIn(m) # "untrusted"
    PROVE  SweptRules # {}
<1> DEFINE trusted == {e \in call.shown : TrustIn(e.id) # "untrusted"}
<1>1. trusted # {}
  BY DEF Ids
<1>2. WellListed(trusted)
  BY DEF CallInv, WellListed
<1>3. PICK e \in trusted : \A f \in trusted : ~Better(f, e)
  BY <1>1, <1>2, FirstEntry
<1>4. {f \in trusted : Better(f, e)} = {}
  BY <1>3
<1>5. Cardinality({f \in trusted : Better(f, e)}) < SweepTake
  <2>1. Cardinality({f \in trusted : Better(f, e)}) = 0
    BY <1>4, FS_EmptySet
  <2> QED
    BY <2>1, PreflightConstants
<1>6. e \in First(trusted, SweepTake)
  BY <1>3, <1>5 DEF First
<1> QED
  BY <1>6 DEF SweptRules, Ids

(* The decisions: after the capsule,                                         *)
LEMMA BuildSees ==
    ASSUME CallInv, FlightInv, NEW s \in Signals, Build(s)
    PROVE  FlightInv'
<1> DEFINE capsule == Pruned(call.shown, s)
           f == [flight EXCEPT !.capsule = capsule, !.degraded = (call.errors # {}),
                               !.health = s.health]
<1>1. f.capsule = capsule /\ DOMAIN f = FlightFields
  BY DEF FlightInv, FlightFields
<1>2. flight.at = "capsule" /\ call.at = "answered"
  BY DEF Build
<1> HIDE DEF capsule
<1>3. CASE capsule["must_follow"] = {} /\ MustFollowTagCandidate
  <2>1. Ask(SweepRequest, call.query) /\ flight' = [f EXCEPT !.at = "sweep"]
    BY <1>3 DEF Build, capsule
  <2>2. flight'.at = "sweep" /\ DOMAIN flight' = FlightFields
    BY <1>1, <2>1 DEF FlightFields
  <2>3. call'.at = "embedding" /\ call'.opt = SweepRequest
    BY <2>1 DEF Ask
  <2> QED
    BY <2>2, <2>3 DEF FlightInv, RuleIsSeen
<1>4. CASE ~(capsule["must_follow"] = {} /\ MustFollowTagCandidate)
  <2>1. Decide(f, call.query, {}) /\ UNCHANGED <<state, call, changes>>
    BY <1>4 DEF Build, capsule, recallVars
  <2>2. /\ flight'.at = "decided" /\ DOMAIN flight' = FlightFields
        /\ flight'.warnings = Warnings(f, call.query, {})
    BY <1>1, <2>1 DEF Decide, FlightFields
  <2>3. ASSUME NEW m \in Memory, IsRule(m), Eligible(SweepRequest, m)
        PROVE  \E w \in flight'.warnings : w.type = "must_follow"
    <3>1. MustFollowTagCandidate
      <4>1. Kind[m] = "episodic" /\ "must-follow" \in TagsOf(m)
        BY <2>3, RuleStands DEF Rows
      <4> QED
        BY <4>1 DEF MustFollowTagCandidate
    <3>2. PICK r \in capsule["must_follow"] : TRUE
      BY <1>4, <3>1
    <3>3. Warning("must_follow", RuleSeverity(r), r) \in Warnings(f, call.query, {})
      BY <1>1, <3>2 DEF Warnings
    <3>4. Warning("must_follow", RuleSeverity(r), r).type = "must_follow"
      BY DEF Warning
    <3> QED
      BY <2>2, <3>3, <3>4
  <2>4. \A m : Eligible(SweepRequest, m)' <=> Eligible(SweepRequest, m)
    BY <2>1, SameState
  <2>5. RuleIsSeen'
    BY <2>3, <2>4 DEF RuleIsSeen
  <2> QED
    BY <1>2, <2>1, <2>2, <2>5 DEF FlightInv
<1> QED
  BY <1>3, <1>4

(* and after the sweep.                                                      *)
LEMMA SweepSees ==
    ASSUME CallInv, FlightInv, Sweep
    PROVE  FlightInv'
<1> DEFINE swept == IF call.at = "failed" THEN {} ELSE SweptRules
<1>1. /\ flight.at = "sweep" /\ call.at \in {"answered", "failed"}
      /\ Decide(flight, call.query, swept) /\ UNCHANGED <<state, call, changes>>
  BY DEF Sweep, recallVars
<1> HIDE DEF swept
<1>2. /\ flight'.at = "decided" /\ DOMAIN flight' = FlightFields
      /\ flight'.warnings = Warnings(flight, call.query, swept)
  BY <1>1 DEF Decide, FlightInv, FlightFields
<1>3. ASSUME changes = 0, call.errors = {}, call.at # "failed",
             NEW m \in Memory, IsRule(m), Eligible(SweepRequest, m),
             Certain[m] >= SweepRequest.least, ~Crowded(m)
      PROVE  \E w \in flight'.warnings : w.type = "must_follow"
  <2>1. call.shown = Top(SweepRequest, call.query, {}) /\ IsQuery(call.query)
    BY <1>1, <1>3 DEF CallInv, FlightInv
  <2>2. m \in Ids(call.shown) /\ TrustIn(m) # "untrusted"
    BY <1>3, <2>1, SweepShows, RuleStands
  <2>3. PICK r : r \in SweptRules
    BY <2>2, SweepTakesOne
  <2>4. Warning("must_follow", RuleSeverity(r), r) \in Warnings(flight, call.query, swept)
    BY <1>3, <2>3 DEF Warnings, swept
  <2>5. Warning("must_follow", RuleSeverity(r), r).type = "must_follow"
    BY DEF Warning
  <2> QED
    BY <1>2, <2>4, <2>5
<1>4. \A m : /\ Eligible(SweepRequest, m)' <=> Eligible(SweepRequest, m)
             /\ Crowded(m)' <=> Crowded(m)
  BY <1>1, SameCrowd
<1>5. RuleIsSeen'
  BY <1>1, <1>3, <1>4 DEF RuleIsSeen
<1> QED
  BY <1>1, <1>2, <1>5 DEF FlightInv

(* Every step keeps what a preflight knows.                                  *)
LEMMA FlightStep ==
    ASSUME CallInv, FlightInv, [PreflightNext]_allVars
    PROVE  FlightInv'
<1>1. ASSUME UNCHANGED flight, flight.at # "decided",
             flight.at = "sweep" => call'.at # "idle" /\ call'.opt = call.opt
      PROVE  FlightInv'
  BY <1>1 DEF FlightInv, RuleIsSeen
<1>2. ASSUME NEW o, NEW q, call.at = "idle", Ask(o, q), UNCHANGED flight PROVE FlightInv'
  BY <1>1, <1>2 DEF FlightInv
<1>3. ASSUME NEW strict, NEW q, Preflight(strict, q) PROVE FlightInv'
  <2>1. flight' = [Waiting EXCEPT !.at = "capsule", !.strict = strict]
    BY <1>3 DEF Preflight
  <2>2. flight'.at = "capsule" /\ DOMAIN flight' = FlightFields
    BY <2>1 DEF Waiting, FlightFields
  <2> QED
    BY <2>2 DEF FlightInv, RuleIsSeen
<1>4. CASE (Answering \/ Others) /\ UNCHANGED flight
  <2>1. call.at \in {"embedding", "yielding"} /\ UNCHANGED flight
    BY <1>4 DEF Answering, Others, Search, EmbedFails, Yield, YieldUnreinforced, Change
  <2>2. flight.at # "decided"
    BY <2>1 DEF FlightInv, FlightFields
  <2>3. call'.at # "idle" /\ call'.opt = call.opt
    <3>1. call = [at |-> call.at, opt |-> call.opt, query |-> call.query,
                  errors |-> call.errors, top |-> call.top, shown |-> call.shown]
      BY <2>1 DEF CallInv
    <3>2. CASE \E down \in Fault : Search(down)
      <4>1. PICK failed : call' = [call EXCEPT !.at = "yielding",
                                     !.top = Top(call.opt, call.query, failed),
                                     !.errors = failed]
        BY <3>2 DEF Search
      <4> QED
        BY <3>1, <4>1
    <3>3. CASE EmbedFails
      <4>1. call' = [call EXCEPT !.at = "failed"]
        BY <3>3 DEF EmbedFails
      <4> QED
        BY <3>1, <4>1
    <3>4. CASE Yield
      <4>1. CASE call.top = {}
        <5>1. call' = [call EXCEPT !.at = "answered"]
          BY <3>4, <4>1 DEF Yield
        <5> QED
          BY <3>1, <5>1
      <4>2. CASE call.top # {}
        <5>1. PICK top, shown : call' = [call EXCEPT !.top = top, !.shown = shown]
          <6> DEFINE e == CHOOSE e \in call.top : \A f \in call.top \ {e} : Better(e, f)
          <6>1. call' = [call EXCEPT !.top = @ \ {e}, !.shown = @ \cup {e}]
            BY <3>4, <4>2 DEF Yield
          <6> HIDE DEF e
          <6>2. call' = [call EXCEPT !.top = call.top \ {e}, !.shown = call.shown \cup {e}]
            BY <3>1, <6>1
          <6> QED
            BY <6>2
        <5> QED
          BY <2>1, <3>1, <5>1
      <4> QED
        BY <4>1, <4>2
    <3>5. CASE YieldUnreinforced
      <4>1. PICK top, shown, errors :
              call' = [call EXCEPT !.top = top, !.shown = shown, !.errors = errors]
        <5>1. PICK e \in call.top :
                call' = [call EXCEPT !.top = @ \ {e}, !.shown = @ \cup {e},
                                     !.errors = @ \cup {Kind[e.id]}]
          BY <3>5 DEF YieldUnreinforced
        <5>2. call' = [call EXCEPT !.top = call.top \ {e}, !.shown = call.shown \cup {e},
                                   !.errors = call.errors \cup {Kind[e.id]}]
          BY <3>1, <5>1
        <5> QED
          BY <5>2
      <4> QED
        BY <2>1, <3>1, <4>1
    <3>6. CASE Others
      <4>1. UNCHANGED call
        BY <3>6 DEF Others, Change
      <4> QED
        BY <2>1, <4>1
    <3> QED
      BY <1>4, <3>2, <3>3, <3>4, <3>5, <3>6 DEF Answering
  <2> QED
    BY <1>1, <2>1, <2>2, <2>3
<1>5. ASSUME NEW s \in Signals, Build(s) PROVE FlightInv'
  BY <1>5, BuildSees
<1>6. CASE Sweep
  BY <1>6, SweepSees
<1>7. CASE CapsuleFails
  <2>1. flight' = [flight EXCEPT !.at = "thrown"]
    BY <1>7 DEF CapsuleFails
  <2>2. flight'.at = "thrown" /\ DOMAIN flight' = FlightFields
    BY <2>1 DEF FlightInv, FlightFields
  <2> QED
    BY <2>2 DEF FlightInv, RuleIsSeen
<1>8. CASE UNCHANGED allVars
  <2>1. UNCHANGED <<state, call, changes, flight>>
    BY <1>8 DEF allVars, recallVars
  <2>2. \A m : /\ Eligible(SweepRequest, m)' <=> Eligible(SweepRequest, m)
               /\ Crowded(m)' <=> Crowded(m)
    BY <2>1, SameCrowd
  <2>3. RuleIsSeen'
    BY <2>1, <2>2 DEF FlightInv, RuleIsSeen
  <2> QED
    BY <2>1, <2>3 DEF FlightInv
<1> QED
  BY <1>2, <1>3, <1>4, <1>5, <1>6, <1>7, <1>8 DEF PreflightNext

(* A rule that stands is not lost in noise.                                  *)
THEOREM RulesAreSeen == PreflightSpec => []RuleIsSeen
<1>1. AllInit => FlightInv
  BY DEF AllInit, FlightInv, FlightFields, Waiting, RuleIsSeen
<1>2. CallInv /\ FlightInv /\ [PreflightNext]_allVars => FlightInv'
  BY FlightStep
<1>3. FlightInv => RuleIsSeen
  BY DEF FlightInv
<1> QED
  BY <1>1, <1>2, <1>3, CallInvariant, PTL DEF PreflightSpec
-----------------------------------------------------------------------------
(* A capsule holds memories of the answer and what the signals add.          *)
LEMMA CapsuleHolds ==
    ASSUME NEW answer, \A e \in answer : e.id \in Memory, NEW s \in Signals, NEW x \in Section
    PROVE  Pruned(answer, s)[x] \subseteq Memory \cup Derived
<1>1. \A e \in InSection(x, answer, s) : e.id \in Memory \cup Derived
  <2>1. s.failing \subseteq Derived /\ Contradiction \in Derived
    BY PreflightConstants DEF Derived
  <2>2. \A f : Derive(f).id = f
    BY DEF Derive
  <2> QED
    BY <2>1, <2>2 DEF InSection
<1>2. Ids(InSection(x, answer, s)) \subseteq Memory \cup Derived
  BY <1>1 DEF Ids
<1>3. Pruned(answer, s)[x] \subseteq Ids(InSection(x, answer, s))
  BY DEF Pruned
<1> QED
  BY <1>2, <1>3

(* The parts of the type invariant: what a call shows, what happens to the   *)
(* memories, and what a preflight makes of it.                               *)
ShownFits ==
    /\ Ids(call.top) \cup Ids(call.shown) \subseteq Memory
    /\ Ids(call.top) \cap Ids(call.shown) = {}

MemoriesFit ==
    /\ DOMAIN state = Memory /\ \A m \in Memory : state[m] \in StateOf(m)
    /\ reinforced \subseteq {m \in Memory : Kind[m] # "episodic"}
    /\ changes \in 0..MaxChanges

FlightFits ==
    /\ \A s \in Section : flight.capsule[s] \subseteq Memory \cup Derived
    /\ flight.decision \in {"none", "go", "caution", "block"}

(* Each part holds: from what a recall knows,                                *)
LEMMA ShownTypes == ASSUME CallInv PROVE ShownFits
<1>1. \A e \in call.top \cup call.shown : e.id \in Memory
  BY DEF CallInv, WellListed
<1>2. \A e \in call.top, f \in call.shown : e.id # f.id
  BY DEF CallInv, WellListed
<1> QED
  BY <1>1, <1>2 DEF ShownFits, Ids

(* by every step that touches a memory,                                      *)
LEMMA MemoryTypes ==
    ASSUME CallInv, MemoriesFit, [PreflightNext]_allVars
    PROVE  MemoriesFit'
<1>1. CASE UNCHANGED <<state, reinforced, changes>>
  BY <1>1 DEF MemoriesFit, StateOf, EpisodeState, MemoryState
<1>2. CASE Yield
  <2>1. UNCHANGED <<state, changes>>
    BY <1>2 DEF Yield
  <2>2. CASE call.top = {}
    BY <1>1, <1>2, <2>1, <2>2 DEF Yield
  <2>3. CASE call.top # {}
    <3>1. PICK e \in call.top :
            reinforced' = IF Kind[e.id] = "episodic" \/ state[e.id] = "purged"
                          THEN reinforced ELSE reinforced \cup {e.id}
      <4> DEFINE e == CHOOSE e \in call.top : \A f \in call.top \ {e} : Better(e, f)
      <4>1. e \in call.top
        <5>1. WellListed(call.top)
          BY DEF CallInv, WellListed
        <5> QED
          BY <2>3, <5>1, FirstEntry
      <4>2. reinforced' = IF Kind[e.id] = "episodic" \/ state[e.id] = "purged"
                          THEN reinforced ELSE reinforced \cup {e.id}
        BY <1>2, <2>3 DEF Yield
      <4> QED
        BY <4>1, <4>2
    <3>2. e.id \in Memory
      BY DEF CallInv, WellListed
    <3>3. reinforced' \subseteq {m \in Memory : Kind[m] # "episodic"}
      BY <3>1, <3>2 DEF MemoriesFit
    <3> QED
      BY <2>1, <3>3 DEF MemoriesFit, StateOf, EpisodeState, MemoryState
  <2> QED
    BY <2>2, <2>3
<1>3. CASE Others
  <2>1. PICK m \in Memory, s \in EpisodeState \cup MemoryState : Change(m, s)
    BY <1>3 DEF Others
  <2>2. /\ changes < MaxChanges /\ changes' = changes + 1
        /\ s \in StateOf(m) /\ state' = [state EXCEPT ![m] = s] /\ reinforced' = reinforced
    BY <2>1 DEF Change
  <2>3. changes' \in 0..MaxChanges
    BY <2>2, RecallConstants DEF MemoriesFit
  <2>4. DOMAIN state' = Memory /\ \A n \in Memory : state'[n] \in StateOf(n)
    BY <2>2 DEF MemoriesFit
  <2> QED
    BY <2>2, <2>3, <2>4 DEF MemoriesFit, StateOf, EpisodeState, MemoryState
<1> QED
  BY <1>1, <1>2, <1>3 DEF PreflightNext, Answering, Ask, Preflight, Search, EmbedFails,
     YieldUnreinforced, Build, Sweep, CapsuleFails, allVars, recallVars

(* and by every step of a preflight.                                         *)
LEMMA FlightTypes ==
    ASSUME CallInv, FlightInv, FlightFits, [PreflightNext]_allVars
    PROVE  FlightFits'
<1>1. ASSUME flight'.capsule = flight.capsule, flight'.decision = flight.decision
      PROVE  FlightFits'
  BY <1>1 DEF FlightFits
<1>2. \A strict, warnings : Decision(strict, warnings) \in {"go", "caution", "block"}
  BY DEF Decision
<1>3. ASSUME NEW strict, NEW q, Preflight(strict, q) PROVE FlightFits'
  <2>1. flight' = [Waiting EXCEPT !.at = "capsule", !.strict = strict]
    BY <1>3 DEF Preflight
  <2>2. flight'.capsule = Nothing /\ flight'.decision = "none"
    BY <2>1 DEF Waiting
  <2> QED
    BY <2>2 DEF FlightFits, Nothing
<1>4. ASSUME NEW s \in Signals, Build(s) PROVE FlightFits'
  <2> DEFINE capsule == Pruned(call.shown, s)
             f == [flight EXCEPT !.capsule = capsule, !.degraded = (call.errors # {}),
                                 !.health = s.health]
  <2>1. /\ f.capsule = capsule /\ f.decision = flight.decision
        /\ DOMAIN f = FlightFields
    BY DEF FlightInv, FlightFields
  <2>2. \A x \in Section : capsule[x] \subseteq Memory \cup Derived
    BY CapsuleHolds DEF CallInv, WellListed
  <2>3. flight' = [f EXCEPT !.at = "sweep"] \/ Decide(f, call.query, {})
    BY <1>4 DEF Build
  <2> HIDE DEF capsule
  <2>4. flight'.capsule = capsule /\ flight'.decision \in {"none", "go", "caution", "block"}
    <3>1. CASE flight' = [f EXCEPT !.at = "sweep"]
      BY <2>1, <3>1 DEF FlightFits, FlightFields
    <3>2. CASE Decide(f, call.query, {})
      BY <1>2, <2>1, <3>2 DEF Decide, FlightFields
    <3> QED
      BY <2>3, <3>1, <3>2
  <2> QED
    BY <2>2, <2>4 DEF FlightFits
<1>5. CASE Sweep
  <2>1. PICK swept : Decide(flight, call.query, swept)
    BY <1>5 DEF Sweep
  <2>2. /\ flight'.capsule = flight.capsule
        /\ flight'.decision \in {"go", "caution", "block"}
    BY <1>2, <2>1 DEF Decide, FlightInv, FlightFields
  <2> QED
    BY <2>2 DEF FlightFits
<1>6. CASE CapsuleFails
  <2>1. flight' = [flight EXCEPT !.at = "thrown"]
    BY <1>6 DEF CapsuleFails
  <2>2. flight'.capsule = flight.capsule /\ flight'.decision = flight.decision
    BY <2>1 DEF FlightInv, FlightFields
  <2> QED
    BY <1>1, <2>2
<1>7. CASE UNCHANGED flight
  BY <1>1, <1>7
<1> QED
  BY <1>3, <1>4, <1>5, <1>6, <1>7 DEF PreflightNext, allVars

(* Answers and capsules hold memories, each once; only memories that are no  *)
(* episodes are reinforced.                                                  *)
THEOREM PreflightTypes == PreflightSpec => []PreflightTypeOK
<1>1. AllInit => MemoriesFit /\ FlightFits /\ FlightInv
  <2>1. AllInit => MemoriesFit
    BY RecallConstants DEF AllInit, RecallInit, MemoriesFit, StateOf, EpisodeState, MemoryState
  <2> QED
    BY <2>1 DEF AllInit, FlightInv, FlightFields, FlightFits, Waiting, Nothing, RuleIsSeen
<1>2. CallInv /\ FlightInv /\ MemoriesFit /\ FlightFits /\ [PreflightNext]_allVars
        => FlightInv' /\ MemoriesFit' /\ FlightFits'
  BY FlightStep, MemoryTypes, FlightTypes
<1>3. CallInv /\ FlightInv /\ MemoriesFit /\ FlightFits => PreflightTypeOK
  BY ShownTypes DEF PreflightTypeOK, CallInv, FlightInv, ShownFits, MemoriesFit, FlightFits
<1> QED
  BY <1>1, <1>2, <1>3, CallInvariant, PTL DEF PreflightSpec
=============================================================================
