------------------------ MODULE Consolidation_proofs ------------------------
(* What overlapping runs, rollbacks and validations leave in the database,   *)
(* for any number of episodes, memories and runs.                            *)
EXTENDS Consolidation, FiniteSetTheorems, TLAPS

(* Subsets of the episodes are finite.                                       *)
LEMMA EpisodesAreFinite ==
    ASSUME NEW S \in SUBSET Episode
    PROVE  IsFiniteSet(S) /\ Cardinality(S) \in Nat
BY FS_Subset, FS_CardinalityType, ConsolidationAssumption

(* What is new adds its number to the evidence.                              *)
LEMMA EvidenceAdds ==
    ASSUME NEW S \in SUBSET Episode, NEW new \in SUBSET Episode
    PROVE  Cardinality(S \cup new) = Cardinality(S) + Cardinality(new \ S)
<1>1. IsFiniteSet(S) /\ IsFiniteSet(new \ S)
  BY EpisodesAreFinite
<1>2. S \cap (new \ S) = {} /\ S \cup (new \ S) = S \cup new
  OBVIOUS
<1>3. Cardinality(S \cap (new \ S)) = 0
  BY <1>2, FS_EmptySet
<1>4. Cardinality(S \cup (new \ S)) =
        Cardinality(S) + Cardinality(new \ S) - Cardinality(S \cap (new \ S))
  BY <1>1, FS_Union
<1>5. Cardinality(S) \in Nat /\ Cardinality(new \ S) \in Nat
  BY EpisodesAreFinite
<1> QED
  BY <1>2, <1>3, <1>4, <1>5

(* The episodes and memories of the clusters that a run commits.             *)
LEMMA CommitTypes ==
    ASSUME TypeOK, NEW r \in Run, NEW taken \in SUBSET work[r], NEW target \in [taken -> Memory]
    PROVE  /\ UNION taken \subseteq Episode
           /\ {target[c] : c \in taken} \subseteq Memory
           /\ \A m \in Memory : UNION {c \in taken : target[c] = m} \in SUBSET Episode
<1>1. work[r] \in SUBSET (SUBSET Episode)
  BY DEF TypeOK
<1>2. \A c \in taken : c \subseteq Episode /\ target[c] \in Memory
  BY <1>1
<1> QED
  BY <1>2
-----------------------------------------------------------------------------
(* Types.                                                                    *)
LEMMA InitTypeOK == Init => TypeOK
BY ConsolidationAssumption DEF Init, TypeOK, NoUndo

LEMMA NextTypeOK ==
    ASSUME TypeOK, [Next]_vars
    PROVE  TypeOK'
<1> USE DEF State, Status
<1>1. CASE UNCHANGED vars
  BY <1>1 DEF TypeOK, vars, episodeVars, memoryVars, runVars, callVars
<1>2. ASSUME NEW e \in Episode, NEW old \in Episode \cup {None}, Encode(e, old)
      PROVE  TypeOK'
  BY <1>2 DEF TypeOK, Encode, memoryVars, runVars
<1>3. ASSUME NEW e \in Episode, ForgetEpisode(e) \/ PurgeEpisode(e)
      PROVE  TypeOK'
  BY <1>3 DEF TypeOK, ForgetEpisode, PurgeEpisode, Delete, memoryVars, runVars, callVars
<1>4. ASSUME NEW m \in Memory, ForgetMemory(m) \/ PurgeMemory(m) \/ Decay(m)
      PROVE  TypeOK'
  <2>1. CASE ForgetMemory(m)
    BY <2>1 DEF TypeOK, ForgetMemory, episodeVars, runVars, callVars
  <2>2. CASE PurgeMemory(m)
    BY <2>2 DEF TypeOK, PurgeMemory, Drop, episodeVars, runVars, callVars
  <2>3. CASE Decay(m)
    BY <2>3 DEF TypeOK, Decay, episodeVars, runVars, callVars
  <2> QED
    BY <1>4, <2>1, <2>2, <2>3
<1>5. CASE Purge
  BY <1>5 DEF TypeOK, Purge, Delete, Drop, runVars, callVars
<1>6. ASSUME NEW r \in Run, NEW clusters \in SUBSET (SUBSET Episode), BeginRun(r, clusters)
      PROVE  TypeOK'
  BY <1>6 DEF TypeOK, BeginRun, episodeVars, memoryVars, callVars
<1>7. ASSUME NEW r \in Run, NEW taken \in SUBSET work[r], NEW target \in [taken -> Memory],
             Commit(r, target)
      PROVE  TypeOK'
  <2>1. DOMAIN target = taken
    OBVIOUS
  <2>2. /\ UNION taken \subseteq Episode
        /\ {target[c] : c \in taken} \subseteq Memory
        /\ \A m \in Memory : UNION {c \in taken : target[c] = m} \in SUBSET Episode
    BY CommitTypes
  <2>3. \A m \in Memory :
          Support(m, UNION {c \in taken : target[c] = m}) \in Nat
    BY <2>2, EpisodesAreFinite DEF TypeOK, Support
  <2> DEFINE used == {target[c] : c \in taken}
             new(m) == UNION {c \in taken : target[c] = m}
             consumed == UNION taken
  <2>4. /\ state' = [m \in Memory |-> IF m \in used /\ state[m] = "unborn" THEN "active" ELSE state[m]]
        /\ indexed' = [m \in Memory |-> indexed[m] \/ m \in used]
        /\ evidence' = [m \in Memory |-> evidence[m] \cup new(m)]
        /\ supporting' = [m \in Memory |-> Support(m, new(m))]
        /\ consolidated' = [e \in Episode |-> consolidated[e] \/ e \in consumed]
        /\ vec' = [e \in Episode |-> IF e \in consumed THEN "used" ELSE vec[e]]
        /\ input' = [input EXCEPT ![r] = consumed]
        /\ output' = [output EXCEPT ![r] = used]
    BY <1>7, <2>1 DEF Commit
  <2>5. /\ status' = [status EXCEPT ![r] = "completed"] /\ work' = [work EXCEPT ![r] = {}]
        /\ UNCHANGED <<row, supersededBy, supersedes, queue, asked, undo, raced>>
    BY <1>7 DEF Commit, callVars
  <2>6. consumed \subseteq Episode /\ used \subseteq Memory
        /\ \A m \in Memory : new(m) \in SUBSET Episode /\ Support(m, new(m)) \in Nat
    BY <2>2, <2>3
  <2> HIDE DEF used, new, consumed
  <2>7. /\ row' \in [Episode -> {"unborn", "stored", "deleted"}]
        /\ supersededBy' \in [Episode -> Episode \cup {None, Forgotten}]
        /\ supersedes' \in [Episode -> Episode \cup {None}]
        /\ consolidated' \in [Episode -> BOOLEAN]
        /\ vec' \in [Episode -> {"none", "open", "used"}]
    BY <2>4, <2>5 DEF TypeOK
  <2>8. /\ state' \in [Memory -> State \cup {"unborn", "deleted"}]
        /\ evidence' \in [Memory -> SUBSET Episode]
        /\ supporting' \in [Memory -> Nat]
        /\ indexed' \in [Memory -> BOOLEAN]
    BY <2>4, <2>6 DEF TypeOK
  <2>9. /\ status' \in [Run -> Status \cup {"unborn"}]
        /\ input' \in [Run -> SUBSET Episode] /\ output' \in [Run -> SUBSET Memory]
        /\ work' \in [Run -> SUBSET (SUBSET Episode)]
    BY <2>4, <2>5, <2>6 DEF TypeOK
  <2>10. /\ queue' \subseteq Episode /\ asked' \subseteq Episode \X Memory
         /\ undo' \in [Undoer -> [run : Run \cup {None}, input : SUBSET Episode,
                                 output : SUBSET Memory]]
         /\ raced' \subseteq Run
    BY <2>5 DEF TypeOK
  <2> QED
    BY <2>7, <2>8, <2>9, <2>10 DEF TypeOK
<1>8. ASSUME NEW r \in Run, FailRun(r) \/ CrashRun(r)
      PROVE  TypeOK'
  BY <1>8 DEF TypeOK, FailRun, CrashRun, episodeVars, memoryVars, callVars
<1>9. ASSUME NEW r \in Run, Rollback(r)
      PROVE  TypeOK'
  BY <1>9 DEF TypeOK, Rollback, UndoRun, UndoFrame
<1>10. ASSUME NEW u \in Undoer, NEW r \in Run, RollbackRead(u, r)
       PROVE  TypeOK'
  BY <1>10 DEF TypeOK, RollbackRead, episodeVars, memoryVars, runVars
<1>11. ASSUME NEW u \in Undoer, RollbackApply(u)
       PROVE  TypeOK'
  <2>1. undo[u].run \in Run
    BY <1>11 DEF TypeOK, RollbackApply
  <2>2. NoUndo \in [run : Run \cup {None}, input : SUBSET Episode, output : SUBSET Memory]
    BY DEF NoUndo
  <2> QED
    BY <1>11, <2>1, <2>2 DEF TypeOK, RollbackApply, UndoRun, UndoFrame
<1>12. ASSUME NEW e \in Episode, NEW m \in Memory, Reinforce(e, m)
       PROVE  TypeOK'
  <2>1. Support(m, {e}) \in Nat
    BY EpisodesAreFinite DEF TypeOK, Support
  <2> QED
    BY <1>12, <2>1 DEF TypeOK, Reinforce, episodeVars, runVars
<1>13. ASSUME NEW e \in Episode, NEW m \in Memory, Ask(e, m)
       PROVE  TypeOK'
  BY <1>13 DEF TypeOK, Ask, episodeVars, memoryVars, runVars
<1>14. ASSUME NEW e \in Episode, NEW m \in Memory,
              NEW new \in {"disputed", "context_dependent"}, Verdict(e, m, new)
       PROVE  TypeOK'
  BY <1>14 DEF TypeOK, Verdict, episodeVars, runVars
<1> QED
  BY <1>1, <1>2, <1>3, <1>4, <1>5, <1>6, <1>7, <1>8, <1>9, <1>10, <1>11, <1>12, <1>13, <1>14
     DEF Next

(* All state has its type, whatever runs, rollbacks and validations overlap. *)
THEOREM TypeCorrect == Spec => []TypeOK
<1>1. Init => TypeOK
  BY InitTypeOK
<1>2. TypeOK /\ [Next]_vars => TypeOK'
  BY NextTypeOK
<1> QED
  BY <1>1, <1>2, PTL DEF Spec
-----------------------------------------------------------------------------
(* Support.                                                                  *)
LEMMA NextSupport ==
    ASSUME TypeOK, SupportMatchesEvidence, [Next]_vars
    PROVE  SupportMatchesEvidence'
<1>1. ASSUME UNCHANGED <<evidence, supporting>>
      PROVE  SupportMatchesEvidence'
  BY <1>1 DEF SupportMatchesEvidence
<1>2. ASSUME NEW m \in Memory, NEW new \in SUBSET Episode
      PROVE  Support(m, new) = Cardinality(evidence[m] \cup new)
  BY EvidenceAdds DEF SupportMatchesEvidence, Support, TypeOK
<1>3. ASSUME NEW r \in Run, NEW taken \in SUBSET work[r], NEW target \in [taken -> Memory],
             Commit(r, target)
      PROVE  SupportMatchesEvidence'
  <2> DEFINE new(m) == UNION {c \in taken : target[c] = m}
  <2>1. /\ evidence' = [m \in Memory |-> evidence[m] \cup new(m)]
        /\ supporting' = [m \in Memory |-> Support(m, new(m))]
    BY <1>3 DEF Commit
  <2>2. \A m \in Memory : new(m) \in SUBSET Episode
    BY CommitTypes
  <2> HIDE DEF new
  <2> QED
    BY <1>2, <2>1, <2>2 DEF SupportMatchesEvidence
<1>4. ASSUME NEW e \in Episode, NEW m \in Memory, Reinforce(e, m)
      PROVE  SupportMatchesEvidence'
  <2>1. Support(m, {e}) = Cardinality(evidence[m] \cup {e})
    BY <1>2
  <2> QED
    BY <1>4, <2>1 DEF SupportMatchesEvidence, Reinforce, TypeOK
<1>5. CASE UNCHANGED vars
  BY <1>1, <1>5 DEF vars, memoryVars
<1> QED
  BY <1>1, <1>3, <1>4, <1>5 DEF Next, Encode, ForgetEpisode, PurgeEpisode, ForgetMemory,
     PurgeMemory, Decay, Purge, Drop, BeginRun, FailRun, CrashRun, Rollback, RollbackRead,
     RollbackApply, UndoFrame, Ask, Verdict, memoryVars

(* The supporting_count of a memory is the number of its evidence episodes,  *)
(* whichever runs, validations and rollbacks of other processes overlapped   *)
(* (unionEvidenceIds, mergeIntoSemantic, validateMemory).                    *)
THEOREM SupportIsExact == Spec => []SupportMatchesEvidence
<1>1. Init => SupportMatchesEvidence
  BY FS_EmptySet DEF Init, SupportMatchesEvidence
<1>2. TypeOK /\ SupportMatchesEvidence /\ [Next]_vars => SupportMatchesEvidence'
  BY NextSupport
<1> QED
  BY <1>1, <1>2, TypeCorrect, PTL DEF Spec
-----------------------------------------------------------------------------
(* An episode's mark and the run that consumed it go together, unless        *)
(* another process rolled the run back on a stale read: a run has no input   *)
(* before its transaction, also when it was rolled back while it awaited a   *)
(* provider, and the input that a rollback has read is all of it, or none.   *)

NoInputYet == \A r \in Run :
    work[r] # {} \/ status[r] \in {"unborn", "running", "failed"} => input[r] = {}

UnbornIsUnused == \A e \in Episode :
    row[e] = "unborn" => ~consolidated[e] /\ \A r \in Run : e \notin input[r]

Raced == UNION {input[r] : r \in raced}

MarkedByOne == \A e \in Stored \ Raced :
    IF consolidated[e] THEN \E r \in Run : Consumers(e) = {r} ELSE Consumers(e) = {}

UndoKnown == \A u \in Undoer :
    undo[u].run # None => /\ status[undo[u].run] # "unborn"
                          /\ undo[u].input = {} \/ undo[u].input = input[undo[u].run]

Marks == NoInputYet /\ UnbornIsUnused /\ MarkedByOne

IInv == TypeOK /\ UndoKnown /\ Marks

LEMMA InitIInv == Init => IInv
<1> SUFFICES ASSUME Init PROVE IInv
  OBVIOUS
<1>1. Stored = {}
  BY DEF Init, Stored
<1>2. UndoKnown
  BY DEF Init, UndoKnown, NoUndo
<1>3. Marks
  BY <1>1 DEF Init, Marks, NoInputYet, UnbornIsUnused, MarkedByOne
<1> QED
  BY <1>2, <1>3, InitTypeOK DEF IInv

(* A run that is committed had no input, so that a rollback can have read    *)
(* only that.                                                                *)
LEMMA UndoNext ==
    ASSUME IInv, [Next]_vars
    PROVE  UndoKnown'
<1>1. TypeOK /\ UndoKnown
  BY DEF IInv
<1>2. ASSUME UNCHANGED <<input, undo>>,
             \A r \in Run : status[r] # "unborn" => status'[r] # "unborn"
      PROVE  UndoKnown'
  BY <1>1, <1>2 DEF UndoKnown, TypeOK
<1>3. ASSUME NEW r \in Run, NEW taken \in SUBSET work[r], NEW target \in [taken -> Memory],
             Commit(r, target)
      PROVE  UndoKnown'
  <2>1. /\ work[r] # {} /\ UNCHANGED undo
        /\ input' = [input EXCEPT ![r] = UNION DOMAIN target]
        /\ status' = [status EXCEPT ![r] = "completed"]
    BY <1>3 DEF Commit, callVars
  <2>2. input[r] = {}
    BY <2>1 DEF IInv, Marks, NoInputYet
  <2>3. /\ \A s \in Run \ {r} : input'[s] = input[s] /\ status'[s] = status[s]
        /\ status'[r] = "completed"
    BY <1>1, <2>1 DEF TypeOK
  <2>4. \A u \in Undoer : undo[u].run \in Run \cup {None}
    BY <1>1 DEF TypeOK
  <2> QED
    BY <1>1, <2>1, <2>2, <2>3, <2>4 DEF UndoKnown
<1>4. ASSUME NEW u \in Undoer, NEW r \in Run, RollbackRead(u, r)
      PROVE  UndoKnown'
  <2>1. /\ undo' = [undo EXCEPT ![u] = [run |-> r, input |-> input[r], output |-> output[r]]]
        /\ UNCHANGED <<input, status>> /\ status[r] # "unborn"
    BY <1>4 DEF RollbackRead, CanUndo, Status, runVars
  <2> QED
    BY <1>1, <2>1 DEF UndoKnown, TypeOK
<1>5. ASSUME NEW u \in Undoer, RollbackApply(u)
      PROVE  UndoKnown'
  <2>1. /\ undo' = [undo EXCEPT ![u] = NoUndo] /\ UNCHANGED input
        /\ status' = [status EXCEPT ![undo[u].run] = "rolled_back"]
    BY <1>5 DEF RollbackApply, UndoRun, UndoFrame
  <2>2. NoUndo.run = None
    BY DEF NoUndo
  <2>3. \A s \in Run : status'[s] = status[s] \/ status'[s] = "rolled_back"
    BY <1>1, <2>1 DEF TypeOK
  <2> QED
    BY <1>1, <2>1, <2>2, <2>3 DEF UndoKnown, TypeOK
<1>6. CASE UNCHANGED vars
  BY <1>2, <1>6 DEF vars, runVars, callVars
<1>7. ASSUME NEW r \in Run,
             FailRun(r) \/ CrashRun(r) \/ Rollback(r) \/
             \E clusters \in SUBSET (SUBSET Episode) : BeginRun(r, clusters)
      PROVE  UndoKnown'
  <2>1. /\ UNCHANGED <<input, undo>>
        /\ \A s \in Run \ {r} : status'[s] = status[s]
        /\ status'[r] # "unborn" \/ status'[r] = status[r]
    BY <1>1, <1>7 DEF FailRun, CrashRun, Rollback, UndoRun, UndoFrame, BeginRun, callVars, TypeOK
  <2> QED
    BY <1>2, <2>1
<1> QED
  BY <1>2, <1>3, <1>4, <1>5, <1>6, <1>7 DEF Next, Encode, ForgetEpisode, PurgeEpisode,
     ForgetMemory, PurgeMemory, Decay, Purge, Reinforce, Ask, Verdict, runVars, callVars

(* A rollback that knew the whole input of a run that still stood takes away *)
(* its mark and its count together.                                          *)
LEMMA UndoneNext ==
    ASSUME IInv, NEW r \in Run, status[r] \in {"running", "completed", "failed"},
           status' = [status EXCEPT ![r] = "rolled_back"],
           consolidated' = [e \in Episode |-> consolidated[e] /\ e \notin input[r] \cap Stored],
           UNCHANGED <<row, input, work, raced>>
    PROVE  Marks'
<1>1. TypeOK /\ Marks
  BY DEF IInv
<1>2. status[r] # "completed" => input[r] = {}
  BY <1>1 DEF Marks, NoInputYet
<1>3. \A s \in Run : status'[s] = IF s = r THEN "rolled_back" ELSE status[s]
  BY <1>1 DEF TypeOK
<1>4. Raced' = Raced
  BY DEF Raced
<1>5. ASSUME NEW e \in Stored \ Raced
      PROVE  IF consolidated'[e] THEN \E s \in Run : Consumers(e)' = {s} ELSE Consumers(e)' = {}
  <2>1. CASE e \in input[r]
    <3>1. r \in Consumers(e)
      BY <1>2, <2>1 DEF Consumers
    <3>2. Consumers(e) = {r}
      BY <1>1, <3>1 DEF Marks, MarkedByOne
    <3>3. Consumers(e)' = {}
      BY <1>3, <3>2 DEF Consumers
    <3>4. ~consolidated'[e]
      BY <2>1 DEF Stored
    <3> QED
      BY <3>3, <3>4
  <2>2. CASE e \notin input[r]
    <3>1. Consumers(e)' = Consumers(e)
      BY <1>3, <2>2 DEF Consumers
    <3>2. consolidated'[e] = consolidated[e]
      BY <1>1, <2>2 DEF Stored, TypeOK
    <3> QED
      BY <1>1, <3>1, <3>2 DEF Marks, MarkedByOne
  <2> QED
    BY <2>1, <2>2
<1>6. MarkedByOne'
  BY <1>4, <1>5 DEF MarkedByOne, Stored
<1>7. NoInputYet' /\ UnbornIsUnused'
  BY <1>1, <1>3 DEF Marks, NoInputYet, UnbornIsUnused, TypeOK
<1> QED
  BY <1>6, <1>7 DEF Marks

(* One on a stale read marks and counts only episodes of its own run apart.  *)
LEMMA RacedNext ==
    ASSUME IInv, NEW r \in Run, NEW in \in SUBSET input[r],
           status' = [status EXCEPT ![r] = "rolled_back"],
           status[r] # "unborn",
           consolidated' = [e \in Episode |-> consolidated[e] /\ e \notin in \cap Stored],
           UNCHANGED <<row, input, work>>, raced' = raced \cup {r}
    PROVE  Marks'
<1>1. TypeOK /\ Marks
  BY DEF IInv
<1>2. \A s \in Run : status'[s] = IF s = r THEN "rolled_back" ELSE status[s]
  BY <1>1 DEF TypeOK
<1>3. Raced' = Raced \cup input[r]
  BY DEF Raced
<1>4. ASSUME NEW e \in Stored \ Raced, e \notin input[r]
      PROVE  IF consolidated'[e] THEN \E s \in Run : Consumers(e)' = {s} ELSE Consumers(e)' = {}
  <2>1. Consumers(e)' = Consumers(e)
    BY <1>2, <1>4 DEF Consumers
  <2>2. consolidated'[e] = consolidated[e]
    BY <1>1, <1>4 DEF Stored, TypeOK
  <2> QED
    BY <1>1, <2>1, <2>2 DEF Marks, MarkedByOne
<1>5. MarkedByOne'
  BY <1>3, <1>4 DEF MarkedByOne, Stored
<1>6. NoInputYet' /\ UnbornIsUnused'
  BY <1>1, <1>2 DEF Marks, NoInputYet, UnbornIsUnused, TypeOK
<1> QED
  BY <1>5, <1>6 DEF Marks

(* The transaction of a run marks its input, and counts it.                  *)
LEMMA CommitNext ==
    ASSUME IInv, NEW r \in Run, NEW taken \in SUBSET work[r],
           NEW target \in [taken -> Memory], Commit(r, target)
    PROVE  Marks'
<1>1. TypeOK /\ Marks
  BY DEF IInv
<1> DEFINE consumed == UNION taken
<1>2. /\ work[r] # {} /\ \A c \in taken : Eligible(c)
      /\ consolidated' = [e \in Episode |-> consolidated[e] \/ e \in consumed]
      /\ input' = [input EXCEPT ![r] = consumed]
      /\ status' = [status EXCEPT ![r] = "completed"] /\ work' = [work EXCEPT ![r] = {}]
      /\ UNCHANGED <<row, raced>>
  BY DEF Commit, callVars
<1>3. input[r] = {}
  BY <1>1, <1>2 DEF Marks, NoInputYet
<1>4. \A e \in consumed : e \in Stored /\ ~consolidated[e]
  BY <1>2 DEF Eligible, Candidate, Live
<1> HIDE DEF consumed
<1>5. \A s \in Run : /\ status'[s] = IF s = r THEN "completed" ELSE status[s]
                    /\ input'[s] = IF s = r THEN consumed ELSE input[s]
  BY <1>1, <1>2 DEF TypeOK
<1>6. Raced \subseteq Raced'
  BY <1>1, <1>2, <1>3, <1>5 DEF Raced, TypeOK
<1>7. ASSUME NEW e \in Stored \ Raced
      PROVE  IF consolidated'[e] THEN \E s \in Run : Consumers(e)' = {s} ELSE Consumers(e)' = {}
  <2>1. CASE e \in consumed
    <3>1. Consumers(e) = {}
      BY <1>1, <1>4, <2>1 DEF Marks, MarkedByOne
    <3>2. Consumers(e)' = {r}
      BY <1>5, <2>1, <3>1 DEF Consumers
    <3> QED
      BY <1>2, <2>1, <3>2 DEF Stored
  <2>2. CASE e \notin consumed
    <3>1. Consumers(e)' = Consumers(e)
      BY <1>3, <1>5, <2>2 DEF Consumers
    <3>2. consolidated'[e] = consolidated[e]
      BY <1>1, <1>2, <2>2 DEF Stored, TypeOK
    <3> QED
      BY <1>1, <3>1, <3>2 DEF Marks, MarkedByOne
  <2> QED
    BY <2>1, <2>2
<1>8. MarkedByOne'
  BY <1>2, <1>6, <1>7 DEF MarkedByOne, Stored
<1>9. NoInputYet'
  <2>1. \A s \in Run : s # r => work'[s] = work[s] /\ input'[s] = input[s] /\ status'[s] = status[s]
    BY <1>1, <1>2 DEF TypeOK
  <2>2. work'[r] = {} /\ status'[r] = "completed"
    BY <1>1, <1>2 DEF TypeOK
  <2> QED
    BY <1>1, <2>1, <2>2 DEF Marks, NoInputYet
<1>10. UnbornIsUnused'
  <2> SUFFICES ASSUME NEW e \in Episode, row[e] = "unborn"
               PROVE  ~consolidated'[e] /\ \A s \in Run : e \notin input'[s]
    BY <1>2 DEF UnbornIsUnused
  <2>1. e \notin consumed
    BY <1>4 DEF Stored
  <2> QED
    BY <1>1, <1>2, <1>5, <2>1 DEF Marks, UnbornIsUnused
<1> QED
  BY <1>8, <1>9, <1>10 DEF Marks

LEMMA MarksNext ==
    ASSUME IInv, [Next]_vars
    PROVE  Marks'
<1>1. TypeOK /\ Marks
  BY DEF IInv
<1>2. ASSUME UNCHANGED <<consolidated, runVars, raced>>, Stored' \subseteq Stored,
             \A e \in Episode : row'[e] = "unborn" => row[e] = "unborn"
      PROVE  Marks'
  <2>1. Raced' = Raced /\ \A e \in Episode : Consumers(e)' = Consumers(e)
    BY <1>2 DEF Raced, Consumers, runVars
  <2> QED
    BY <1>1, <1>2, <2>1 DEF Marks, NoInputYet, UnbornIsUnused, MarkedByOne, Stored, runVars
<1>3. ASSUME UNCHANGED <<consolidated, row, input, raced>>, NEW r \in Run, input[r] = {},
             \A s \in Run \ {r} : status'[s] = status[s] /\ work'[s] = work[s]
      PROVE  Marks'
  <2>1. Raced' = Raced /\ \A e \in Episode : Consumers(e)' = Consumers(e)
    BY <1>3 DEF Raced, Consumers
  <2> QED
    BY <1>1, <1>3, <2>1 DEF Marks, NoInputYet, UnbornIsUnused, MarkedByOne, Stored
<1>4. CASE UNCHANGED vars
  BY <1>2, <1>4 DEF vars, episodeVars, runVars, callVars, Stored
<1>5. ASSUME NEW e \in Episode, NEW old \in Episode \cup {None}, Encode(e, old)
      PROVE  Marks'
  <2>1. /\ row' = [row EXCEPT ![e] = "stored"] /\ row[e] = "unborn"
        /\ UNCHANGED <<consolidated, status, input, output, work, raced>>
    BY <1>5 DEF Encode, runVars
  <2>2. Stored' = Stored \cup {e}
    BY <1>1, <2>1 DEF Stored, TypeOK
  <2>3. Consumers(e) = {} /\ ~consolidated[e]
    BY <1>1, <2>1 DEF Marks, UnbornIsUnused, Consumers
  <2>4. Raced' = Raced /\ \A x \in Episode : Consumers(x)' = Consumers(x)
    BY <2>1 DEF Raced, Consumers
  <2>5. MarkedByOne'
    BY <1>1, <2>1, <2>2, <2>3, <2>4 DEF Marks, MarkedByOne, Stored
  <2>6. NoInputYet' /\ UnbornIsUnused'
    BY <1>1, <2>1 DEF Marks, NoInputYet, UnbornIsUnused, TypeOK
  <2> QED
    BY <2>5, <2>6 DEF Marks
<1>6. ASSUME NEW e \in Episode, ForgetEpisode(e) \/ PurgeEpisode(e)
      PROVE  Marks'
  BY <1>1, <1>2, <1>6 DEF ForgetEpisode, PurgeEpisode, Delete, Stored, TypeOK, callVars
<1>7. CASE Purge
  BY <1>1, <1>2, <1>7 DEF Purge, Delete, Stored, DeadEpisodes, TypeOK, callVars
<1>8. ASSUME NEW m \in Memory, ForgetMemory(m) \/ PurgeMemory(m) \/ Decay(m)
      PROVE  Marks'
  BY <1>2, <1>8 DEF ForgetMemory, PurgeMemory, Decay, episodeVars, runVars, callVars, Stored
<1>9. ASSUME NEW e \in Episode, NEW m \in Memory,
             Reinforce(e, m) \/ Ask(e, m) \/
             \E new \in {"disputed", "context_dependent"} : Verdict(e, m, new)
      PROVE  Marks'
  BY <1>2, <1>9 DEF Reinforce, Ask, Verdict, episodeVars, runVars, Stored
<1>10. ASSUME NEW r \in Run, NEW clusters \in SUBSET (SUBSET Episode), BeginRun(r, clusters)
       PROVE  Marks'
  <2>1. input[r] = {}
    BY <1>1, <1>10 DEF Marks, NoInputYet, BeginRun
  <2> QED
    BY <1>1, <1>3, <1>10, <2>1 DEF BeginRun, episodeVars, callVars, TypeOK
<1>11. ASSUME NEW r \in Run, FailRun(r) \/ CrashRun(r)
       PROVE  Marks'
  <2>1. input[r] = {}
    BY <1>1, <1>11 DEF Marks, NoInputYet, FailRun, CrashRun
  <2> QED
    BY <1>1, <1>3, <1>11, <2>1 DEF FailRun, CrashRun, episodeVars, callVars, TypeOK
<1>12. ASSUME NEW r \in Run, Rollback(r)
       PROVE  Marks'
  BY <1>12, UndoneNext DEF Rollback, CanUndo, UndoRun, UndoFrame, Status
<1>13. ASSUME NEW u \in Undoer, RollbackApply(u)
       PROVE  Marks'
  <2> DEFINE r == undo[u].run
             in == undo[u].input
  <2>1. r \in Run /\ in \in SUBSET input[r] /\ status[r] # "unborn"
    BY <1>1, <1>13 DEF RollbackApply, TypeOK, IInv, UndoKnown
  <2>2. /\ status' = [status EXCEPT ![r] = "rolled_back"]
        /\ consolidated' = [e \in Episode |-> consolidated[e] /\ e \notin in \cap Stored]
        /\ UNCHANGED <<row, input, work>>
        /\ raced' = IF Stale(u) THEN raced \cup {r} ELSE raced
    BY <1>13 DEF RollbackApply, UndoRun, UndoFrame
  <2>3. CASE Stale(u)
    BY <2>1, <2>2, <2>3, RacedNext
  <2>4. CASE ~Stale(u)
    <3>1. in = input[r] /\ status[r] # "rolled_back"
      BY <2>4 DEF Stale
    <3> QED
      BY <1>1, <2>1, <2>2, <2>4, <3>1, UndoneNext DEF TypeOK, Status
  <2> QED
    BY <2>3, <2>4
<1>14. ASSUME NEW u \in Undoer, NEW r \in Run, RollbackRead(u, r)
       PROVE  Marks'
  BY <1>2, <1>14 DEF RollbackRead, episodeVars, runVars, Stored
<1> QED
  BY <1>4, <1>5, <1>6, <1>7, <1>8, <1>9, <1>10, <1>11, <1>12, <1>13, <1>14, CommitNext DEF Next

LEMMA OneConsumer == MarkedByOne => ConsumedOnce
BY FS_Singleton, FS_EmptySet DEF MarkedByOne, ConsumedOnce, Raced

(* However runs overlap, fail, die and are rolled back, also by other        *)
(* processes, a stored episode is marked consolidated exactly when one       *)
(* completed run has it as an input, unless it is in the input of a run that *)
(* was rolled back on a stale read (runConsolidation, rollbackConsolidation). *)
THEOREM NothingConsumedTwice == Spec => []ConsumedOnce
<1>1. Init => IInv
  BY InitIInv
<1>2. IInv /\ [Next]_vars => IInv'
  BY NextTypeOK, UndoNext, MarksNext DEF IInv
<1>3. IInv => ConsumedOnce
  BY OneConsumer DEF IInv, Marks
<1> QED
  BY <1>1, <1>2, <1>3, PTL DEF Spec
=============================================================================
