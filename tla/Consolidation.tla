--------------------------- MODULE Consolidation ---------------------------
(***************************************************************************)
(* Episodes, the memories consolidated from them and the runs that do it:  *)
(* encode.ts, consolidate.ts, rollback.ts, forget.ts, decay.ts and         *)
(* validate.ts over one database.                                          *)
(*                                                                         *)
(* A transaction is one atomic step.  What the code reads before an await  *)
(* and uses after it is kept in work (the clusters of a run) and asked     *)
(* (verdicts the language model has still to give); a rollback by another  *)
(* process reads the run before its transaction, into undo.                *)
(***************************************************************************)
EXTENDS Integers, FiniteSets

CONSTANTS Episode,     \* ids of episodes
          Memory,      \* ids of semantic memories
          Run,         \* ids of consolidation runs
          Undoer,      \* other processes that may call rollback
          MinCluster,  \* minClusterSize
          Similar,     \* episodes that can be similar to a memory
          HasModel,    \* TRUE when a language model is configured
          None,        \* no episode, no run
          Forgotten    \* superseded_by of a forgotten episode

ASSUME ConsolidationAssumption ==
    /\ MinCluster \in Nat \ {0} /\ IsFiniteSet(Episode)
    /\ Similar \subseteq Episode /\ HasModel \in BOOLEAN
    /\ None \notin Episode \cup Run
    /\ Forgotten \notin Episode \cup {None}

VARIABLES
    \* episodes and vec_episodes
    row,           \* "unborn", "stored" or "deleted"
    supersededBy,
    supersedes,
    consolidated,
    vec,           \* the row of vec_episodes: its consolidated column or none
    \* semantics and vec_semantics
    state,         \* "unborn", the state column or "deleted"
    evidence,
    supporting,
    indexed,       \* the memory has its row in vec_semantics
    \* consolidation_runs
    status,
    input,
    output,
    work,          \* clusters an unfinished run has read
    \* calls in flight
    queue,         \* episodes waiting for their post-encode validation
    asked,         \* contradictions before the language model
    undo,          \* what a rollback of another process has read
    raced          \* history: runs that such a rollback undid on a stale read

episodeVars == <<row, supersededBy, supersedes, consolidated, vec>>
memoryVars == <<state, evidence, supporting, indexed>>
runVars == <<status, input, output, work>>
callVars == <<queue, asked, undo, raced>>
vars == <<episodeVars, memoryVars, runVars, callVars>>

State == {"active", "disputed", "superseded", "context_dependent", "dormant", "rolled_back"}
Status == {"running", "completed", "failed", "rolled_back"}
NoUndo == [run |-> None, input |-> {}, output |-> {}]

Stored == {e \in Episode : row[e] = "stored"}
Existing == {m \in Memory : state[m] \in State}
Live(e) == e \in Stored /\ supersededBy[e] = None

-----------------------------------------------------------------------------
Init ==
    /\ row = [e \in Episode |-> "unborn"]
    /\ supersededBy = [e \in Episode |-> None]
    /\ supersedes = [e \in Episode |-> None]
    /\ consolidated = [e \in Episode |-> FALSE]
    /\ vec = [e \in Episode |-> "none"]
    /\ state = [m \in Memory |-> "unborn"]
    /\ evidence = [m \in Memory |-> {}]
    /\ supporting = [m \in Memory |-> 0]
    /\ indexed = [m \in Memory |-> FALSE]
    /\ status = [r \in Run |-> "unborn"]
    /\ input = [r \in Run |-> {}]
    /\ output = [r \in Run |-> {}]
    /\ work = [r \in Run |-> {}]
    /\ queue = {}
    /\ asked = {}
    /\ undo = [u \in Undoer |-> NoUndo]
    /\ raced = {}

-----------------------------------------------------------------------------
(* encodeEpisode: old is None or the episode that the new one supersedes,  *)
(* which the foreign key of supersedes wants stored; a forgotten one is    *)
(* overwritten.                                                            *)
Encode(e, old) ==
    /\ row[e] = "unborn"
    /\ old = None \/ old \in Stored
    /\ row' = [row EXCEPT ![e] = "stored"]
    /\ supersedes' = [supersedes EXCEPT ![e] = old]
    /\ supersededBy' = [x \in Episode |-> IF x = old THEN e ELSE supersededBy[x]]
    /\ vec' = [vec EXCEPT ![e] = "open"]
    /\ queue' = queue \cup ({e} \cap Similar)
    /\ UNCHANGED <<consolidated, memoryVars, runVars, asked, undo, raced>>

(* The foreign key refuses to delete an episode another one supersedes.    *)
Referenced(e) == \E x \in Stored : supersedes[x] = e

ForgetEpisode(e) ==
    /\ e \in Stored
    /\ supersededBy' = [supersededBy EXCEPT ![e] = Forgotten]
    /\ vec' = [vec EXCEPT ![e] = "none"]
    /\ UNCHANGED <<row, supersedes, consolidated, memoryVars, runVars, callVars>>

Delete(dead) ==
    /\ row' = [e \in Episode |-> IF e \in dead THEN "deleted" ELSE row[e]]
    /\ vec' = [e \in Episode |-> IF e \in dead THEN "none" ELSE vec[e]]
    /\ UNCHANGED <<supersededBy, supersedes, consolidated>>

Drop(dead) ==
    /\ state' = [m \in Memory |-> IF m \in dead THEN "deleted" ELSE state[m]]
    /\ indexed' = [m \in Memory |-> indexed[m] /\ m \notin dead]
    /\ UNCHANGED <<evidence, supporting>>

PurgeEpisode(e) ==
    /\ e \in Stored
    /\ ~Referenced(e)
    /\ Delete({e})
    /\ UNCHANGED <<memoryVars, runVars, callVars>>

ForgetMemory(m) ==
    /\ m \in Existing
    /\ state' = [state EXCEPT ![m] = "superseded"]
    /\ indexed' = [indexed EXCEPT ![m] = FALSE]
    /\ UNCHANGED <<evidence, supporting, episodeVars, runVars, callVars>>

PurgeMemory(m) ==
    /\ m \in Existing
    /\ Drop({m})
    /\ UNCHANGED <<episodeVars, runVars, callVars>>

(* purgeMemories deletes all that is dead, or fails and deletes nothing:   *)
(* the older of two episodes is deleted first, so that one reference to a  *)
(* dead episode is enough.                                                 *)
DeadEpisodes == {e \in Stored : supersededBy[e] # None}
DeadMemories == {m \in Memory : state[m] \in {"superseded", "dormant", "rolled_back"}}

Purge ==
    /\ \A e \in DeadEpisodes : ~Referenced(e)
    /\ Delete(DeadEpisodes)
    /\ Drop(DeadMemories)
    /\ UNCHANGED <<runVars, callVars>>

-----------------------------------------------------------------------------
(* clusterEpisodes reads the episodes still to consolidate and joins those *)
(* that a nearest-neighbour query links.  The query only finds rows of     *)
(* vec_episodes with consolidated = 0, so a cluster has one of these; how  *)
(* similar episodes are is left open.                                      *)
Candidate(e) == Live(e) /\ ~consolidated[e]

IsCluster(c) ==
    /\ Cardinality(c) >= MinCluster
    /\ \A e \in c : Candidate(e) /\ vec[e] # "none"
    /\ MinCluster > 1 => \E e \in c : vec[e] = "open"

(* A cluster without a principle is skipped: the run then has one less.    *)
IsClustering(clusters) ==
    /\ \A c \in clusters : IsCluster(c)
    /\ \A c, d \in clusters : c = d \/ c \cap d = {}

(* A run that finds no cluster ends with no input.                         *)
BeginRun(r, clusters) ==
    /\ status[r] = "unborn"
    /\ IsClustering(clusters)
    /\ status' = [status EXCEPT ![r] = IF clusters = {} THEN "completed" ELSE "running"]
    /\ work' = [work EXCEPT ![r] = clusters]
    /\ UNCHANGED <<input, output, episodeVars, memoryVars, callVars>>

EligibleConsumed(c) == \A e \in c : Live(e)

(* Inside the transaction a cluster is taken only if all of it is still    *)
(* there to consolidate.                                                   *)
Eligible(c) == \A e \in c : Candidate(e)

Mergeable(m) == state[m] \in {"active", "context_dependent"} /\ indexed[m]

(* unionEvidenceIds and mergeIntoSemantic: only new evidence counts.       *)
Support(m, new) == supporting[m] + Cardinality(new \ evidence[m])

(* The transaction that ends runConsolidation.  Every cluster of taken     *)
(* goes to the memory target[c], an existing one it is similar to or a new *)
(* one that it, or an earlier cluster of the run, creates.                 *)
Commit(r, target) ==
    /\ work[r] # {}
    /\ DOMAIN target = {c \in work[r] : Eligible(c)}
    /\ LET taken == DOMAIN target
           used == {target[c] : c \in taken}
           new(m) == UNION {c \in taken : target[c] = m}
           consumed == UNION taken
       IN  /\ \A m \in used : Mergeable(m) \/ state[m] = "unborn"
           /\ state' = [m \in Memory |->
                  IF m \in used /\ state[m] = "unborn" THEN "active" ELSE state[m]]
           /\ indexed' = [m \in Memory |-> indexed[m] \/ m \in used]
           /\ evidence' = [m \in Memory |-> evidence[m] \cup new(m)]
           /\ supporting' = [m \in Memory |-> Support(m, new(m))]
           /\ consolidated' = [e \in Episode |-> consolidated[e] \/ e \in consumed]
           /\ vec' = [e \in Episode |-> IF e \in consumed THEN "used" ELSE vec[e]]
           /\ input' = [input EXCEPT ![r] = consumed]
           /\ output' = [output EXCEPT ![r] = used]
    /\ status' = [status EXCEPT ![r] = "completed"]
    /\ work' = [work EXCEPT ![r] = {}]
    /\ UNCHANGED <<row, supersededBy, supersedes, callVars>>

(* A provider throws while the run awaits it.                              *)
FailRun(r) ==
    /\ work[r] # {}
    /\ status' = [status EXCEPT ![r] = "failed"]
    /\ work' = [work EXCEPT ![r] = {}]
    /\ UNCHANGED <<input, output, episodeVars, memoryVars, callVars>>

(* The process dies: the run stays "running" for good.                     *)
CrashRun(r) ==
    /\ work[r] # {}
    /\ work' = [work EXCEPT ![r] = {}]
    /\ UNCHANGED <<status, input, output, episodeVars, memoryVars, callVars>>

-----------------------------------------------------------------------------
(* The transaction of rollbackConsolidation with what it read of the run:  *)
(* memories and episodes are marked whatever happened to them meanwhile,   *)
(* and vec_episodes keeps the mark of the run.                             *)
UndoRun(r, in, out) ==
    /\ status' = [status EXCEPT ![r] = "rolled_back"]
    /\ state' = [m \in Memory |->
           IF m \in out \cap Existing THEN "rolled_back" ELSE state[m]]
    /\ consolidated' = [e \in Episode |-> consolidated[e] /\ e \notin in \cap Stored]

UndoFrame ==
    UNCHANGED <<row, supersededBy, supersedes, vec, evidence, supporting, indexed,
                input, output, work, queue, asked>>

CanUndo(r) == status[r] \in Status \ {"rolled_back"}

(* In the process of the runs a rollback is one synchronous call.          *)
Rollback(r) ==
    /\ CanUndo(r)
    /\ UndoRun(r, input[r], output[r])
    /\ UndoFrame
    /\ UNCHANGED <<undo, raced>>

(* Another process reads the run before its transaction begins.            *)
RollbackRead(u, r) ==
    /\ undo[u].run = None
    /\ CanUndo(r)
    /\ undo' = [undo EXCEPT ![u] = [run |-> r, input |-> input[r], output |-> output[r]]]
    /\ UNCHANGED <<episodeVars, memoryVars, runVars, queue, asked, raced>>

(* The run was committed or undone since.                                  *)
Stale(u) == \/ undo[u].input # input[undo[u].run]
            \/ status[undo[u].run] = "rolled_back"

RollbackApply(u) ==
    /\ undo[u].run # None
    /\ UndoRun(undo[u].run, undo[u].input, undo[u].output)
    /\ raced' = IF Stale(u) THEN raced \cup {undo[u].run} ELSE raced
    /\ undo' = [undo EXCEPT ![u] = NoUndo]
    /\ UndoFrame

-----------------------------------------------------------------------------
(* applyDecay evaluates and marks active memories in one transaction.      *)
Decay(m) ==
    /\ state[m] = "active"
    /\ state' = [state EXCEPT ![m] = "dormant"]
    /\ UNCHANGED <<evidence, supporting, indexed, episodeVars, runVars, callVars>>

ReinforceAgain(e, m) ==
    /\ e \in queue
    /\ Mergeable(m)
    /\ evidence' = [evidence EXCEPT ![m] = @ \cup {e}]
    /\ supporting' = [supporting EXCEPT ![m] = @ + 1]
    /\ queue' = queue \ {e}
    /\ UNCHANGED <<state, indexed, episodeVars, runVars, asked, undo, raced>>

(* validateMemory reinforces the similar memory m with the queued episode, *)
(* which may have been consolidated, forgotten or deleted since.           *)
Reinforce(e, m) ==
    /\ e \in queue
    /\ Mergeable(m)
    /\ evidence' = [evidence EXCEPT ![m] = @ \cup {e}]
    /\ supporting' = [supporting EXCEPT ![m] = Support(m, {e})]
    /\ queue' = queue \ {e}
    /\ UNCHANGED <<state, indexed, episodeVars, runVars, asked, undo, raced>>

(* validateMemory asks the language model whether the episode contradicts  *)
(* the memory m ...                                                        *)
Ask(e, m) ==
    /\ HasModel
    /\ e \in queue
    /\ Mergeable(m)
    /\ asked' = asked \cup {<<e, m>>}
    /\ queue' = queue \ {e}
    /\ UNCHANGED <<undo, raced, episodeVars, memoryVars, runVars>>

(* ... and sets the state the verdict calls for, whatever it is by now.    *)
Verdict(e, m, new) ==
    /\ <<e, m>> \in asked
    /\ state' = IF m \in Existing THEN [state EXCEPT ![m] = new] ELSE state
    /\ asked' = asked \ {<<e, m>>}
    /\ UNCHANGED <<evidence, supporting, indexed, queue, undo, raced,
                   episodeVars, runVars>>

-----------------------------------------------------------------------------
Next ==
    \/ \E e \in Episode :
         \/ \E old \in Episode \cup {None} : Encode(e, old)
         \/ ForgetEpisode(e)
         \/ PurgeEpisode(e)
    \/ \E m \in Memory : ForgetMemory(m) \/ PurgeMemory(m) \/ Decay(m)
    \/ Purge
    \/ \E r \in Run :
         \/ \E clusters \in SUBSET (SUBSET Episode) : BeginRun(r, clusters)
         \/ \E taken \in SUBSET work[r] : \E target \in [taken -> Memory] : Commit(r, target)
         \/ FailRun(r) \/ CrashRun(r) \/ Rollback(r)
         \/ \E u \in Undoer : RollbackRead(u, r)
    \/ \E u \in Undoer : RollbackApply(u)
    \/ \E e \in Episode, m \in Memory :
         \/ Reinforce(e, m)
         \/ Ask(e, m)
         \/ \E new \in {"disputed", "context_dependent"} : Verdict(e, m, new)

Spec == Init /\ [][Next]_vars

-----------------------------------------------------------------------------
TypeOK ==
    /\ row \in [Episode -> {"unborn", "stored", "deleted"}]
    /\ supersededBy \in [Episode -> Episode \cup {None, Forgotten}]
    /\ supersedes \in [Episode -> Episode \cup {None}]
    /\ consolidated \in [Episode -> BOOLEAN]
    /\ vec \in [Episode -> {"none", "open", "used"}]
    /\ state \in [Memory -> State \cup {"unborn", "deleted"}]
    /\ evidence \in [Memory -> SUBSET Episode]
    /\ supporting \in [Memory -> Nat]
    /\ indexed \in [Memory -> BOOLEAN]
    /\ status \in [Run -> Status \cup {"unborn"}]
    /\ input \in [Run -> SUBSET Episode]
    /\ output \in [Run -> SUBSET Memory]
    /\ work \in [Run -> SUBSET (SUBSET Episode)]
    /\ queue \subseteq Episode
    /\ asked \subseteq Episode \X Memory
    /\ undo \in [Undoer -> [run : Run \cup {None}, input : SUBSET Episode,
                            output : SUBSET Memory]]
    /\ raced \subseteq Run

(* The runs that count an episode among their inputs and were not undone.  *)
Consumers(e) == {r \in Run : status[r] = "completed" /\ e \in input[r]}

(* However runs overlap, fail and are rolled back, a stored episode is     *)
(* marked consolidated exactly when one completed run has it as an input:  *)
(* none is consolidated twice and none is lost.  Only the episodes of a    *)
(* run that another process rolled back on what it had read before the run *)
(* was committed or undone are not safe: these stay marked, or are opened  *)
(* again while a later run counts them.                                    *)
ConsumedOnce ==
    \A e \in Stored \ UNION {input[r] : r \in raced} :
        Cardinality(Consumers(e)) = IF consolidated[e] THEN 1 ELSE 0

(* The supporting_count of a memory is the number of its evidence          *)
(* episodes, whichever of overlapping runs and validations counted them.   *)
SupportMatchesEvidence ==
    \A m \in Memory : supporting[m] = Cardinality(evidence[m])
=============================================================================
