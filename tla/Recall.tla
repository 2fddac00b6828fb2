------------------------------- MODULE Recall -------------------------------
(* Recall (recall.ts, hybrid-recall.ts, fts.ts): the memories that answer a   *)
(* query, from the vectors nearest to it and the keyword hits, fused and      *)
(* rid of duplicates.                                                         *)
(*                                                                            *)
(* A call awaits the embedding of its query; then it searches without a       *)
(* pause, and yields the answer one by one, with a pause after each.          *)
EXTENDS Integers, FiniteSets, SequencesExt

CONSTANTS
    Memory,    \* ids, which are numbers in the order of creation
    Kind,      \* episodic, semantic, procedural, in [Memory -> ...]
    Agent,     \* the owner of each
    Me,        \* the agent that recalls
    Private,   \* the private ones
    Tags,      \* of each, and what stands beside them in a row: the source
    Certain,   \* confidence in percent, as the vector pass computes it
    Coarse,    \* the one that an entry found by its words alone is given
    Reliable,  \* reliability of the source of each, in percent
    Overlap,   \* of the words of each two, in percent
    Start,     \* the states that the memories may be in to begin with
    Query,     \* what is asked (see IsQuery),
    Request,   \* and with which options (see IsRequest)
    Fault,     \* the searches that fail together
    Pool,      \* candidates for each entry of the answer (3),
    WidePool,  \* the same when filters will drop some (5),
    Retry,     \* and how many times that in a second pass (4)
    MaxChanges \* changes by others while a recall awaits

Types == {"episodic", "semantic", "procedural"}
Percent == 0..100

(* A query is near to memories, has its words in some (0: in none), and may  *)
(* ask for the value of an identifier, which only some hold.                 *)
IsQuery(q) ==
    q.near \in [Memory -> Percent] /\ q.words \in [Memory -> Nat] /\ q.holds \subseteq Memory

(* The options of a recall are these, and tags.                              *)
IsRequest(o) ==
    /\ o.mode \in {"hybrid", "vector", "keyword"}
    /\ o.types \subseteq Types /\ o.limit \in Nat \ {0}
    /\ {o.mine, o.private, o.dormant} \subseteq BOOLEAN
    /\ o.since \in Nat /\ o.least \in Percent

EpisodeState == {"live", "superseded", "forgotten", "purged"}
MemoryState == {"active", "context_dependent", "disputed", "dormant", "forgotten", "purged"}
StateOf(m) == IF Kind[m] = "episodic" THEN EpisodeState ELSE MemoryState

ASSUME RecallConstants ==
    /\ Memory \subseteq Nat /\ IsFiniteSet(Memory)
    /\ Kind \in [Memory -> Types]
    /\ \A s \in Start : DOMAIN s = Memory /\ \A m \in Memory : s[m] \in StateOf(m)
    /\ {Certain, Coarse, Reliable} \subseteq [Memory -> Percent]
    /\ \A o \in Request : IsRequest(o)
    /\ \A q \in Query : IsQuery(q)
    /\ MaxChanges \in Nat /\ Pool \in Nat \ {0} /\ WidePool \in Nat \ {0} /\ Retry \in Nat \ {0}

VARIABLES
    state,      \* of each memory; "forgotten" has left the indexes, "purged" the tables
    call,       \* the recall under way
    reinforced, \* the memories whose retrieval it has counted
    changes     \* by others, up to a bound

recallVars == <<state, call, reinforced, changes>>

Asleep == [at |-> "idle", errors |-> {}, top |-> {}, shown |-> {}]

RecallInit ==
    /\ state \in Start
    /\ call = Asleep /\ reinforced = {} /\ changes = 0
-----------------------------------------------------------------------------
LeastOf(a, b) == IF a < b THEN a ELSE b

(* By a score, and by id where the scores are equal.                         *)
Before(a, b, score) == score[a] > score[b] \/ (score[a] = score[b] /\ a < b)

Ahead(S, m, score) == {n \in S : Before(n, m, score)}

(* ORDER BY score LIMIT k.                                                   *)
Best(S, k, score) == {m \in S : Cardinality(Ahead(S, m, score)) < k}
-----------------------------------------------------------------------------
(* The vector pass.                                                          *)

Indexed(m) == state[m] \notin {"forgotten", "purged"}

(* Rows of the vector table of a kind: vec0 partitions them by agent.        *)
Rows(o, t) == {m \in Memory : Kind[m] = t /\ Indexed(m) /\ (o.mine => Agent[m] = Me)}

Filtered(o) == o.tags # {} \/ o.since # 0

CandidateK(o) == o.limit * (IF Filtered(o) THEN WidePool ELSE Pool)

(* MATCH with k: the k rows nearest to the query, before any other clause.   *)
Nearest(o, q, t, k) == Best(Rows(o, t), LeastOf(k, Cardinality(Rows(o, t))), q.near)

(* What stateClause and the clauses on episodes let through.                 *)
Stands(o, m) ==
    IF Kind[m] = "episodic"
    THEN state[m] = "live" /\ (o.private \/ m \notin Private)
    ELSE state[m] \in {"active", "context_dependent"} \cup (IF o.dormant THEN {"dormant"} ELSE {})

(* Dates filter every kind; tags and sources only episodes.                  *)
Passes(o, m) == m > o.since /\ (Kind[m] = "episodic" => o.tags \subseteq Tags[m])

Knn(o, q, t, k) ==
    {m \in Nearest(o, q, t, k) :
        Stands(o, m) /\ Passes(o, m) /\ Certain[m] >= o.least}

VectorPass(o, q, k, down) ==
    IF o.mode = "keyword" THEN {}
    ELSE UNION {Knn(o, q, t, k) : t \in o.types \ down}
-----------------------------------------------------------------------------
(* The keyword pass.                                                         *)

Served(m) == state[m] \in {"live", "active"}
Owned(o, m) == o.mine => Agent[m] = Me

(* searchFTS...: the best hits of a kind among the rows that stand.          *)
Worded(o, q, t) == {m \in Memory : q.words[m] > 0 /\ Kind[m] = t /\ Served(m) /\ Owned(o, m)}
FtsIds(o, q, t) == Best(Worded(o, q, t), CandidateK(o), q.words)

FtsHits(o, q, down) ==
    IF o.mode = "vector" \/ "fts" \in down THEN {} ELSE UNION {FtsIds(o, q, t) : t \in o.types}

FtsRank(o, q, m) == Cardinality(Ahead(Worded(o, q, Kind[m]), m, q.words)) + 1

LoadFtsOnlyPublic(o, m) == Owned(o, m) /\ state[m] # "superseded" /\ Passes(o, m)

(* A hit that no vector found is loaded by its id and checked again.         *)
LoadFtsOnly(o, m) == Owned(o, m) /\ Stands(o, m) /\ Passes(o, m)
-----------------------------------------------------------------------------
(* Fusion.  Scores are in thousandths.                                       *)

VectorWeight == 3
FtsWeight == 7
RrfK == 60

BaseScore(q, m) == (q.near[m] * Certain[m]) \div 100

FtsScore(o, q, m, hits) ==
    IF m \in hits THEN ((RrfK + 1) * 100 * FtsWeight) \div (RrfK + FtsRank(o, q, m)) ELSE 0

Fused(o, q, found, hits) ==
    found \cup {m \in hits \ found : LoadFtsOnly(o, m) /\ Coarse[m] >= o.least}

ScoreUnweighted(o, q, m, found, hits) ==
    (IF m \in found THEN BaseScore(q, m) * 10 ELSE 0) + FtsScore(o, q, m, hits)

Score(o, q, m, found, hits) ==
    IF o.mode = "vector" THEN BaseScore(q, m) * 10
    ELSE (IF m \in found THEN BaseScore(q, m) * VectorWeight ELSE 0) + FtsScore(o, q, m, hits)
-----------------------------------------------------------------------------
(* The result guards.                                                        *)

(* shouldSuppressDuplicate, of an entry that is accepted and a later one.    *)
Suppresses(a, b, score) ==
    /\ Overlap[<<a, b>>] >= 50 /\ Kind[a] = Kind[b]
    /\ IF Reliable[a] = Reliable[b]
       THEN Overlap[<<a, b>>] >= 95 /\ (score[a] > score[b] \/ (score[a] = score[b] /\ a < b))
       ELSE Reliable[a] - Reliable[b] >= 20 /\ 100 * score[a] >= 95 * score[b]

(* A query that asks for the value of an identifier is answered only by       *)
(* entries that hold it.                                                     *)
Fit(q, entries) == entries \cap q.holds

(* One after the other: an entry is accepted when fewer than the limit have  *)
(* been accepted before it and it repeats none of them.                      *)
Accepts(G, fit, limit, score) ==
    \A m \in fit : LET before == Ahead(G, m, score)
                   IN  m \in G <=> /\ Cardinality(before) < limit
                                  /\ \A e \in before : ~Suppresses(e, m, score)

Guarded(o, q, entries, score) ==
    LET fit == Fit(q, entries) IN CHOOSE G \in SUBSET fit : Accepts(G, fit, o.limit, score)

Entry(m, score, found) ==
    [id |-> m, score |-> score[m], state |-> state[m],
     conf |-> IF m \in found THEN Certain[m] ELSE Coarse[m]]

TopAfter(o, q, k, down) ==
    LET found == VectorPass(o, q, k, down)
        hits == FtsHits(o, q, down)
        score == [m \in Memory |-> Score(o, q, m, found, hits)]
    IN  {Entry(m, score, found) : m \in Guarded(o, q, Fused(o, q, found, hits), score)}

Ids(entries) == {e.id : e \in entries}

(* The order in which the entries are yielded.                               *)
Better(e, f) == e.score > f.score \/ (e.score = f.score /\ e.id < f.id)

(* The largest partition of those that are searched.                         *)
LargestPartition(o) ==
    LET counts == {Cardinality(Rows(o, t)) : t \in o.types}
    IN  CHOOSE c \in counts : \A d \in counts : d <= c

RetryK(o) == LeastOf(CandidateK(o) * Retry, LargestPartition(o))

TopUnlessEmpty(o, q, down) ==
    LET first == TopAfter(o, q, CandidateK(o), down)
    IN  IF o.mine /\ o.mode # "keyword" /\ first = {} /\ RetryK(o) > CandidateK(o)
        THEN TopAfter(o, q, RetryK(o), down) ELSE first

(* A recall of one agent that found too few looks once more, further.        *)
Top(o, q, down) ==
    LET first == TopAfter(o, q, CandidateK(o), down)
    IN  IF o.mine /\ o.mode # "keyword" /\ Cardinality(first) < o.limit /\ RetryK(o) > CandidateK(o)
        THEN TopAfter(o, q, RetryK(o), down) ELSE first
-----------------------------------------------------------------------------
Ask(o, q) ==
    /\ call.at \in {"idle", "answered", "failed"}
    /\ call' = [at |-> "embedding", opt |-> o, query |-> q, errors |-> {},
                top |-> {}, shown |-> {}]
    /\ UNCHANGED <<state, reinforced, changes>>

(* A search that fails is reported and the others go on; the vector searches *)
(* are not run at all in keyword mode, nor the keyword one in vector mode.   *)
Search(down) ==
    LET o == call.opt
        failed == down \cap ((IF o.mode = "keyword" THEN {} ELSE o.types)
                          \cup (IF o.mode = "vector" THEN {} ELSE {"fts"}))
    IN  /\ call.at = "embedding"
        /\ call' = [call EXCEPT !.at = "yielding", !.top = Top(o, call.query, failed),
                                !.errors = failed]
        /\ UNCHANGED <<state, reinforced, changes>>

(* The embedding provider fails, and the call with it.                       *)
EmbedFails ==
    /\ call.at = "embedding" /\ call.opt.mode # "keyword"
    /\ call' = [call EXCEPT !.at = "failed"]
    /\ UNCHANGED <<state, reinforced, changes>>

YieldReinforcing ==
    /\ call.at = "yielding"
    /\ IF call.top = {}
       THEN call' = [call EXCEPT !.at = "answered"] /\ UNCHANGED reinforced
       ELSE LET e == CHOOSE e \in call.top : \A f \in call.top \ {e} : Better(e, f) IN
              /\ call' = [call EXCEPT !.top = @ \ {e}, !.shown = @ \cup {e}]
              /\ reinforced' = reinforced \cup {e.id}
    /\ UNCHANGED <<state, changes>>

(* The next entry: what is not an episode is reinforced first.               *)
Yield ==
    /\ call.at = "yielding"
    /\ IF call.top = {}
       THEN call' = [call EXCEPT !.at = "answered"] /\ UNCHANGED reinforced
       ELSE LET e == CHOOSE e \in call.top : \A f \in call.top \ {e} : Better(e, f)
                m == e.id
            IN
              /\ call' = [call EXCEPT !.top = @ \ {e}, !.shown = @ \cup {e}]
              /\ reinforced' = IF Kind[m] = "episodic" \/ state[m] = "purged"
                               THEN reinforced ELSE reinforced \cup {m}
    /\ UNCHANGED <<state, changes>>

(* The reinforcement may fail, which is reported; the entry is given.        *)
YieldUnreinforced ==
    /\ call.at = "yielding"
    /\ \E e \in call.top :
          /\ \A f \in call.top \ {e} : Better(e, f)
          /\ Kind[e.id] # "episodic"
          /\ call' = [call EXCEPT !.top = @ \ {e}, !.shown = @ \cup {e},
                                  !.errors = @ \cup {Kind[e.id]}]
    /\ UNCHANGED <<state, reinforced, changes>>

(* Other calls of the process run where this one awaits, and other processes *)
(* at any time: memories are superseded, resolved, forgotten and purged.     *)
Change(m, s) ==
    /\ call.at \in {"embedding", "yielding"} /\ changes < MaxChanges
    /\ s \in StateOf(m) \ {state[m]}
    /\ state[m] # "purged" /\ (state[m] = "forgotten" => s = "purged")
    /\ state' = [state EXCEPT ![m] = s]
    /\ changes' = changes + 1
    /\ UNCHANGED <<call, reinforced>>

(* A recall from its question to its answer.                                 *)
Answering == (\E down \in Fault : Search(down)) \/ EmbedFails \/ Yield \/ YieldUnreinforced

Others == \E m \in Memory, s \in EpisodeState \cup MemoryState : Change(m, s)
-----------------------------------------------------------------------------
Eligible(o, m) == Owned(o, m) /\ Stands(o, m) /\ Passes(o, m)

Searched == call.at = "embedding" /\ call'.at = "yielding"

(* Whatever finds a memory, its vector or its words, no answer has one that   *)
(* is forgotten, superseded, disputed or dormant, of another agent, private   *)
(* or filtered out, unless the options allow it.                              *)
NothingHidden ==
    [][Searched => \A m \in Ids(call'.top) : Eligible(call.opt, m)]_recallVars

(* How far from the query a recall looks.                                    *)
Reach(o) == CandidateK(o) * (IF o.mine THEN Retry ELSE 1)

(* An answer that is shorter than asked leaves out nothing within reach: a   *)
(* memory that could stand in it is confident too little, holds no value     *)
(* that was asked for, or repeats an entry.                                  *)
FullAnswer ==
    [][LET o == call.opt
       IN  (Searched /\ o.mode # "keyword" /\ call'.errors = {} /\ Cardinality(call'.top) < o.limit)
           => \A t \in o.types : Cardinality(Rows(o, t)) <= Reach(o) =>
                \A m \in Rows(o, t) \cap call.query.holds :
                    Eligible(o, m) /\ Certain[m] >= o.least =>
                        \/ m \in Ids(call'.top)
                        \/ \E e \in Ids(call'.top) : Kind[e] = t /\ Overlap[<<e, m>>] >= 50]_recallVars

(* In a hybrid answer, the best keyword hit of a kind comes before whatever  *)
(* only the vectors found, unless an entry it repeats took its place.        *)
KeywordFirst ==
    [][LET o == call.opt
           hits == FtsHits(o, call.query, call'.errors)
       IN  (Searched /\ o.mode = "hybrid") =>
           \A b \in hits, n \in Ids(call'.top) \ hits :
               FtsRank(o, call.query, b) = 1 /\ b \in call.query.holds /\ Eligible(o, b)
                 /\ LeastOf(Certain[b], Coarse[b]) >= o.least
               => \/ \E e, f \in call'.top : e.id = b /\ f.id = n /\ Better(e, f)
                  \/ \E e \in Ids(call'.top) : Kind[e] = Kind[b] /\ Overlap[<<e, b>>] >= 50]_recallVars
=============================================================================
