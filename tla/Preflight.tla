----------------------------- MODULE Preflight ------------------------------
(* What an agent is told before it acts (capsule.ts, preflight.ts, trust.ts): *)
(* a capsule, which sorts what recall answers into sections and cuts it to a  *)
(* budget, and the warnings and the decision that are derived from it.        *)
(*                                                                            *)
(* A preflight recalls twice at most: for the capsule and, when no rule is in *)
(* it, for rules alone.  Memories change while either recall is awaited.      *)
EXTENDS Recall

CONSTANTS
    Trust,          \* controlTrustFor, in [Memory -> ...]
    Recent,         \* memories inside the window of recent changes
    Elsewhere,      \* tool failures that were learned in another project
    Cost,           \* characters of each memory, of a failure, of a contradiction
    Budget,         \* characters of a capsule
    CapsuleRequest, \* the recall of the capsule,
    SweepRequest,   \* and the one for rules, which filters by their tag
    SweepTake,      \* rules that are taken from it (5)
    Signals,        \* what the log of events, contradictions and status may say
    FailedHere,     \* ids of entries that are no memories: a failing tool that is
    FailedOther,    \* the one to be used, another one,
    Contradiction   \* and an open contradiction

Derived == {FailedHere, FailedOther, Contradiction}

ASSUME PreflightConstants ==
    /\ IsRequest(CapsuleRequest) /\ IsRequest(SweepRequest)
    /\ SweepRequest.mode # "keyword" /\ "episodic" \in SweepRequest.types
    /\ SweepTake \in Nat \ {0}
    /\ Trust \in [Memory -> {"verified", "legacy", "untrusted"}]
    /\ \A m \in Memory : Kind[m] # "episodic" => Trust[m] = "untrusted"
    /\ Cost \in [Memory \cup Derived -> Nat] /\ Budget \in Nat
    /\ Signals \subseteq [failing : SUBSET {FailedHere, FailedOther}, disputed : BOOLEAN,
                            health : {"healthy", "reembed_recommended", "unhealthy"}]
    /\ Derived \subseteq Nat /\ Derived \cap Memory = {}

VARIABLE flight \* the preflight: how far it is, what it knows and decided

allVars == <<recallVars, flight>>

Section == {"must_follow", "risks", "contradictions", "procedures", "project_facts",
            "user_preferences", "recent_changes", "uncertain_or_disputed"}
SectionPriority == <<"must_follow", "risks", "contradictions", "procedures", "project_facts",
                     "user_preferences", "recent_changes", "uncertain_or_disputed">>

Nothing == [s \in Section |-> {}]
Waiting == [at |-> "idle", strict |-> FALSE, capsule |-> Nothing, degraded |-> FALSE,
            health |-> "healthy", warnings |-> {}, decision |-> "none"]

PreflightTypeOK ==
    /\ \A m \in Memory : state[m] \in StateOf(m)
    /\ call.at \in {"idle", "embedding", "yielding", "answered", "failed"}
    /\ Ids(call.top) \cup Ids(call.shown) \subseteq Memory
    /\ Ids(call.top) \cap Ids(call.shown) = {}
    /\ reinforced \subseteq {m \in Memory : Kind[m] # "episodic"}
    /\ changes \in 0..MaxChanges
    /\ flight.at \in {"idle", "capsule", "sweep", "decided", "thrown"}
    /\ \A s \in Section : flight.capsule[s] \subseteq Memory \cup Derived
    /\ flight.decision \in {"none", "go", "caution", "block"}
-----------------------------------------------------------------------------
(* The capsule.                                                              *)

(* The tags of a row, which a purge may have taken since the search, and the *)
(* trust in what it says.                                                    *)
TagsOf(m) == IF state[m] = "purged" THEN {} ELSE Tags[m]
TrustIn(m) == IF state[m] = "purged" /\ Trust[m] = "verified" THEN "untrusted" ELSE Trust[m]

(* MUST_FOLLOW_TAGS: the tag that the probe and the sweep ask for, and one   *)
(* that stands for those they do not (must, required, never, always, policy).*)
RuleTags == {"must-follow", "always"}

(* categorize: the sections of an entry of the answer.                       *)
Categorize(e) ==
    LET has(t) == t \in TagsOf(e.id)
        rule == TagsOf(e.id) \cap RuleTags # {}
        found == {s \in Section :
            \/ s = "must_follow" /\ rule /\ TrustIn(e.id) # "untrusted"
            \/ s = "risks" /\ (has("risk") \/ has("tool-failure"))
            \/ s = "procedures" /\ (Kind[e.id] = "procedural" \/ has("procedure"))
            \/ s = "user_preferences" /\ (has("preference") \/ has("told-by-user"))
            \/ s = "uncertain_or_disputed" /\ \/ rule /\ TrustIn(e.id) = "untrusted"
                                              \/ e.state = "context_dependent" \/ e.conf < 55
            \/ s = "recent_changes" /\ e.id \in Recent}
    IN  IF found = {} THEN {"project_facts"} ELSE found

(* A tool failure of another project is left out.                            *)
Local(e) == ~("tool-failure" \in TagsOf(e.id) /\ e.id \in Elsewhere)

(* The entries of the capsule, section by section, and the surest first: of  *)
(* the answer, of the log of events and of the open contradictions.          *)
Derive(f) == [id |-> f, score |-> 0, conf |-> 50]

InSection(s, answer, signals) ==
    {e \in answer : Local(e) /\ s \in Categorize(e)}
    \cup {Derive(f) : f \in IF s = "risks" THEN signals.failing
                            ELSE IF s = "contradictions" /\ signals.disputed
                            THEN {Contradiction} ELSE {}}

Listed(answer, signals) ==
    LET surer(a, b) == a.conf > b.conf \/ (a.conf = b.conf /\ Better(a, b))
    IN  FlattenSeq([i \in DOMAIN SectionPriority |->
            LET s == SectionPriority[i]
                sorted == SetToSortSeq(InSection(s, answer, signals), surer)
            IN  [j \in DOMAIN sorted |-> [section |-> s, id |-> sorted[j].id]]])

(* The budget is spent in this order; what does not fit is skipped.          *)
Pruned(answer, signals) ==
    LET spent == FoldLeft(LAMBDA acc, e :
                            IF acc.used + Cost[e.id] > Budget THEN acc
                            ELSE [used |-> acc.used + Cost[e.id], kept |-> acc.kept \cup {e}],
                          [used |-> 0, kept |-> {}], Listed(answer, signals))
    IN  [s \in Section |-> {id \in Ids(InSection(s, answer, signals)) :
                              [section |-> s, id |-> id] \in spent.kept}]
-----------------------------------------------------------------------------
(* The preflight.                                                            *)

Warning(t, sev, id) == [type |-> t, severity |-> sev, id |-> id]

RuleSeverity(m) == IF TrustIn(m) = "verified" THEN "high" ELSE "medium"

IsToolFailure(id) ==
    id \in {FailedHere, FailedOther}
    \/ (id \in Memory /\ {"tool-failure", "tool-result"} \subseteq TagsOf(id))

(* A tool failure warns only of the tool that is to be used.                 *)
RiskWarnings(capsule, q) ==
    {Warning("risk", "high", id) : id \in {r \in capsule["risks"] : ~IsToolFailure(r)}}
    \cup {Warning("recent_failure", "medium", id) :
            id \in {r \in capsule["risks"] : IsToolFailure(r) /\ r \in q.about}}

HealthWarnings(f) ==
    {Warning("memory_health", sev, 0) : sev \in
        (IF f.degraded \/ f.health = "unhealthy" THEN {"high"} ELSE {})
        \cup IF f.health = "reembed_recommended" THEN {"medium"} ELSE {}}

Warnings(f, q, swept) ==
    HealthWarnings(f)
    \cup {Warning("must_follow", RuleSeverity(m), m) : m \in swept \cup f.capsule["must_follow"]}
    \cup RiskWarnings(f.capsule, q)
    \cup {Warning("procedure", "info", m) : m \in f.capsule["procedures"]}
    \cup {Warning("contradiction", "high", c) : c \in f.capsule["contradictions"]}
    \cup {Warning("uncertain", "medium", m) : m \in f.capsule["uncertain_or_disputed"]}

Decision(strict, warnings) ==
    LET severities == {w.severity : w \in warnings}
    IN  IF strict /\ "high" \in severities THEN "block"
        ELSE IF severities \cap {"high", "medium"} # {} THEN "caution" ELSE "go"

Decide(f, q, swept) ==
    LET warnings == Warnings(f, q, swept)
    IN  flight' = [f EXCEPT !.at = "decided", !.warnings = warnings,
                            !.decision = Decision(f.strict, warnings)]

Preflight(strict, q) ==
    /\ flight.at = "idle" /\ call.at = "idle"
    /\ flight' = [Waiting EXCEPT !.at = "capsule", !.strict = strict]
    /\ Ask(CapsuleRequest, q)

(* Any row with the tag will do, one that recall would not show as well.     *)
MustFollowTagCandidate ==
    \E m \in Memory : Kind[m] = "episodic" /\ "must-follow" \in TagsOf(m)

(* The capsule is built and, if no rule is in it, the rules are recalled;    *)
(* memoryStatus and the log of events may say anything.                      *)
Build(s) ==
    LET capsule == Pruned(call.shown, s)
        f == [flight EXCEPT !.capsule = capsule, !.degraded = (call.errors # {}),
                            !.health = s.health]
    IN  /\ flight.at = "capsule" /\ call.at = "answered"
        /\ IF capsule["must_follow"] = {} /\ MustFollowTagCandidate
           THEN Ask(SweepRequest, call.query) /\ flight' = [f EXCEPT !.at = "sweep"]
           ELSE Decide(f, call.query, {}) /\ UNCHANGED recallVars

First(entries, n) == {e \in entries : Cardinality({f \in entries : Better(f, e)}) < n}

SweptRulesCut == {m \in Ids(First(call.shown, SweepTake)) : TrustIn(m) # "untrusted"}

(* The rules of the sweep that are trusted, the first few.                   *)
SweptRules == Ids(First({e \in call.shown : TrustIn(e.id) # "untrusted"}, SweepTake))

(* A sweep that fails finds nothing; what failed in it is not told.          *)
Sweep ==
    /\ flight.at = "sweep" /\ call.at \in {"answered", "failed"}
    /\ Decide(flight, call.query, IF call.at = "failed" THEN {} ELSE SweptRules)
    /\ UNCHANGED recallVars

CapsuleFails ==
    /\ flight.at = "capsule" /\ call.at = "failed"
    /\ flight' = [flight EXCEPT !.at = "thrown"]
    /\ UNCHANGED recallVars
-----------------------------------------------------------------------------
(* A recall on its own, or a preflight.                                      *)
PreflightNext ==
    \/ \E o \in Request, q \in Query : call.at = "idle" /\ Ask(o, q) /\ UNCHANGED flight
    \/ \E strict \in BOOLEAN, q \in Query : Preflight(strict, q)
    \/ (Answering \/ Others) /\ UNCHANGED flight
    \/ \E s \in Signals : Build(s)
    \/ Sweep \/ CapsuleFails

AllInit == RecallInit /\ flight = Waiting
PreflightSpec == AllInit /\ [][PreflightNext]_allVars
-----------------------------------------------------------------------------
(* A rule that the sweep asks for.                                           *)
IsRule(m) == "must-follow" \in Tags[m] /\ Trust[m] # "untrusted"

(* A rule can be missed only among many: entries that the tag does not       *)
(* filter (of the other kinds) or that carry it too fill the answer of the   *)
(* sweep, or one of them repeats it, or more episodes are nearer than it     *)
(* reaches, or the action asks for the value of an identifier.               *)
Crowded(m) ==
    LET rivals == {n \in Memory \ {m} : Eligible(SweepRequest, n)}
    IN  \/ m \notin call.query.holds
        \/ Cardinality(rivals) >= SweepRequest.limit
        \/ \E n \in rivals : Kind[n] = Kind[m] /\ Overlap[<<n, m>>] >= 50
        \/ Cardinality(Rows(SweepRequest, "episodic")) > Reach(SweepRequest)

(* A trusted rule tagged must-follow that stands is not lost in noise: if    *)
(* nothing changed and nothing failed, some rule is warned of, however       *)
(* little this one has to do with the query and however tight the budget is  *)
(* ("a false negative would silently hide a real must-follow memory",        *)
(* preflight.ts).  A rule by another of RuleTags is in the capsule if it is  *)
(* near the query and fits, and is never swept for: it may be lost.          *)
RuleIsSeen ==
    flight.at = "decided" /\ changes = 0 /\ call.errors = {} /\ call.at # "failed" =>
        \A m \in Memory :
            IsRule(m) /\ Eligible(SweepRequest, m) /\ Certain[m] >= SweepRequest.least =>
                \/ \E w \in flight.warnings : w.type = "must_follow"
                \/ Crowded(m)
=============================================================================
