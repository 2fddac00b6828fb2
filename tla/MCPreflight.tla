---------------------------- MODULE MCPreflight -----------------------------
(* Five episodes and a semantic memory: 1 is a verified rule, far from what   *)
(* is asked; 2 a tool failure that claims to be a rule, in the words of the   *)
(* risk 4, which is a rule by a tag that the sweep does not ask for; 3 a rule *)
(* from before trust was recorded; 5 is private and another agent's, and      *)
(* repeats 3.                                                                 *)
EXTENDS Preflight

mcMemory == 1..6
mcKind == [m \in mcMemory |-> IF m = 6 THEN "semantic" ELSE "episodic"]
mcStart == {s \in [mcMemory -> {"live", "superseded", "forgotten", "active",
                                "context_dependent", "dormant"}] :
              /\ \A m \in 1..5 : s[m] \in {"live", "superseded", "forgotten"}
              /\ s[4] # "forgotten" /\ s[5] # "forgotten" /\ s[2] # "superseded" /\ s[3] # "superseded"
              /\ s[6] \notin {"live", "superseded"}}
mcAgent == [m \in mcMemory |-> IF m = 5 THEN "other" ELSE "me"]
mcTags == << {"must-follow", "told-by-user"}, {"must-follow", "tool-failure", "tool-result"},
             {"must-follow"}, {"risk", "always"}, {}, {} >>
mcTrust == << "verified", "untrusted", "legacy", "legacy", "untrusted", "untrusted" >>
mcCertain == << 70, 60, 90, 80, 40, 50 >>
mcCoarse == << 90, 85, 95, 85, 40, 100 >>
mcReliable == << 90, 85, 95, 85, 40, 85 >>
mcOverlap == [p \in mcMemory \X mcMemory |->
                IF {p[1], p[2]} = {2, 4} THEN 96
                ELSE IF {p[1], p[2]} = {3, 5} THEN 60 ELSE 0]

mcQuery == { [near |-> << 10, 70, 60, 90, 85, 80 >>, words |-> << 0, 0, 0, 1, 0, 2 >>,
              holds |-> mcMemory, about |-> {2, 7}],
             [near |-> << 50, 90, 80, 60, 95, 70 >>, words |-> << 2, 1, 0, 0, 3, 0 >>,
              holds |-> {1, 2, 3, 5}, about |-> {}] }

Plain == [mode |-> "hybrid", types |-> Types, limit |-> 2, mine |-> TRUE, private |-> FALSE,
          dormant |-> FALSE, tags |-> {}, since |-> 0, least |-> 0]

mcRequest ==
    {[Plain EXCEPT !.mode = mode, !.mine = mine, !.private = private, !.dormant = private,
                   !.tags = tags] :
        mode \in {"hybrid", "vector", "keyword"}, mine \in BOOLEAN, private \in BOOLEAN,
        tags \in {{}, {"must-follow"}}}
    \cup {[Plain EXCEPT !.since = 2], [Plain EXCEPT !.least = 55, !.types = {"episodic"}]}

mcCapsuleRequest == [Plain EXCEPT !.limit = 1]
mcSweepRequest == [Plain EXCEPT !.tags = {"must-follow"}, !.least = 1]
mcFault == {{}, {"episodic"}, {"fts"}}
mcSignals == {[failing |-> {}, disputed |-> FALSE, health |-> "healthy"],
              [failing |-> {7, 8}, disputed |-> TRUE, health |-> "reembed_recommended"],
              [failing |-> {8}, disputed |-> FALSE, health |-> "unhealthy"]}
mcCost == [i \in 1..9 |-> IF i = 7 THEN 3 ELSE 2]
=============================================================================
