----------------------------- MODULE Injection -----------------------------
(***************************************************************************)
(* Session-delta injection of autopilot.ts: the memories that the context  *)
(* hooks of one session have given it, the tracker row that remembers      *)
(* them, and the context window of the host that really holds them.        *)
(*                                                                         *)
(* The host runs the context hooks of a session one after the other and    *)
(* kills a hook that takes too long; other processes encode, forget and    *)
(* judge memories and prune stale trackers at any time.  A memory is its   *)
(* rank for the queries of the session.  Subagents share neither window    *)
(* nor tracker and are left out.                                           *)
(***************************************************************************)
EXTENDS Integers, FiniteSets

CONSTANTS Memories,     \* number of memories
          Base,         \* baseRecallLimit of the capsule
          RecallCap,    \* MAX_CAPSULE_RECALL_LIMIT
          Budget,       \* entries that fit the character budget of a packet
          Limit,        \* MAX_TRACKED_INJECTED_IDS
          Ttl,          \* INJECTED_IDS_TTL_MS
          MaxEvents     \* bound of everything the host and others do

ASSUME InjectionAssumption ==
    /\ Memories \in Nat /\ Base \in Nat /\ RecallCap \in Nat
    /\ Budget \in Nat /\ Limit \in Nat /\ Ttl \in Nat /\ MaxEvents \in Nat
    /\ Base <= RecallCap

Memory == 1..Memories

(* The states of a memory that recall returns.                             *)
Standing == {"active", "context_dependent"}

(* injectedEntryKey                                                        *)
Key == Memory \X Standing

VARIABLES now,        \* wall clock
          standing,   \* of each memory; "none" if recall does not return it
          foreign,    \* memories of other projects
          tracker,    \* the row of the session: keys and updatedAt
          hook,       \* the context hook that runs
          window,     \* keys in the context window of the host
          due,        \* hooks that a compaction owes
          stale,      \* history: a window the host emptied and no hook answered
          lost,       \* history: keys saved by a hook killed before it wrote
          forgotten,  \* history: keys the tracker gave up
          events      \* history: events so far

vars == <<now, standing, foreign, tracker, hook, window, due, stale, lost, forgotten, events>>

Event == {"none", "UserPromptSubmit", "SessionStart"}

Hook == [event : Event, stage : {"start", "recalling", "writing"}, at : Nat,
         seen : SUBSET Key, packet : SUBSET Key]

NoHook == [event |-> "none", stage |-> "start", at |-> 0, seen |-> {}, packet |-> {}]

Init ==
    /\ now = 0
    /\ standing \in [Memory -> {"none", "active"}]
    /\ foreign \in SUBSET Memory
    /\ tracker = [keys |-> {}, at |-> 0]
    /\ hook = NoHook
    /\ window = {} /\ due = {} /\ stale = FALSE
    /\ lost = {} /\ forgotten = {} /\ events = 0

-----------------------------------------------------------------------------
(* buildCapsule: recall returns the best memories up to a limit that is    *)
(* widened by the excluded ones, these are skipped, and the first entries  *)
(* that fit the budget make the capsule.                                   *)

Live == {m \in Memory : standing[m] # "none"}

(* The n best of a set of memories.                                        *)
Best(S, n) == {m \in S : Cardinality({k \in S : k < m}) < n}

RecallLimit(excluded) ==
    LET widened == Base + Cardinality(excluded)
    IN  IF excluded = {} THEN Base ELSE IF widened < RecallCap THEN widened ELSE RecallCap

CapsuleUnwidened(excluded) ==
    {<<m, standing[m]>> : m \in Best(Best(Live, Base) \ excluded, Budget)}

Capsule(excluded) ==
    {<<m, standing[m]>> : m \in Best(Best(Live, RecallLimit(excluded)) \ excluded, Budget)}

(* rawMemoryId                                                             *)
RawIds(keys) == {k[1] : k \in keys}

(* scopeCapsuleToProject drops the memories of other projects from what    *)
(* fitted the budget.                                                      *)
Scoped(entries) == {k \in entries : k[1] \notin foreign}

-----------------------------------------------------------------------------
Expired(at) == at - tracker.at > Ttl

(* clearInjectedIds                                                        *)
Clear ==
    /\ tracker' = [tracker EXCEPT !.keys = {}]
    /\ forgotten' = forgotten \cup tracker.keys
    /\ stale' = FALSE

(* saveInjectedIds keeps the newest keys; the order of the older ones is   *)
(* left open.                                                              *)
Save(seen, new, kept) ==
    /\ kept \subseteq seen \cup new
    /\ Cardinality(kept) <= Limit
    /\ kept # seen \cup new => Cardinality(kept) = Limit
    /\ new \subseteq kept \/ kept \subseteq new
    /\ tracker' = [keys |-> kept, at |-> hook.at]
    /\ forgotten' = forgotten \cup ((seen \cup new) \ kept)

Begin(event) ==
    /\ hook.event = "none"
    /\ hook' = [NoHook EXCEPT !.event = event]
    /\ UNCHANGED <<now, standing, foreign, tracker, window, due, stale, lost, forgotten, events>>

BeginPrompt == due = {} /\ Begin("UserPromptSubmit")

(* loadInjectedIds, after explicit memories of the prompt were captured:   *)
(* the time of the hook is taken here.                                     *)
Load ==
    /\ hook.event = "UserPromptSubmit" /\ hook.stage = "start"
    /\ LET expired == Expired(now)
       IN  /\ hook' = [hook EXCEPT !.stage = "recalling", !.at = now,
                                   !.seen = IF expired THEN {} ELSE tracker.keys]
           /\ forgotten' = IF expired THEN forgotten \cup tracker.keys ELSE forgotten
    /\ UNCHANGED <<now, standing, foreign, tracker, window, due, stale, lost, events>>

(* The capsule of a prompt leaves out what is tracked, by id; then         *)
(* filterInjectedEntries leaves out tracked keys.                          *)
InjectNewOnly ==
    /\ hook.event = "UserPromptSubmit" /\ hook.stage = "recalling"
    /\ LET new == Scoped(Capsule(RawIds(hook.seen))) \ hook.seen
       IN  /\ hook' = [hook EXCEPT !.stage = "writing", !.packet = new]
           /\ IF new = {} THEN UNCHANGED <<tracker, forgotten>>
              ELSE \E kept \in SUBSET new : Save({}, new, kept)
    /\ UNCHANGED <<now, standing, foreign, window, due, stale, lost, events>>

Inject ==
    /\ hook.event = "UserPromptSubmit" /\ hook.stage = "recalling"
    /\ LET new == Scoped(Capsule(RawIds(hook.seen))) \ hook.seen
       IN  /\ hook' = [hook EXCEPT !.stage = "writing", !.packet = new]
           /\ IF new = {} THEN UNCHANGED <<tracker, forgotten>>
              ELSE \E kept \in SUBSET (hook.seen \cup new) : Save(hook.seen, new, kept)
    /\ UNCHANGED <<now, standing, foreign, window, due, stale, lost, events>>

StartSession == "SessionStart" \in due /\ Begin("SessionStart")

(* SessionStart clears the tracker, and gives and tracks a full packet.    *)
ClearStart ==
    /\ hook.event = "SessionStart" /\ hook.stage = "start"
    /\ Clear
    /\ hook' = [hook EXCEPT !.stage = "recalling", !.at = now]
    /\ due' = due \ {"SessionStart"}
    /\ UNCHANGED <<now, standing, foreign, window, lost, events>>

Seed ==
    /\ hook.event = "SessionStart" /\ hook.stage = "recalling"
    /\ LET all == Scoped(Capsule({}))
       IN  /\ hook' = [hook EXCEPT !.stage = "writing", !.packet = all]
           /\ IF all = {} THEN UNCHANGED <<tracker, forgotten>>
              ELSE \E kept \in SUBSET all : Save({}, all, kept)
    /\ UNCHANGED <<now, standing, foreign, window, due, stale, lost, events>>

(* The packet is written and the host puts it into the context.            *)
Write ==
    /\ hook.stage = "writing"
    /\ window' = window \cup hook.packet
    /\ hook' = NoHook
    /\ UNCHANGED <<now, standing, foreign, tracker, due, stale, lost, forgotten, events>>

PostCompactKeeps ==
    /\ hook.event = "none" /\ "PostCompact" \in due
    /\ due' = due \ {"PostCompact"}
    /\ stale' = FALSE
    /\ UNCHANGED <<now, standing, foreign, tracker, hook, window, lost, forgotten, events>>

(* maintenanceHook: PostCompact clears the tracker.                        *)
PostCompact ==
    /\ hook.event = "none" /\ "PostCompact" \in due
    /\ due' = due \ {"PostCompact"}
    /\ Clear
    /\ UNCHANGED <<now, standing, foreign, hook, window, lost, events>>

(* pruneStaleInjectedIds of a maintenance hook of any session.             *)
PruneStale ==
    /\ tracker.keys # {} /\ Expired(now)
    /\ tracker' = [tracker EXCEPT !.keys = {}]
    /\ forgotten' = forgotten \cup tracker.keys
    /\ UNCHANGED <<now, standing, foreign, hook, window, due, stale, lost, events>>

-----------------------------------------------------------------------------
(* What the host and other processes do.                                   *)

Happens == events < MaxEvents /\ events' = events + 1

Tick ==
    /\ Happens
    /\ now' = now + 1
    /\ UNCHANGED <<standing, foreign, tracker, hook, window, due, stale, lost, forgotten>>

(* A memory is encoded, forgotten, or judged by a verdict or resolution.   *)
ChangeStanding(m, s) ==
    /\ Happens
    /\ s # standing[m]
    /\ standing' = [standing EXCEPT ![m] = s]
    /\ UNCHANGED <<now, foreign, tracker, hook, window, due, stale, lost, forgotten>>

(* Packets leave the window, and the host owes a hook for it.              *)
Compact ==
    /\ Happens
    /\ hook.event = "none" /\ due = {}
    /\ window' = {} /\ forgotten' = {}
    /\ due' = {"PostCompact", "SessionStart"}
    /\ stale' = TRUE
    /\ UNCHANGED <<now, standing, foreign, tracker, hook, lost>>

(* A session is resumed, with its window or with a fresh one.              *)
Resume(fresh) ==
    /\ Happens
    /\ hook.event = "none" /\ due = {}
    /\ due' = {"SessionStart"}
    /\ stale' = (stale \/ fresh)
    /\ window' = IF fresh THEN {} ELSE window
    /\ forgotten' = IF fresh THEN {} ELSE forgotten
    /\ UNCHANGED <<now, standing, foreign, tracker, hook, lost>>

(* A hook that the host kills after it saved has lost its packet.          *)
Kill ==
    /\ Happens
    /\ hook.event # "none"
    /\ lost' = lost \cup hook.packet
    /\ due' = IF hook.event = "SessionStart" THEN due \ {"SessionStart"} ELSE due
    /\ hook' = NoHook
    /\ UNCHANGED <<now, standing, foreign, tracker, window, stale, forgotten>>

KillPostCompact ==
    /\ Happens
    /\ "PostCompact" \in due
    /\ due' = due \ {"PostCompact"}
    /\ UNCHANGED <<now, standing, foreign, tracker, hook, window, stale, lost, forgotten>>

-----------------------------------------------------------------------------
Run ==
    \/ BeginPrompt \/ Load \/ Inject
    \/ StartSession \/ ClearStart \/ Seed
    \/ Write \/ PostCompact

Next ==
    \/ Run
    \/ PruneStale \/ Tick \/ Compact \/ Kill \/ KillPostCompact
    \/ \E fresh \in BOOLEAN : Resume(fresh)
    \/ \E m \in Memory, s \in Standing \cup {"none"} : ChangeStanding(m, s)

Spec == Init /\ [][Next]_vars

(* The user keeps prompting, and a hook that started runs on.              *)
FairSpec == Spec /\ WF_vars(Run)

-----------------------------------------------------------------------------
TypeOK ==
    /\ now \in Nat
    /\ standing \in [Memory -> Standing \cup {"none"}]
    /\ foreign \in SUBSET Memory
    /\ tracker \in [keys : SUBSET Key, at : Nat]
    /\ hook \in Hook
    /\ window \in SUBSET Key /\ lost \in SUBSET Key /\ forgotten \in SUBSET Key
    /\ due \in SUBSET {"PostCompact", "SessionStart"}
    /\ stale \in BOOLEAN
    /\ events \in Nat

(* A prompt hook gives its packet.                                         *)
Answers == hook.event = "UserPromptSubmit" /\ hook.stage = "recalling" /\ hook'.stage = "writing"

(* What a packet without a tracker would hold, and the packet lacks.       *)
LeftOut == Scoped(Capsule({})) \ hook'.packet

(* A memory that a prompt leaves out was given to the session ("inject     *)
(* only what's new", autopilot.ts), in its present standing or an earlier  *)
(* one, unless a hook was killed between saving and writing it, or every   *)
(* hook that the host owed for an emptied window was: after a compaction,  *)
(* either is enough.                                                       *)
NothingWithheld ==
    [][Answers => stale \/ RawIds(LeftOut) \subseteq RawIds(window \cup lost)]_vars

(* The same with the standing: "a memory that gets disputed or             *)
(* reclassified after injection reinjects with its new standing"           *)
(* (injectedEntryKey, autopilot.ts).  The code leaves a memory out by its  *)
(* raw id, so the key with the new state never reaches the filter.         *)
NewStandingIsGiven ==
    [][Answers => stale \/ LeftOut \subseteq window \cup lost]_vars

(* A prompt is given again only what the tracker gave up since, because    *)
(* the session started, compacted, expired or overflowed it ("each memory  *)
(* once per session", README.md).                                          *)
OncePerWindow ==
    hook.event = "UserPromptSubmit" /\ hook.stage = "writing" =>
        hook.packet \cap window \subseteq forgotten

(* Every memory of the project that stays comes into the window, however   *)
(* many better ranked ones of the project were given before ("instead of   *)
(* going quiet", CHANGELOG.md), as long as the recall limit can be widened *)
(* over them.  Better ranked memories of other projects are never given,   *)
(* so never excluded, and may keep it out.                                 *)
EventuallyInjected ==
    \A m \in Memory :
        (\A f \in foreign : f > m) /\ <>[](m \in Live)
        => <>[](m \in RawIds(window \cup lost) \/ stale)

=============================================================================
