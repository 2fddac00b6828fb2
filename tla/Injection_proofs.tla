-------------------------- MODULE Injection_proofs --------------------------
(***************************************************************************)
(* Proofs about Injection, for any memories, limits, budget and TTL.       *)
(*                                                                         *)
(* The tracker lies between what the window has and what was lost: a key   *)
(* in it is in the window, about to be written or lost, unless the host    *)
(* emptied the window and no hook answered; and a key of the window that   *)
(* is not in it was given up.                                              *)
(***************************************************************************)
EXTENDS Injection, FiniteSetTheorems, TLAPS

Prompting(stage) == hook.event = "UserPromptSubmit" /\ hook.stage = stage
Starting(stage) == hook.event = "SessionStart" /\ hook.stage = stage

(* An idle hook has written, and only a writing hook has a packet.         *)
HookInv ==
    /\ hook.event = "none" => hook = NoHook
    /\ hook.stage # "writing" => hook.packet = {}
    /\ Starting("recalling") => tracker.keys = {}

(* Nothing is tracked, or read as tracked, that the window lacks.          *)
WithheldInv ==
    stale \/ /\ tracker.keys \subseteq window \cup lost \cup hook.packet
             /\ Prompting("recalling") => hook.seen \subseteq window \cup lost

(* Nothing is in the window that is neither tracked nor given up.          *)
OnceInv ==
    /\ window \subseteq tracker.keys \cup forgotten
    /\ Prompting("recalling") => window \subseteq hook.seen \cup forgotten
    /\ hook.packet \subseteq tracker.keys \cup forgotten
    /\ OncePerWindow

IInv == TypeOK /\ HookInv /\ WithheldInv /\ OnceInv

-----------------------------------------------------------------------------
(* A scoped capsule consists of keys.                                      *)
LEMMA CapsuleType ==
    ASSUME TypeOK, NEW excluded
    PROVE  Scoped(Capsule(excluded)) \subseteq Key
<1>1. Best(Best(Live, RecallLimit(excluded)) \ excluded, Budget) \subseteq Live
  BY DEF Best
<1>2. ASSUME NEW m \in Live PROVE <<m, standing[m]>> \in Key
  BY DEF Live, TypeOK, Key
<1> QED
  BY <1>1, <1>2 DEF Capsule, Scoped

(* What saveInjectedIds writes.                                            *)
LEMMA Saved ==
    ASSUME TypeOK, NEW seen \in SUBSET Key, NEW new \in SUBSET Key, NEW kept,
           Save(seen, new, kept)
    PROVE  /\ tracker' \in [keys : SUBSET Key, at : Nat]
           /\ tracker'.keys \subseteq seen \cup new
           /\ seen \cup new \subseteq tracker'.keys \cup forgotten'
           /\ forgotten' \in SUBSET Key /\ forgotten \subseteq forgotten'
<1>1. kept \in SUBSET Key /\ hook.at \in Nat /\ forgotten \in SUBSET Key
  BY DEF Save, TypeOK, Hook
<1>2. tracker'.keys = kept /\ forgotten' = forgotten \cup ((seen \cup new) \ kept)
  BY DEF Save
<1> QED
  BY <1>1, <1>2 DEF Save

(* What clearInjectedIds does.                                             *)
LEMMA Cleared ==
    ASSUME TypeOK, Clear
    PROVE  /\ tracker' \in [keys : SUBSET Key, at : Nat]
           /\ tracker'.keys = {}
           /\ tracker.keys \subseteq forgotten'
           /\ forgotten' \in SUBSET Key /\ forgotten \subseteq forgotten'
           /\ stale' = FALSE
BY DEF Clear, TypeOK

(* Every variable keeps its type.                                          *)
LEMMA TypeKept ==
    ASSUME TypeOK, [Next]_vars
    PROVE  TypeOK'
<1> USE InjectionAssumption DEF TypeOK, Happens
<1>1. ASSUME NEW e \in Event, Begin(e) PROVE TypeOK'
  <2>1. [NoHook EXCEPT !.event = e] \in Hook
    BY DEF NoHook, Hook
  <2> QED
    BY <1>1, <2>1 DEF Begin
<1>2. CASE Load
  BY <1>2 DEF Load, Hook
<1>3. CASE Inject
  <2> DEFINE new == Scoped(Capsule(RawIds(hook.seen))) \ hook.seen
  <2>1. new \in SUBSET Key /\ hook.seen \in SUBSET Key
    BY CapsuleType DEF Hook
  <2>2. hook' \in Hook /\ (UNCHANGED <<tracker, forgotten>> \/
                           \E kept : Save(hook.seen, new, kept))
    BY <1>3, <2>1 DEF Inject, Hook
  <2> HIDE DEF new
  <2>3. tracker' \in [keys : SUBSET Key, at : Nat] /\ forgotten' \in SUBSET Key
    BY <2>1, <2>2, Saved
  <2> QED
    BY <1>3, <2>2, <2>3 DEF Inject
<1>4. CASE ClearStart
  BY <1>4, Cleared DEF ClearStart, Hook
<1>5. CASE Seed
  <2> DEFINE all == Scoped(Capsule({}))
  <2>1. all \in SUBSET Key /\ {} \in SUBSET Key
    BY CapsuleType
  <2>2. hook' \in Hook /\ (UNCHANGED <<tracker, forgotten>> \/ \E kept : Save({}, all, kept))
    BY <1>5, <2>1 DEF Seed, Hook
  <2> HIDE DEF all
  <2>3. tracker' \in [keys : SUBSET Key, at : Nat] /\ forgotten' \in SUBSET Key
    BY <2>1, <2>2, Saved
  <2> QED
    BY <1>5, <2>2, <2>3 DEF Seed
<1>6. CASE Write \/ Kill
  <2>1. NoHook \in Hook /\ hook.packet \in SUBSET Key
    BY DEF NoHook, Hook, Event
  <2>2. hook' = NoHook /\ due' \in SUBSET {"PostCompact", "SessionStart"}
    BY <1>6 DEF Write, Kill
  <2>3. window' \in SUBSET Key /\ lost' \in SUBSET Key /\ events' \in Nat
    BY <1>6, <2>1 DEF Write, Kill
  <2>4. UNCHANGED <<now, standing, foreign, tracker, stale, forgotten>>
    BY <1>6 DEF Write, Kill
  <2> QED
    BY <2>1, <2>2, <2>3, <2>4
<1>7. CASE PostCompact
  BY <1>7, Cleared DEF PostCompact
<1>8. CASE PruneStale
  BY <1>8 DEF PruneStale
<1>9. CASE Tick
  BY <1>9 DEF Tick
<1>10. ASSUME NEW fresh \in BOOLEAN, Resume(fresh) PROVE TypeOK'
  <2>1. /\ due' = {"SessionStart"} /\ stale' \in BOOLEAN
        /\ window' \in SUBSET Key /\ forgotten' \in SUBSET Key
    BY <1>10 DEF Resume
  <2> QED
    BY <1>10, <2>1 DEF Resume
<1>11. ASSUME NEW m \in Memory, NEW s \in Standing \cup {"none"}, ChangeStanding(m, s)
       PROVE  TypeOK'
  BY <1>11 DEF ChangeStanding
<1>12. CASE Compact
  <2>1. due' = {"PostCompact", "SessionStart"} /\ window' = {} /\ forgotten' = {}
    BY <1>12 DEF Compact
  <2> QED
    BY <1>12, <2>1 DEF Compact
<1>13. CASE KillPostCompact
  BY <1>13 DEF KillPostCompact
<1>14. CASE UNCHANGED vars
  BY <1>14 DEF vars
<1> QED
  BY <1>1, <1>2, <1>3, <1>4, <1>5, <1>6, <1>7, <1>8, <1>9, <1>10, <1>11, <1>12, <1>13, <1>14
     DEF Next, Run, BeginPrompt, StartSession, Event

(* The session keeps its type.                                             *)
THEOREM TypeCorrect == Spec => []TypeOK
<1>1. Init => TypeOK
  <2> SUFFICES ASSUME Init PROVE TypeOK
    OBVIOUS
  <2>1. hook \in Hook
    BY DEF Init, NoHook, Hook, Event
  <2>2. standing \in [Memory -> Standing \cup {"none"}]
    BY DEF Init, Standing
  <2> QED
    BY <2>1, <2>2 DEF Init, TypeOK
<1>2. TypeOK /\ [Next]_vars => TypeOK'
  BY TypeKept
<1> QED
  BY <1>1, <1>2, PTL DEF Spec

-----------------------------------------------------------------------------
(* A step of a hook, of the host or of another process keeps what the      *)
(* tracker and the window know of each other.                              *)
LEMMA TrackingKept ==
    ASSUME TypeOK, HookInv, WithheldInv, OnceInv, [Next]_vars
    PROVE  HookInv' /\ WithheldInv' /\ OnceInv'
<1> USE DEF Prompting, Starting
<1>1. hook \in Hook /\ hook.seen \in SUBSET Key
  BY DEF TypeOK, Hook
<1>2. NoHook.event = "none" /\ NoHook.stage = "start" /\ NoHook.packet = {}
  BY DEF NoHook
<1>3. ASSUME NEW e \in Event \ {"none"}, Begin(e) PROVE HookInv' /\ WithheldInv' /\ OnceInv'
  <2>1. hook'.event = e /\ hook'.stage = "start" /\ hook'.packet = {} /\ hook.packet = {}
    BY <1>2, <1>3 DEF Begin, NoHook, HookInv
  <2> QED
    BY <1>3, <2>1 DEF Begin, HookInv, WithheldInv, OnceInv, OncePerWindow
<1>4. CASE Load
  <2>1. /\ hook'.event = "UserPromptSubmit" /\ hook'.stage = "recalling"
        /\ hook'.packet = {} /\ hook.packet = {}
        /\ \/ hook'.seen = {} /\ forgotten' = forgotten \cup tracker.keys
           \/ hook'.seen = tracker.keys /\ forgotten' = forgotten
    BY <1>1, <1>4 DEF Load, Hook, HookInv
  <2> QED
    BY <1>4, <2>1 DEF Load, HookInv, WithheldInv, OnceInv, OncePerWindow
<1>5. CASE Inject
  <2> DEFINE new == Scoped(Capsule(RawIds(hook.seen))) \ hook.seen
  <2>1. new \in SUBSET Key /\ new \cap hook.seen = {}
    BY CapsuleType
  <2>2. /\ hook.event = "UserPromptSubmit" /\ hook.stage = "recalling" /\ hook.packet = {}
        /\ hook'.event = "UserPromptSubmit" /\ hook'.stage = "writing"
        /\ hook'.packet = new
        /\ UNCHANGED <<window, stale, lost>>
        /\ \/ new = {} /\ UNCHANGED <<tracker, forgotten>>
           \/ \E kept : Save(hook.seen, new, kept)
    BY <1>1, <1>5 DEF Inject, Hook, HookInv
  <2> HIDE DEF new
  <2>3. CASE new = {} /\ UNCHANGED <<tracker, forgotten>>
    BY <2>2, <2>3 DEF HookInv, WithheldInv, OnceInv, OncePerWindow
  <2>4. ASSUME NEW kept, Save(hook.seen, new, kept)
        PROVE  HookInv' /\ WithheldInv' /\ OnceInv'
    <3>1. /\ tracker'.keys \subseteq hook.seen \cup new
          /\ hook.seen \cup new \subseteq tracker'.keys \cup forgotten'
          /\ forgotten \subseteq forgotten'
      BY <1>1, <2>1, <2>4, Saved
    <3>2. HookInv'
      BY <2>2 DEF HookInv
    <3>3. WithheldInv'
      BY <2>2, <3>1 DEF WithheldInv
    <3>4. OnceInv'
      BY <2>1, <2>2, <3>1 DEF OnceInv, OncePerWindow
    <3> QED
      BY <3>2, <3>3, <3>4
  <2> QED
    BY <2>2, <2>3, <2>4
<1>6. CASE ClearStart
  <2>1. /\ hook.stage = "start" /\ hook.packet = {} /\ hook'.event = "SessionStart"
        /\ hook'.stage = "recalling" /\ hook'.packet = {} /\ window' = window
    BY <1>1, <1>6 DEF ClearStart, Hook, HookInv
  <2>2. tracker'.keys = {} /\ tracker.keys \subseteq forgotten' /\ forgotten \subseteq forgotten'
    BY <1>6, Cleared DEF ClearStart
  <2> QED
    BY <2>1, <2>2 DEF HookInv, WithheldInv, OnceInv, OncePerWindow
<1>7. CASE Seed
  <2> DEFINE all == Scoped(Capsule({}))
  <2>1. all \in SUBSET Key /\ {} \in SUBSET Key
    BY CapsuleType
  <2>2. /\ hook.event = "SessionStart" /\ hook.stage = "recalling" /\ hook.packet = {}
        /\ tracker.keys = {}
        /\ hook'.event = "SessionStart" /\ hook'.stage = "writing" /\ hook'.packet = all
        /\ UNCHANGED <<window, stale, lost>>
        /\ \/ all = {} /\ UNCHANGED <<tracker, forgotten>>
           \/ \E kept : Save({}, all, kept)
    BY <1>1, <1>7 DEF Seed, Hook, HookInv
  <2> HIDE DEF all
  <2>3. CASE all = {} /\ UNCHANGED <<tracker, forgotten>>
    BY <2>2, <2>3 DEF HookInv, WithheldInv, OnceInv, OncePerWindow
  <2>4. ASSUME NEW kept, Save({}, all, kept) PROVE HookInv' /\ WithheldInv' /\ OnceInv'
    <3>1. /\ tracker'.keys \subseteq all /\ all \subseteq tracker'.keys \cup forgotten'
          /\ forgotten \subseteq forgotten'
      BY <2>1, <2>4, Saved
    <3> QED
      BY <2>2, <3>1 DEF HookInv, WithheldInv, OnceInv, OncePerWindow
  <2> QED
    BY <2>2, <2>3, <2>4
<1>8. CASE Write
  BY <1>2, <1>8 DEF Write, HookInv, WithheldInv, OnceInv, OncePerWindow
<1>9. CASE Kill
  BY <1>2, <1>9 DEF Kill, HookInv, WithheldInv, OnceInv, OncePerWindow
<1>10. CASE PostCompact
  <2>1. hook' = hook /\ hook.event = "none" /\ hook = NoHook /\ window' = window
    BY <1>10 DEF PostCompact, HookInv
  <2>2. tracker'.keys = {} /\ tracker.keys \subseteq forgotten' /\ forgotten \subseteq forgotten'
    BY <1>10, Cleared DEF PostCompact
  <2> QED
    BY <1>2, <2>1, <2>2 DEF HookInv, WithheldInv, OnceInv, OncePerWindow
<1>11. CASE PruneStale
  <2>1. tracker'.keys = {} /\ forgotten' = forgotten \cup tracker.keys
    BY <1>11 DEF PruneStale, TypeOK
  <2> QED
    BY <1>11, <2>1 DEF PruneStale, HookInv, WithheldInv, OnceInv, OncePerWindow
<1>12. CASE Compact \/ \E fresh \in BOOLEAN : Resume(fresh)
  BY <1>2, <1>12 DEF Compact, Resume, HookInv, WithheldInv, OnceInv, OncePerWindow
<1>13. CASE UNCHANGED <<tracker, hook, window, stale, lost, forgotten>>
  BY <1>13 DEF HookInv, WithheldInv, OnceInv, OncePerWindow
<1>14. ASSUME Tick \/ KillPostCompact \/ UNCHANGED vars \/
              \E m \in Memory, s \in Standing \cup {"none"} : ChangeStanding(m, s)
       PROVE  UNCHANGED <<tracker, hook, window, stale, lost, forgotten>>
  BY <1>14 DEF Tick, KillPostCompact, ChangeStanding, vars
<1> QED
  BY <1>3, <1>4, <1>5, <1>6, <1>7, <1>8, <1>9, <1>10, <1>11, <1>12, <1>13, <1>14
     DEF Next, Run, BeginPrompt, StartSession, Event

(* The inductive invariant.                                                *)
THEOREM Invariance == Spec => []IInv
<1>1. Init => HookInv /\ WithheldInv /\ OnceInv
  BY DEF Init, NoHook, HookInv, WithheldInv, OnceInv, OncePerWindow, Prompting, Starting
<1>2. TypeOK /\ TypeOK' /\ IInv /\ [Next]_vars => IInv'
  BY TrackingKept DEF IInv
<1>3. TypeOK /\ HookInv /\ WithheldInv /\ OnceInv <=> IInv
  BY DEF IInv
<1> QED
  BY <1>1, <1>2, <1>3, TypeCorrect, PTL DEF Spec

-----------------------------------------------------------------------------
(* Excluding memories makes room: the limit is widened and the rank of the *)
(* others improves, so a memory of the full packet that is not excluded is *)
(* in the packet of the rest.                                              *)
LEMMA ExclusionMakesRoom ==
    ASSUME NEW excluded \in SUBSET Memory,
           NEW m \in Best(Best(Live, Base), Budget), m \notin excluded
    PROVE  m \in Best(Best(Live, RecallLimit(excluded)) \ excluded, Budget)
<1> DEFINE n == RecallLimit(excluded)
           better == {k \in Live : k < m}
           ahead == {k \in Best(Live, n) \ excluded : k < m}
<1>1. IsFiniteSet(Memory) /\ Memory \subseteq Nat
  BY FS_Interval, InjectionAssumption DEF Memory
<1>2. Live \subseteq Memory /\ m \in Live /\ m \in Nat
  BY <1>1 DEF Live, Best
<1>3. Cardinality(excluded) \in Nat
  BY <1>1, FS_Subset, FS_CardinalityType
<1>4. n \in Nat /\ Base <= n
  BY <1>3, InjectionAssumption DEF RecallLimit
<1>5. IsFiniteSet(better) /\ Cardinality(better) \in Nat
  <2>1. better \in SUBSET Memory
    BY <1>2
  <2> QED
    BY <1>1, <2>1, FS_Subset, FS_CardinalityType
<1>6. Cardinality(better) < Base
  BY DEF Best
<1>7. m \in Best(Live, n)
  <2>1. Cardinality(better) < n
    BY <1>4, <1>5, <1>6, InjectionAssumption
  <2> QED
    BY <1>2, <2>1 DEF Best
<1>8. ahead \subseteq {k \in Best(Live, Base) : k < m}
  <2> SUFFICES ASSUME NEW k \in ahead PROVE k \in Best(Live, Base)
    OBVIOUS
  <2>1. k \in Live /\ k < m /\ k \in Nat
    BY <1>1, <1>2 DEF Best
  <2> DEFINE first == {j \in Live : j < k}
  <2>2. first \in SUBSET better
    <3> SUFFICES ASSUME NEW j \in first PROVE j \in Live /\ j < m
      OBVIOUS
    <3>1. j \in Live /\ j < k /\ j \in Nat
      BY <1>1, <1>2
    <3> QED
      BY <1>2, <2>1, <3>1
  <2>3. Cardinality(first) \in Nat /\ Cardinality(first) <= Cardinality(better)
    BY <1>5, <2>2, FS_Subset, FS_CardinalityType
  <2>4. Cardinality(first) < Base
    BY <1>5, <1>6, <2>3, InjectionAssumption
  <2> QED
    BY <2>1, <2>4 DEF Best
<1>9. Cardinality(ahead) < Budget
  <2> DEFINE front == {k \in Best(Live, Base) : k < m}
  <2>1. front \in SUBSET Memory
    BY <1>2 DEF Best
  <2>2. IsFiniteSet(front) /\ Cardinality(front) \in Nat
    BY <1>1, <2>1, FS_Subset, FS_CardinalityType
  <2>3. Cardinality(ahead) \in Nat /\ Cardinality(ahead) <= Cardinality(front)
    <3>1. ahead \in SUBSET front
      BY <1>8
    <3> HIDE DEF ahead, front
    <3> QED
      BY <2>2, <3>1, FS_Subset, FS_CardinalityType
  <2>4. Cardinality(front) < Budget
    BY DEF Best
  <2> HIDE DEF ahead, front
  <2> QED
    BY <2>2, <2>3, <2>4, InjectionAssumption
<1> QED
  BY <1>7, <1>9 DEF Best

(* A packet lacks of the full one only memories that the hook excluded.    *)
LEMMA LeftOutIsTracked ==
    ASSUME TypeOK, [Next]_vars, Answers
    PROVE  RawIds(LeftOut) \subseteq RawIds(hook.seen)
<1> DEFINE excluded == RawIds(hook.seen)
           full == Best(Best(Live, Base), Budget)
           rest == Best(Best(Live, RecallLimit(excluded)) \ excluded, Budget)
<1>1. hook.seen \in SUBSET Key /\ excluded \in SUBSET Memory
  BY DEF TypeOK, Hook, Key, RawIds
<1>2. Inject
  BY DEF Answers, Next, Run, BeginPrompt, StartSession, Begin, Load, Inject, ClearStart, Seed, Write,
         PostCompact, PruneStale, Tick, Compact, Kill, KillPostCompact, Resume, ChangeStanding,
         NoHook, vars
<1>3. hook'.packet = Scoped(Capsule(excluded)) \ hook.seen
  BY <1>1, <1>2 DEF Inject, Hook, TypeOK
<1>4. Capsule({}) = {<<m, standing[m]>> : m \in full}
  <2>1. RecallLimit({}) = Base /\ Best(Live, Base) \ {} = Best(Live, Base)
    BY DEF RecallLimit
  <2> QED
    BY <2>1 DEF Capsule
<1>5. Capsule(excluded) = {<<m, standing[m]>> : m \in rest}
  BY DEF Capsule
<1>6. ASSUME NEW m \in full, m \notin excluded PROVE m \in rest
  BY <1>1, <1>6, ExclusionMakesRoom
<1>7. ASSUME NEW m, <<m, standing[m]>> \in hook.seen PROVE m \in excluded
  <2>1. <<m, standing[m]>>[1] = m
    OBVIOUS
  <2> QED
    BY <1>7, <2>1 DEF RawIds
<1> HIDE DEF excluded, full, rest
<1>8. ASSUME NEW k \in LeftOut PROVE k[1] \in excluded
  <2>1. PICK m \in full : k = <<m, standing[m]>>
    BY <1>4, <1>8 DEF LeftOut, Scoped
  <2>2. k[1] = m /\ m \notin foreign
    BY <1>8, <2>1 DEF LeftOut, Scoped
  <2>3. SUFFICES ASSUME m \notin excluded PROVE FALSE
    BY <2>2
  <2>4. k \in Scoped(Capsule(excluded))
    BY <1>5, <1>6, <2>1, <2>2, <2>3 DEF Scoped
  <2>5. k \notin hook.seen
    BY <1>7, <2>1, <2>3
  <2> QED
    BY <1>3, <1>8, <2>4, <2>5 DEF LeftOut
<1> QED
  BY <1>8 DEF RawIds, excluded

(* What a prompt leaves out of the full packet was given to the session,   *)
(* in its present standing or an earlier one, or lost with a killed hook.  *)
THEOREM LeftOutWasGiven == Spec => NothingWithheld
<1>1. ASSUME IInv, [Next]_vars
      PROVE  Answers => stale \/ RawIds(LeftOut) \subseteq RawIds(window \cup lost)
  <2> SUFFICES ASSUME Answers, ~stale
               PROVE  RawIds(LeftOut) \subseteq RawIds(window \cup lost)
    OBVIOUS
  <2>1. hook.seen \subseteq window \cup lost
    BY <1>1 DEF IInv, WithheldInv, Prompting, Answers
  <2>2. RawIds(hook.seen) \subseteq RawIds(window \cup lost)
    BY <2>1 DEF RawIds
  <2>3. TypeOK
    BY <1>1 DEF IInv
  <2> QED
    BY <1>1, <2>2, <2>3, LeftOutIsTracked
<1> QED
  BY <1>1, Invariance, PTL DEF Spec, NothingWithheld

(* A prompt hook repeats only what the tracker gave up.                    *)
THEOREM NothingIsRepeated == Spec => []OncePerWindow
<1>1. IInv => OncePerWindow
  BY DEF IInv, OnceInv
<1> QED
  BY <1>1, Invariance, PTL
=============================================================================
