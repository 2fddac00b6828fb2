-------------------------- MODULE Lifecycle_proofs --------------------------
(* What the post-encode queue of Lifecycle guarantees for any number of      *)
(* calls, episodes and closings.                                             *)
EXTENDS Lifecycle, TLAPS

Queued == {queue[i] : i \in DOMAIN queue}

(* What a call knows of its episodes.                                        *)
CallInv == \A c \in Call :
    /\ left[c] \subseteq c /\ left[c] \cap stored = {}
    /\ at[c] = "idle" => c \cap stored = {}
    /\ at[c] = "model" => left[c] = c /\ mode[c] = "reflect"
    /\ at[c] \in {"warmup", "embed", "insert"} => left[c] # {}
    /\ mode[c] # "reflect" /\ at[c] # "idle" => c \subseteq left[c] \cup stored
    /\ at[c] = "wait" => left[c] = {} /\ mode[c] = "waits"
    /\ at[c] = "enqueue" => /\ fresh[c] \in c \cap stored
                            /\ fresh[c] \notin pending \cup worked
    /\ at[c] # "enqueue" => fresh[c] = None

(* Every id has one task, and the store forgets no episode while it is open. *)
QueueInv ==
    /\ PendingIsExact
    /\ pending \cup worked \subseteq stored
    /\ pending \cap worked = {}
    /\ \A i, j \in DOMAIN queue : queue[i] = queue[j] => i = j
    /\ task.id \notin Queued
    /\ ~closed => /\ stored \subseteq pending \cup worked \cup {fresh[c] : c \in Call}
                  /\ task.intact

(* What a closing call waits for is pending, or it has been worked on.       *)
DrainInv == \A d \in Drainer :
    /\ drain[d].at = "draining" /\ ~closed => drain[d].awaits \subseteq pending \cup worked
    /\ drain[d].at \in {"idle", "draining"} =>
         ~drain[d].drained /\ ~drain[d].cut
    /\ drain[d].drained /\ ~drain[d].cut => drain[d].awaits \subseteq worked

IInv == TypeOK /\ CallInv /\ QueueInv /\ DrainInv /\ WaitedIsWorked

-----------------------------------------------------------------------------
(* The next episode of a list is one of the list.                            *)
LEMMA FirstInLeft == \A c \in Call : left[c] # {} => First(c) \in left[c]
  BY DEF First

(* A task that is appended is queued once.                                   *)
LEMMA AppendQueued ==
    ASSUME NEW q \in Seq(Episode), NEW e \in Episode,
           e \notin {q[i] : i \in DOMAIN q},
           \A i, j \in DOMAIN q : q[i] = q[j] => i = j
    PROVE  /\ {Append(q, e)[i] : i \in DOMAIN Append(q, e)} = {q[i] : i \in DOMAIN q} \cup {e}
           /\ \A i, j \in DOMAIN Append(q, e) : Append(q, e)[i] = Append(q, e)[j] => i = j
<1> DEFINE r == Append(q, e)
<1>1. /\ DOMAIN r = 1..(Len(q) + 1) /\ DOMAIN q = 1..Len(q) /\ Len(q) \in Nat
      /\ r[Len(q) + 1] = e /\ \A i \in 1..Len(q) : r[i] = q[i]
  OBVIOUS
<1> HIDE DEF r
<1>2. \A i \in DOMAIN r : i \in DOMAIN q \/ i = Len(q) + 1
  BY <1>1
<1>3. {r[i] : i \in DOMAIN r} = {q[i] : i \in DOMAIN q} \cup {e}
  BY <1>1, <1>2
<1>4. \A i, j \in DOMAIN r : r[i] = r[j] => i = j
  BY <1>1, <1>2
<1>5. QED
  BY <1>3, <1>4 DEF r

(* The first task leaves the queue for good.                                 *)
LEMMA TailQueued ==
    ASSUME NEW q \in Seq(Episode), q # <<>>,
           \A i, j \in DOMAIN q : q[i] = q[j] => i = j
    PROVE  /\ {q[i] : i \in DOMAIN q} = {Tail(q)[i] : i \in DOMAIN Tail(q)} \cup {Head(q)}
           /\ Head(q) \notin {Tail(q)[i] : i \in DOMAIN Tail(q)}
           /\ \A i, j \in DOMAIN Tail(q) : Tail(q)[i] = Tail(q)[j] => i = j
<1> DEFINE r == Tail(q)
<1>1. /\ DOMAIN q = 1..Len(q) /\ Len(q) \in Nat \ {0} /\ DOMAIN r = 1..(Len(q) - 1)
      /\ Head(q) = q[1] /\ \A i \in 1..(Len(q) - 1) : r[i] = q[i + 1]
  OBVIOUS
<1> HIDE DEF r
<1>2. \A i \in DOMAIN q : i = 1 \/ (i - 1 \in DOMAIN r /\ r[i - 1] = q[i])
  BY <1>1
<1>3. \A i \in DOMAIN r : i + 1 \in DOMAIN q /\ i + 1 # 1
  BY <1>1
<1>4. {q[i] : i \in DOMAIN q} = {r[i] : i \in DOMAIN r} \cup {Head(q)}
  <2>1. ASSUME NEW i \in DOMAIN q PROVE q[i] \in {r[j] : j \in DOMAIN r} \cup {Head(q)}
    BY <1>1, <1>2
  <2>2. ASSUME NEW i \in DOMAIN r PROVE r[i] \in {q[j] : j \in DOMAIN q}
    BY <1>1, <1>3
  <2>3. Head(q) \in {q[j] : j \in DOMAIN q}
    BY <1>1
  <2>4. QED
    BY <2>1, <2>2, <2>3
<1>5. Head(q) \notin {r[i] : i \in DOMAIN r}
  BY <1>1, <1>3
<1>6. \A i, j \in DOMAIN r : r[i] = r[j] => i = j
  BY <1>1, <1>3
<1>7. QED
  BY <1>4, <1>5, <1>6 DEF r

(* The type invariant is inductive, given what a call knows of its episodes. *)
LEMMA TypeStep ==
    TypeOK /\ CallInv /\ [Next]_vars => TypeOK'
<1> SUFFICES ASSUME TypeOK /\ CallInv, [Next]_vars PROVE TypeOK'
  OBVIOUS
<1> USE LifecycleConstants DEF LifecycleConstants
<1>1. CASE Warmed
  BY <1>1, FirstInLeft DEF TypeOK, CallInv, vars, encoding, queueing, closing, Episode, Drainer, Idle, Warmed
<1>2. ASSUME NEW c \in Call, NEW how \in {"plain", "waits", "reflect"}, Start(c, how)
          PROVE  TypeOK'
  BY <1>2, FirstInLeft DEF TypeOK, CallInv, vars, encoding, queueing, closing, Episode, Drainer, Idle, Start, Goto, Entry
<1>3. ASSUME NEW c \in Call, Reflected(c)
          PROVE  TypeOK'
  BY <1>3, FirstInLeft DEF TypeOK, CallInv, vars, encoding, queueing, closing, Episode, Drainer, Idle, Reflected, Goto, Entry
<1>4. ASSUME NEW c \in Call, WarmupOver(c)
          PROVE  TypeOK'
  BY <1>4, FirstInLeft DEF TypeOK, CallInv, vars, encoding, queueing, closing, Episode, Drainer, Idle, WarmupOver, Goto
<1>5. ASSUME NEW c \in Call, Embedded(c)
          PROVE  TypeOK'
  BY <1>5, FirstInLeft DEF TypeOK, CallInv, vars, encoding, queueing, closing, Episode, Drainer, Idle, Embedded, Goto, GiveUp, First, Entry
<1>6. ASSUME NEW c \in Call, Insert(c)
          PROVE  TypeOK'
  BY <1>6, FirstInLeft DEF TypeOK, CallInv, vars, encoding, queueing, closing, Episode, Drainer, Idle, Insert, Goto, GiveUp, First, Entry
<1>7. ASSUME NEW c \in Call, Enqueue(c)
          PROVE  TypeOK'
  BY <1>7, FirstInLeft DEF TypeOK, CallInv, vars, encoding, queueing, closing, Episode, Drainer, Idle, Enqueue, Goto, Entry
<1>8. ASSUME NEW c \in Call, Waited(c)
          PROVE  TypeOK'
  BY <1>8, FirstInLeft DEF TypeOK, CallInv, vars, encoding, queueing, closing, Episode, Drainer, Idle, Waited, Goto, Unfinished
<1>9. CASE Turn
  BY <1>9, FirstInLeft DEF TypeOK, CallInv, vars, encoding, queueing, closing, Episode, Drainer, Idle, Turn
<1>10. CASE Interfere
  BY <1>10, FirstInLeft DEF TypeOK, CallInv, vars, encoding, queueing, closing, Episode, Drainer, Idle, Interfere, Stage
<1>11. CASE Validate
  BY <1>11, FirstInLeft DEF TypeOK, CallInv, vars, encoding, queueing, closing, Episode, Drainer, Idle, Validate, Stage
<1>12. CASE Finish
  BY <1>12, FirstInLeft DEF TypeOK, CallInv, vars, encoding, queueing, closing, Episode, Drainer, Idle, Finish, Idle
<1>13. CASE Close
  BY <1>13, FirstInLeft DEF TypeOK, CallInv, vars, encoding, queueing, closing, Episode, Drainer, Idle, Close
<1>14. ASSUME NEW d \in Drainer, CloseAsync(d)
          PROVE  TypeOK'
  <2>1. CASE closed \/ pending = {}
    <3>1. drain' \in [Drainer -> [at : {"idle", "draining", "drained", "done"},
                              awaits : SUBSET Episode, drained : BOOLEAN, cut : BOOLEAN]]
      <4>1. drain' = [drain EXCEPT ![d].at = "done"]
        BY <1>14, <2>1 DEF CloseAsync
      <4>2. drain \in [Drainer -> [at : {"idle", "draining", "drained", "done"},
                                   awaits : SUBSET Episode, drained : BOOLEAN,
                                   cut : BOOLEAN]]
        BY DEF TypeOK
      <4>3. QED
        BY <4>1, <4>2
    <3>2. QED
      BY <1>14, <2>1, <3>1 DEF TypeOK, encoding, queueing, CloseAsync
  <2>2. CASE ~(closed \/ pending = {})
    <3>1. drain' \in [Drainer -> [at : {"idle", "draining", "drained", "done"},
                              awaits : SUBSET Episode, drained : BOOLEAN, cut : BOOLEAN]]
      <4>1. (pending = {}) \in BOOLEAN
        OBVIOUS
      <4> DEFINE begun == [at |-> IF pending = {} THEN "drained" ELSE "draining",
                           awaits |-> pending, drained |-> pending = {}, cut |-> FALSE]
      <4>2. begun \in [at : {"idle", "draining", "drained", "done"},
                      awaits : SUBSET Episode, drained : BOOLEAN, cut : BOOLEAN]
        BY <4>1 DEF TypeOK
      <4>3. drain' = [drain EXCEPT ![d] = begun]
        BY <1>14, <2>2 DEF CloseAsync, BeginDrain
      <4> HIDE DEF begun
      <4>4. QED
        BY <4>2, <4>3 DEF TypeOK
    <3>2. QED
      BY <1>14, <2>2, <3>1 DEF TypeOK, encoding, queueing, CloseAsync
  <2>3. QED
    BY <2>1, <2>2
<1>15. ASSUME NEW d \in Drainer, Shutdown(d)
          PROVE  TypeOK'
  <2>1. CASE down
    BY <1>15, <2>1 DEF TypeOK, vars, encoding, queueing, closing, Drainer, Shutdown
  <2>2. CASE ~down
    <3>1. drain' \in [Drainer -> [at : {"idle", "draining", "drained", "done"},
                              awaits : SUBSET Episode, drained : BOOLEAN, cut : BOOLEAN]]
      <4>1. (pending = {}) \in BOOLEAN
        OBVIOUS
      <4> DEFINE begun == [at |-> IF pending = {} THEN "drained" ELSE "draining",
                           awaits |-> pending, drained |-> pending = {}, cut |-> FALSE]
      <4>2. begun \in [at : {"idle", "draining", "drained", "done"},
                      awaits : SUBSET Episode, drained : BOOLEAN, cut : BOOLEAN]
        BY <4>1 DEF TypeOK
      <4>3. drain' = [drain EXCEPT ![d] = begun]
        BY <1>15, <2>2 DEF Shutdown, BeginDrain
      <4> HIDE DEF begun
      <4>4. QED
        BY <4>2, <4>3 DEF TypeOK
    <3>2. QED
      BY <1>15, <2>2, <3>1 DEF TypeOK, encoding, queueing, Shutdown
  <2>3. QED
    BY <2>1, <2>2
<1>16. ASSUME NEW d \in Drainer, Drained(d)
          PROVE  TypeOK'
  BY <1>16, FirstInLeft DEF TypeOK, CallInv, vars, encoding, queueing, closing, Episode, Drainer, Idle, Drained, DrainTold, Unfinished
<1>17. ASSUME NEW d \in Drainer, TimedOut(d)
          PROVE  TypeOK'
  BY <1>17, FirstInLeft DEF TypeOK, CallInv, vars, encoding, queueing, closing, Episode, Drainer, Idle, TimedOut, DrainTold
<1>18. ASSUME NEW d \in Drainer, EndDrain(d)
          PROVE  TypeOK'
  BY <1>18, FirstInLeft DEF TypeOK, CallInv, vars, encoding, queueing, closing, Episode, Drainer, Idle, EndDrain
<1>19. CASE UNCHANGED vars
  BY <1>19 DEF TypeOK, CallInv, vars, encoding, queueing, closing, Episode, Drainer, Idle
<1>20. QED
  BY <1>1, <1>2, <1>3, <1>4, <1>5, <1>6, <1>7, <1>8, <1>9, <1>10, <1>11, <1>12, <1>13, <1>14, <1>15, <1>16, <1>17, <1>18, <1>19
  DEF Next, Encoding, Task, Drainer

(* What a call knows of its episodes stays true whatever other calls do.    *)
LEMMA CallStep ==
    TypeOK /\ CallInv /\ QueueInv /\ [Next]_vars => CallInv'
<1> SUFFICES ASSUME TypeOK /\ CallInv /\ QueueInv, [Next]_vars PROVE CallInv'
  OBVIOUS
<1> USE LifecycleConstants DEF LifecycleConstants
<1>1. CASE Warmed
  BY <1>1, FirstInLeft DEF TypeOK, CallInv, QueueInv, vars, encoding, queueing, closing, Episode, Warmed
<1>2. ASSUME NEW c \in Call, NEW how \in {"plain", "waits", "reflect"}, Start(c, how)
          PROVE  CallInv'
  <2> SUFFICES ASSUME NEW x \in Call PROVE CallInv!(x)'
    BY DEF CallInv
  <2>1. CASE x = c
    <3>1. /\ left'[c] = c /\ mode'[c] = how /\ fresh'[c] = fresh[c]
          /\ at'[c] = IF how = "reflect" THEN "model" ELSE Entry
      BY <1>2 DEF TypeOK, Start, Goto
    <3>2. fresh[c] = None /\ c \cap stored = {} /\ stored' = stored /\ c # {}
      BY <1>2 DEF Start, CallInv
    <3>3. at'[c] \in {"model", "warmup", "embed"}
      BY <3>1 DEF Entry
    <3>4. at'[c] = "model" => how = "reflect"
      BY <3>1 DEF Entry
    <3>5. QED
      BY <2>1, <3>1, <3>2, <3>3, <3>4
  <2>2. CASE x # c
    BY <1>2, <2>2 DEF TypeOK, CallInv, queueing, closing, Start, Goto, Entry
  <2>3. QED
    BY <2>1, <2>2
<1>3. ASSUME NEW c \in Call, Reflected(c)
          PROVE  CallInv'
  <2> SUFFICES ASSUME NEW x \in Call PROVE CallInv!(x)'
    BY DEF CallInv
  <2>1. CASE x = c
    <3>1. at'[c] \in {"warmup", "embed", "returned"}
      BY <1>3 DEF TypeOK, Reflected, Entry
    <3>2. /\ left'[c] = c /\ mode'[c] = "reflect" /\ fresh'[c] = None
          /\ c \cap stored' = {} /\ c # {}
      BY <1>3 DEF Reflected, CallInv
    <3>3. QED
      BY <2>1, <3>1, <3>2
  <2>2. CASE x # c
    BY <1>3, <2>2 DEF TypeOK, CallInv, queueing, closing, Reflected, Goto, Entry
  <2>3. QED
    BY <2>1, <2>2
<1>4. ASSUME NEW c \in Call, WarmupOver(c)
          PROVE  CallInv'
  BY <1>4, FirstInLeft DEF TypeOK, CallInv, QueueInv, vars, encoding, queueing, closing, Episode, WarmupOver, Goto
<1>5. ASSUME NEW c \in Call, Embedded(c)
          PROVE  CallInv'
  BY <1>5, FirstInLeft DEF TypeOK, CallInv, QueueInv, vars, encoding, queueing, closing, Episode, Embedded, Goto, GiveUp, First, Entry
<1>6. ASSUME NEW c \in Call, Insert(c)
          PROVE  CallInv'
  BY <1>6, FirstInLeft DEF TypeOK, CallInv, QueueInv, vars, encoding, queueing, closing, Episode, Insert, Goto, GiveUp, First, Entry
<1>7. ASSUME NEW c \in Call, Enqueue(c)
          PROVE  CallInv'
  BY <1>7, FirstInLeft DEF TypeOK, CallInv, QueueInv, vars, encoding, queueing, closing, Episode, Enqueue, Goto, Entry
<1>8. ASSUME NEW c \in Call, Waited(c)
          PROVE  CallInv'
  BY <1>8, FirstInLeft DEF TypeOK, CallInv, QueueInv, vars, encoding, queueing, closing, Episode, Waited, Goto, Unfinished
<1>9. CASE Turn
  BY <1>9, FirstInLeft DEF TypeOK, CallInv, QueueInv, vars, encoding, queueing, closing, Episode, Turn
<1>10. CASE Interfere
  BY <1>10, FirstInLeft DEF TypeOK, CallInv, QueueInv, vars, encoding, queueing, closing, Episode, Interfere, Stage
<1>11. CASE Validate
  BY <1>11, FirstInLeft DEF TypeOK, CallInv, QueueInv, vars, encoding, queueing, closing, Episode, Validate, Stage
<1>12. CASE Finish
  <2> SUFFICES ASSUME NEW x \in Call PROVE CallInv!(x)'
    BY DEF CallInv
  <2>1. task.id \in pending
    BY <1>12 DEF Finish, QueueInv, PendingIsExact, Unfinished
  <2>2. fresh[x] \notin pending => fresh[x] \notin (pending \cup worked)' \/ fresh[x] \in worked
    BY <1>12, <2>1 DEF Finish
  <2>3. QED
    BY <1>12, <2>2 DEF Finish, CallInv, encoding, closing
<1>13. CASE Close
  BY <1>13, FirstInLeft DEF TypeOK, CallInv, QueueInv, vars, encoding, queueing, closing, Episode, Close
<1>14. ASSUME NEW d \in Drainer, CloseAsync(d)
          PROVE  CallInv'
  BY <1>14, FirstInLeft DEF TypeOK, CallInv, QueueInv, vars, encoding, queueing, closing, Episode, CloseAsync, BeginDrain
<1>15. ASSUME NEW d \in Drainer, Shutdown(d)
          PROVE  CallInv'
  BY <1>15, FirstInLeft DEF TypeOK, CallInv, QueueInv, vars, encoding, queueing, closing, Episode, Shutdown, BeginDrain
<1>16. ASSUME NEW d \in Drainer, Drained(d)
          PROVE  CallInv'
  BY <1>16, FirstInLeft DEF TypeOK, CallInv, QueueInv, vars, encoding, queueing, closing, Episode, Drained, DrainTold, Unfinished
<1>17. ASSUME NEW d \in Drainer, TimedOut(d)
          PROVE  CallInv'
  BY <1>17, FirstInLeft DEF TypeOK, CallInv, QueueInv, vars, encoding, queueing, closing, Episode, TimedOut, DrainTold
<1>18. ASSUME NEW d \in Drainer, EndDrain(d)
          PROVE  CallInv'
  BY <1>18, FirstInLeft DEF TypeOK, CallInv, QueueInv, vars, encoding, queueing, closing, Episode, EndDrain
<1>19. CASE UNCHANGED vars
  BY <1>19 DEF TypeOK, CallInv, QueueInv, vars, encoding, queueing, closing, Episode
<1>20. QED
  BY <1>1, <1>2, <1>3, <1>4, <1>5, <1>6, <1>7, <1>8, <1>9, <1>10, <1>11, <1>12, <1>13, <1>14, <1>15, <1>16, <1>17, <1>18, <1>19
  DEF Next, Encoding, Task, Drainer

(* Every id keeps one task until its work is over.                          *)
LEMMA QueueStep ==
    TypeOK /\ CallInv /\ QueueInv /\ [Next]_vars => QueueInv'
<1> SUFFICES ASSUME TypeOK /\ CallInv /\ QueueInv, [Next]_vars PROVE QueueInv'
  OBVIOUS
<1> USE LifecycleConstants DEF LifecycleConstants
<1>1. CASE Warmed
  BY <1>1, FirstInLeft DEF TypeOK, CallInv, QueueInv, PendingIsExact, Unfinished, Queued, vars, encoding, queueing, closing, Episode, Warmed
<1>2. ASSUME NEW c \in Call, NEW how \in {"plain", "waits", "reflect"}, Start(c, how)
          PROVE  QueueInv'
  BY <1>2 DEF QueueInv, PendingIsExact, Unfinished, Queued, queueing, closing, Start
<1>3. ASSUME NEW c \in Call, Reflected(c)
          PROVE  QueueInv'
  BY <1>3, FirstInLeft DEF TypeOK, CallInv, QueueInv, PendingIsExact, Unfinished, Queued, vars, encoding, queueing, closing, Episode, Reflected, Goto, Entry
<1>4. ASSUME NEW c \in Call, WarmupOver(c)
          PROVE  QueueInv'
  BY <1>4, FirstInLeft DEF TypeOK, CallInv, QueueInv, PendingIsExact, Unfinished, Queued, vars, encoding, queueing, closing, Episode, WarmupOver, Goto
<1>5. ASSUME NEW c \in Call, Embedded(c)
          PROVE  QueueInv'
  BY <1>5, FirstInLeft DEF TypeOK, CallInv, QueueInv, PendingIsExact, Unfinished, Queued, vars, encoding, queueing, closing, Episode, Embedded, Goto, GiveUp, First, Entry
<1>6. ASSUME NEW c \in Call, Insert(c)
          PROVE  QueueInv'
  <2>1. CASE closed
    BY <1>6, <2>1 DEF QueueInv, PendingIsExact, Unfinished, Queued, queueing, closing, Insert
  <2>2. CASE ~closed
    <3> DEFINE e == First(c)
    <3>1. /\ stored' = stored \cup {e}
          /\ fresh' = [fresh EXCEPT ![c] = e]
      BY <1>6, <2>2 DEF Insert
    <3>2. fresh[c] \notin stored
      BY <1>6 DEF Insert, CallInv, TypeOK
    <3> HIDE DEF e
    <3>3. stored' \subseteq pending \cup worked \cup {fresh'[x] : x \in Call}
      BY <2>2, <3>1, <3>2 DEF QueueInv, TypeOK
    <3>4. QED
      BY <1>6, <2>2, <3>1, <3>3
      DEF QueueInv, PendingIsExact, Unfinished, Queued, queueing, closing, Insert
  <2>3. QED
    BY <2>1, <2>2
<1>7. ASSUME NEW c \in Call, Enqueue(c)
          PROVE  QueueInv'
  <2> DEFINE e == fresh[c]
  <2>1. /\ pending' = pending \cup {e} /\ queue' = Append(queue, e)
        /\ fresh' = [fresh EXCEPT ![c] = None]
        /\ stored' = stored /\ task' = task /\ worked' = worked /\ closed' = closed
    BY <1>7 DEF Enqueue, closing
  <2>2. e \in stored /\ e \notin pending \cup worked
    BY <1>7 DEF Enqueue, CallInv
  <2>3. e \in Episode
    BY <2>2 DEF TypeOK
  <2> HIDE DEF e
  <2>4. /\ Queued' = Queued \cup {e}
        /\ \A i, j \in DOMAIN queue' : queue'[i] = queue'[j] => i = j
    <3>1. queue \in Seq(Episode) /\ e \notin {queue[i] : i \in DOMAIN queue}
      BY <2>2 DEF QueueInv, PendingIsExact, Unfinished, TypeOK
    <3>2. \A i, j \in DOMAIN queue : queue[i] = queue[j] => i = j
      BY DEF QueueInv
    <3> DEFINE r == Append(queue, e)
    <3>3. /\ {r[i] : i \in DOMAIN r} = {queue[i] : i \in DOMAIN queue} \cup {e}
          /\ \A i, j \in DOMAIN r : r[i] = r[j] => i = j
      BY <2>3, <3>1, <3>2, AppendQueued
    <3>4. queue' = r
      BY <2>1
    <3> HIDE DEF r
    <3>5. QED
      BY <3>3, <3>4 DEF Queued
  <2>5. PendingIsExact' /\ task'.id \notin Queued'
    <3>1. pending = Queued \cup ({task.id} \ {None}) /\ task.id \notin Queued
      BY DEF QueueInv, PendingIsExact, Unfinished, Queued
    <3>2. e # None /\ e # task.id
      BY <2>2, <2>3, <3>1
    <3>3. pending' = Queued' \cup ({task'.id} \ {None}) /\ task'.id \notin Queued'
      BY <2>1, <2>4, <3>1, <3>2
    <3>4. QED
      BY <3>3 DEF PendingIsExact, Unfinished, Queued
  <2>6. ~closed => stored \subseteq pending' \cup worked \cup {fresh'[x] : x \in Call}
    BY <2>1 DEF QueueInv, TypeOK, e
  <2>7. QED
    BY <2>1, <2>2, <2>4, <2>5, <2>6 DEF QueueInv
<1>8. ASSUME NEW c \in Call, Waited(c)
          PROVE  QueueInv'
  BY <1>8, FirstInLeft DEF TypeOK, CallInv, QueueInv, PendingIsExact, Unfinished, Queued, vars, encoding, queueing, closing, Episode, Waited, Goto, Unfinished
<1>9. CASE Turn
  <2>1. /\ Queued = Queued' \cup {Head(queue)} /\ Head(queue) \notin Queued'
        /\ \A i, j \in DOMAIN queue' : queue'[i] = queue'[j] => i = j
    <3>1. queue \in Seq(Episode) /\ queue # <<>>
      BY <1>9 DEF Turn, TypeOK
    <3>2. \A i, j \in DOMAIN queue : queue[i] = queue[j] => i = j
      BY DEF QueueInv
    <3> DEFINE r == Tail(queue)
    <3>3. /\ {queue[i] : i \in DOMAIN queue} = {r[i] : i \in DOMAIN r} \cup {Head(queue)}
          /\ Head(queue) \notin {r[i] : i \in DOMAIN r}
          /\ \A i, j \in DOMAIN r : r[i] = r[j] => i = j
      BY <3>1, <3>2, TailQueued
    <3>4. queue' = r
      BY <1>9 DEF Turn
    <3> HIDE DEF r
    <3>5. QED
      BY <3>3, <3>4 DEF Queued
  <2>2. task'.id = Head(queue) /\ task'.intact = ~closed /\ task.id = None
    BY <1>9 DEF Turn
  <2>3. Head(queue) \in Episode
    BY <1>9 DEF Turn, TypeOK
  <2>4. PendingIsExact'
    BY <1>9, <2>1, <2>2, <2>3 DEF Turn, QueueInv, PendingIsExact, Unfinished, Queued, Episode
  <2>5. QED
    <3>1. /\ pending' = pending /\ worked' = worked /\ stored' = stored
          /\ fresh' = fresh /\ closed' = closed /\ task'.id \notin Queued'
          /\ closed' \/ task'.intact
      BY <1>9, <2>1, <2>2 DEF Turn, encoding, closing
    <3>2. QED
      BY <2>1, <2>4, <3>1 DEF QueueInv
<1>10. CASE Interfere
  BY <1>10, FirstInLeft DEF TypeOK, CallInv, QueueInv, PendingIsExact, Unfinished, Queued, vars, encoding, queueing, closing, Episode, Interfere, Stage
<1>11. CASE Validate
  BY <1>11, FirstInLeft DEF TypeOK, CallInv, QueueInv, PendingIsExact, Unfinished, Queued, vars, encoding, queueing, closing, Episode, Validate, Stage
<1>12. CASE Finish
  BY <1>12, FirstInLeft DEF TypeOK, CallInv, QueueInv, PendingIsExact, Unfinished, Queued, vars, encoding, queueing, closing, Episode, Finish, Idle
<1>13. CASE Close
  BY <1>13, FirstInLeft DEF TypeOK, CallInv, QueueInv, PendingIsExact, Unfinished, Queued, vars, encoding, queueing, closing, Episode, Close
<1>14. ASSUME NEW d \in Drainer, CloseAsync(d)
          PROVE  QueueInv'
  BY <1>14, FirstInLeft DEF TypeOK, CallInv, QueueInv, PendingIsExact, Unfinished, Queued, vars, encoding, queueing, closing, Episode, CloseAsync, BeginDrain
<1>15. ASSUME NEW d \in Drainer, Shutdown(d)
          PROVE  QueueInv'
  BY <1>15, FirstInLeft DEF TypeOK, CallInv, QueueInv, PendingIsExact, Unfinished, Queued, vars, encoding, queueing, closing, Episode, Shutdown, BeginDrain
<1>16. ASSUME NEW d \in Drainer, Drained(d)
          PROVE  QueueInv'
  BY <1>16, FirstInLeft DEF TypeOK, CallInv, QueueInv, PendingIsExact, Unfinished, Queued, vars, encoding, queueing, closing, Episode, Drained, DrainTold, Unfinished
<1>17. ASSUME NEW d \in Drainer, TimedOut(d)
          PROVE  QueueInv'
  BY <1>17, FirstInLeft DEF TypeOK, CallInv, QueueInv, PendingIsExact, Unfinished, Queued, vars, encoding, queueing, closing, Episode, TimedOut, DrainTold
<1>18. ASSUME NEW d \in Drainer, EndDrain(d)
          PROVE  QueueInv'
  BY <1>18, FirstInLeft DEF TypeOK, CallInv, QueueInv, PendingIsExact, Unfinished, Queued, vars, encoding, queueing, closing, Episode, EndDrain
<1>19. CASE UNCHANGED vars
  BY <1>19 DEF TypeOK, CallInv, QueueInv, PendingIsExact, Unfinished, Queued, vars, encoding, queueing, closing, Episode
<1>20. QED
  BY <1>1, <1>2, <1>3, <1>4, <1>5, <1>6, <1>7, <1>8, <1>9, <1>10, <1>11, <1>12, <1>13, <1>14, <1>15, <1>16, <1>17, <1>18, <1>19
  DEF Next, Encoding, Task, Drainer

(* A drain is told the truth.                                              *)
LEMMA DrainStep ==
    TypeOK /\ CallInv /\ QueueInv /\ DrainInv /\ [Next]_vars => DrainInv'
<1> SUFFICES ASSUME TypeOK /\ CallInv /\ QueueInv /\ DrainInv, [Next]_vars PROVE DrainInv'
  OBVIOUS
<1> USE LifecycleConstants DEF LifecycleConstants
<1>1. CASE Warmed
  BY <1>1, FirstInLeft DEF TypeOK, QueueInv, PendingIsExact, DrainInv, vars, encoding, queueing, closing, Drainer, Warmed
<1>2. ASSUME NEW c \in Call, NEW how \in {"plain", "waits", "reflect"}, Start(c, how)
          PROVE  DrainInv'
  BY <1>2, FirstInLeft DEF TypeOK, QueueInv, PendingIsExact, DrainInv, vars, encoding, queueing, closing, Drainer, Start, Goto, Entry
<1>3. ASSUME NEW c \in Call, Reflected(c)
          PROVE  DrainInv'
  BY <1>3, FirstInLeft DEF TypeOK, QueueInv, PendingIsExact, DrainInv, vars, encoding, queueing, closing, Drainer, Reflected, Goto, Entry
<1>4. ASSUME NEW c \in Call, WarmupOver(c)
          PROVE  DrainInv'
  BY <1>4, FirstInLeft DEF TypeOK, QueueInv, PendingIsExact, DrainInv, vars, encoding, queueing, closing, Drainer, WarmupOver, Goto
<1>5. ASSUME NEW c \in Call, Embedded(c)
          PROVE  DrainInv'
  BY <1>5, FirstInLeft DEF TypeOK, QueueInv, PendingIsExact, DrainInv, vars, encoding, queueing, closing, Drainer, Embedded, Goto, GiveUp, First, Entry
<1>6. ASSUME NEW c \in Call, Insert(c)
          PROVE  DrainInv'
  BY <1>6, FirstInLeft DEF TypeOK, QueueInv, PendingIsExact, DrainInv, vars, encoding, queueing, closing, Drainer, Insert, Goto, GiveUp, First, Entry
<1>7. ASSUME NEW c \in Call, Enqueue(c)
          PROVE  DrainInv'
  BY <1>7, FirstInLeft DEF TypeOK, QueueInv, PendingIsExact, DrainInv, vars, encoding, queueing, closing, Drainer, Enqueue, Goto, Entry
<1>8. ASSUME NEW c \in Call, Waited(c)
          PROVE  DrainInv'
  BY <1>8, FirstInLeft DEF TypeOK, QueueInv, PendingIsExact, DrainInv, vars, encoding, queueing, closing, Drainer, Waited, Goto, Unfinished
<1>9. CASE Turn
  BY <1>9, FirstInLeft DEF TypeOK, QueueInv, PendingIsExact, DrainInv, vars, encoding, queueing, closing, Drainer, Turn
<1>10. CASE Interfere
  BY <1>10, FirstInLeft DEF TypeOK, QueueInv, PendingIsExact, DrainInv, vars, encoding, queueing, closing, Drainer, Interfere, Stage
<1>11. CASE Validate
  BY <1>11, FirstInLeft DEF TypeOK, QueueInv, PendingIsExact, DrainInv, vars, encoding, queueing, closing, Drainer, Validate, Stage
<1>12. CASE Finish
  BY <1>12, FirstInLeft DEF TypeOK, QueueInv, PendingIsExact, DrainInv, vars, encoding, queueing, closing, Drainer, Finish, Idle
<1>13. CASE Close
  BY <1>13, FirstInLeft DEF TypeOK, QueueInv, PendingIsExact, DrainInv, vars, encoding, queueing, closing, Drainer, Close
<1>14. ASSUME NEW d \in Drainer, CloseAsync(d)
          PROVE  DrainInv'
  BY <1>14, FirstInLeft DEF TypeOK, QueueInv, PendingIsExact, DrainInv, vars, encoding, queueing, closing, Drainer, CloseAsync, BeginDrain
<1>15. ASSUME NEW d \in Drainer, Shutdown(d)
          PROVE  DrainInv'
  BY <1>15, FirstInLeft DEF TypeOK, QueueInv, PendingIsExact, DrainInv, vars, encoding, queueing, closing, Drainer, Shutdown, BeginDrain
<1>16. ASSUME NEW d \in Drainer, Drained(d)
          PROVE  DrainInv'
  BY <1>16, FirstInLeft DEF TypeOK, QueueInv, PendingIsExact, DrainInv, vars, encoding, queueing, closing, Drainer, Drained, DrainTold, Unfinished
<1>17. ASSUME NEW d \in Drainer, TimedOut(d)
          PROVE  DrainInv'
  BY <1>17, FirstInLeft DEF TypeOK, QueueInv, PendingIsExact, DrainInv, vars, encoding, queueing, closing, Drainer, TimedOut, DrainTold
<1>18. ASSUME NEW d \in Drainer, EndDrain(d)
          PROVE  DrainInv'
  BY <1>18, FirstInLeft DEF TypeOK, QueueInv, PendingIsExact, DrainInv, vars, encoding, queueing, closing, Drainer, EndDrain
<1>19. CASE UNCHANGED vars
  BY <1>19 DEF TypeOK, QueueInv, PendingIsExact, DrainInv, vars, encoding, queueing, closing, Drainer
<1>20. QED
  BY <1>1, <1>2, <1>3, <1>4, <1>5, <1>6, <1>7, <1>8, <1>9, <1>10, <1>11, <1>12, <1>13, <1>14, <1>15, <1>16, <1>17, <1>18, <1>19
  DEF Next, Encoding, Task, Drainer

(* A call that waited finds its work done.                                 *)
LEMMA WaitStep ==
    TypeOK /\ CallInv /\ QueueInv /\ WaitedIsWorked /\ [Next]_vars => WaitedIsWorked'
<1> SUFFICES ASSUME TypeOK /\ CallInv /\ QueueInv /\ WaitedIsWorked, [Next]_vars PROVE WaitedIsWorked'
  OBVIOUS
<1> USE LifecycleConstants DEF LifecycleConstants
<1>1. CASE Warmed
  BY <1>1, FirstInLeft DEF TypeOK, CallInv, QueueInv, PendingIsExact, WaitedIsWorked, vars, encoding, queueing, closing, Warmed
<1>2. ASSUME NEW c \in Call, NEW how \in {"plain", "waits", "reflect"}, Start(c, how)
          PROVE  WaitedIsWorked'
  BY <1>2, FirstInLeft DEF TypeOK, CallInv, QueueInv, PendingIsExact, WaitedIsWorked, vars, encoding, queueing, closing, Start, Goto, Entry
<1>3. ASSUME NEW c \in Call, Reflected(c)
          PROVE  WaitedIsWorked'
  BY <1>3, FirstInLeft DEF TypeOK, CallInv, QueueInv, PendingIsExact, WaitedIsWorked, vars, encoding, queueing, closing, Reflected, Goto, Entry
<1>4. ASSUME NEW c \in Call, WarmupOver(c)
          PROVE  WaitedIsWorked'
  BY <1>4, FirstInLeft DEF TypeOK, CallInv, QueueInv, PendingIsExact, WaitedIsWorked, vars, encoding, queueing, closing, WarmupOver, Goto
<1>5. ASSUME NEW c \in Call, Embedded(c)
          PROVE  WaitedIsWorked'
  BY <1>5, FirstInLeft DEF TypeOK, CallInv, QueueInv, PendingIsExact, WaitedIsWorked, vars, encoding, queueing, closing, Embedded, Goto, GiveUp, First, Entry
<1>6. ASSUME NEW c \in Call, Insert(c)
          PROVE  WaitedIsWorked'
  BY <1>6, FirstInLeft DEF TypeOK, CallInv, QueueInv, PendingIsExact, WaitedIsWorked, vars, encoding, queueing, closing, Insert, Goto, GiveUp, First, Entry
<1>7. ASSUME NEW c \in Call, Enqueue(c)
          PROVE  WaitedIsWorked'
  BY <1>7, FirstInLeft DEF TypeOK, CallInv, QueueInv, PendingIsExact, WaitedIsWorked, vars, encoding, queueing, closing, Enqueue, Goto, Entry
<1>8. ASSUME NEW c \in Call, Waited(c)
          PROVE  WaitedIsWorked'
  BY <1>8, FirstInLeft DEF TypeOK, CallInv, QueueInv, PendingIsExact, WaitedIsWorked, vars, encoding, queueing, closing, Waited, Goto, Unfinished
<1>9. CASE Turn
  BY <1>9, FirstInLeft DEF TypeOK, CallInv, QueueInv, PendingIsExact, WaitedIsWorked, vars, encoding, queueing, closing, Turn
<1>10. CASE Interfere
  BY <1>10, FirstInLeft DEF TypeOK, CallInv, QueueInv, PendingIsExact, WaitedIsWorked, vars, encoding, queueing, closing, Interfere, Stage
<1>11. CASE Validate
  BY <1>11, FirstInLeft DEF TypeOK, CallInv, QueueInv, PendingIsExact, WaitedIsWorked, vars, encoding, queueing, closing, Validate, Stage
<1>12. CASE Finish
  BY <1>12, FirstInLeft DEF TypeOK, CallInv, QueueInv, PendingIsExact, WaitedIsWorked, vars, encoding, queueing, closing, Finish, Idle
<1>13. CASE Close
  BY <1>13, FirstInLeft DEF TypeOK, CallInv, QueueInv, PendingIsExact, WaitedIsWorked, vars, encoding, queueing, closing, Close
<1>14. ASSUME NEW d \in Drainer, CloseAsync(d)
          PROVE  WaitedIsWorked'
  BY <1>14, FirstInLeft DEF TypeOK, CallInv, QueueInv, PendingIsExact, WaitedIsWorked, vars, encoding, queueing, closing, CloseAsync, BeginDrain
<1>15. ASSUME NEW d \in Drainer, Shutdown(d)
          PROVE  WaitedIsWorked'
  BY <1>15, FirstInLeft DEF TypeOK, CallInv, QueueInv, PendingIsExact, WaitedIsWorked, vars, encoding, queueing, closing, Shutdown, BeginDrain
<1>16. ASSUME NEW d \in Drainer, Drained(d)
          PROVE  WaitedIsWorked'
  BY <1>16, FirstInLeft DEF TypeOK, CallInv, QueueInv, PendingIsExact, WaitedIsWorked, vars, encoding, queueing, closing, Drained, DrainTold, Unfinished
<1>17. ASSUME NEW d \in Drainer, TimedOut(d)
          PROVE  WaitedIsWorked'
  BY <1>17, FirstInLeft DEF TypeOK, CallInv, QueueInv, PendingIsExact, WaitedIsWorked, vars, encoding, queueing, closing, TimedOut, DrainTold
<1>18. ASSUME NEW d \in Drainer, EndDrain(d)
          PROVE  WaitedIsWorked'
  BY <1>18, FirstInLeft DEF TypeOK, CallInv, QueueInv, PendingIsExact, WaitedIsWorked, vars, encoding, queueing, closing, EndDrain
<1>19. CASE UNCHANGED vars
  BY <1>19 DEF TypeOK, CallInv, QueueInv, PendingIsExact, WaitedIsWorked, vars, encoding, queueing, closing
<1>20. QED
  BY <1>1, <1>2, <1>3, <1>4, <1>5, <1>6, <1>7, <1>8, <1>9, <1>10, <1>11, <1>12, <1>13, <1>14, <1>15, <1>16, <1>17, <1>18, <1>19
  DEF Next, Encoding, Task, Drainer

THEOREM Initially == Init => IInv
<1> SUFFICES ASSUME Init PROVE IInv
  OBVIOUS
<1> USE LifecycleConstants DEF LifecycleConstants
<1>1. TypeOK
  <2>1. queue \in Seq(Episode)
    BY DEF Init
  <2>2. task \in [id : Episode \cup {None}, stage : {"interference", "validation", "end"},
                 intact : BOOLEAN]
    BY DEF Init, Idle
  <2>3. drain \in [Drainer -> [at : {"idle", "draining", "drained", "done"},
                              awaits : SUBSET Episode, drained : BOOLEAN, cut : BOOLEAN]]
    BY DEF Init, NoDrain
  <2>4. QED
    BY <2>1, <2>2, <2>3 DEF Init, TypeOK
<1>2. CallInv
  BY DEF Init, CallInv
<1>3. QueueInv
  BY DEF Init, QueueInv, PendingIsExact, Unfinished, Queued, Idle
<1>4. DrainInv
  BY DEF Init, DrainInv, NoDrain
<1>5. WaitedIsWorked
  BY DEF Init, WaitedIsWorked
<1>6. QED
  BY <1>1, <1>2, <1>3, <1>4, <1>5 DEF IInv

(* The inductive invariant.                                                  *)
THEOREM LifecycleInvariant == Spec => []IInv
<1>1. IInv /\ [Next]_vars => IInv'
  BY TypeStep, CallStep, QueueStep, DrainStep, WaitStep DEF IInv
<1>2. QED
  BY Initially, <1>1, PTL DEF Spec

(* The instance keeps its type.                                              *)
THEOREM TypeCorrect == Spec => []TypeOK
<1>1. IInv => TypeOK
  BY DEF IInv
<1>2. QED
  BY <1>1, LifecycleInvariant, PTL

(* pendingConsolidationIds tells exactly what is left to do.                 *)
THEOREM PendingCorrect == Spec => []PendingIsExact
<1>1. IInv => PendingIsExact
  BY DEF IInv, QueueInv
<1>2. QED
  BY <1>1, LifecycleInvariant, PTL

(* A drain that reports success tells the truth, unless it was overtaken by  *)
(* another close.                                                            *)
THEOREM DrainCorrect == Spec => []DrainedIsWorked
<1>1. IInv => DrainedIsWorked
  BY DEF IInv, DrainInv, DrainedIsWorked
<1>2. QED
  BY <1>1, LifecycleInvariant, PTL

(* waitForConsolidation waits for the work on the call's own episodes.       *)
THEOREM WaitCorrect == Spec => []WaitedIsWorked
<1>1. IInv => WaitedIsWorked
  BY DEF IInv
<1>2. QED
  BY <1>1, LifecycleInvariant, PTL

(* While the store is open, a stored episode has been worked on, or it is    *)
(* pending, or it is about to be enqueued: no failure loses its work.        *)
THEOREM NothingForgotten ==
    Spec => [](~closed => stored \subseteq pending \cup worked \cup {fresh[c] : c \in Call})
<1>1. IInv => (~closed => stored \subseteq pending \cup worked \cup {fresh[c] : c \in Call})
  BY DEF IInv, QueueInv
<1>2. QED
  BY <1>1, LifecycleInvariant, PTL
=============================================================================
