----------------------------- MODULE Lifecycle ------------------------------
(* One Audrey instance, from its first encode to the exit of its process     *)
(* (audrey.ts, and the shutdown handlers of mcp-server/index.ts).            *)
(*                                                                           *)
(* Encoding stores an episode and leaves its post-encode work (interference, *)
(* resonance, validation) to a queue that runs one task at a time.  Closing  *)
(* the instance waits for the queue, but not for ever, and encodes that are  *)
(* in flight go on meanwhile.  All runs on one thread: another call can run  *)
(* only where this one awaits, and every await is a step of its own here.    *)
(* The re-embedding that a call may start first is in module Store.          *)
EXTENDS Naturals, Sequences

CONSTANTS
    Call,    \* encode, encodeBatch and reflect calls: each is its set of episodes
    Closer,  \* calls of closeAsync
    Signal,  \* events on which the MCP server shuts down
    None

Episode == UNION Call
Drainer == Closer \cup Signal

ASSUME LifecycleConstants ==
    /\ {} \notin Call
    /\ \A c, d \in Call : c = d \/ c \cap d = {}
    /\ Closer \cap Signal = {}
    /\ None \notin Episode

VARIABLES
    warming,  \* _embeddingWarmupPromise is not settled
    at,       \* where each call is
    mode,     \* whether it waits for the queue, or reflect
    left,     \* the episodes a call has not stored yet
    fresh,    \* the episode a call has stored and not yet enqueued
    stored,   \* the rows of episodes
    queue,    \* the tasks that wait for their turn in _postEncodeQueue
    task,     \* the running one, its stage, and whether all ran on an open store
    pending,  \* _pendingPostEncodeIds
    worked,   \* the episodes whose stages all ran before the store was closed
    closed,   \* _closed, and the database with it
    drain,    \* the closing calls: what each waits for and what it was told
    down,     \* the flag of registerShutdownHandlers
    exited    \* the process is gone

encoding == <<warming, at, mode, left, fresh, stored>>
queueing == <<queue, task, pending, worked>>
closing == <<closed, drain, down, exited>>
vars == <<encoding, queueing, closing>>

Idle == [id |-> None, stage |-> "end", intact |-> TRUE]
NoDrain == [at |-> "idle", awaits |-> {}, drained |-> FALSE, cut |-> FALSE]

TypeOK ==
    /\ warming \in BOOLEAN
    /\ at \in [Call -> {"idle", "model", "warmup", "embed", "insert", "enqueue",
                        "wait", "returned", "failed"}]
    /\ mode \in [Call -> {"plain", "waits", "reflect"}]
    /\ left \in [Call -> SUBSET Episode]
    /\ fresh \in [Call -> Episode \cup {None}]
    /\ stored \subseteq Episode
    /\ queue \in Seq(Episode)
    /\ task \in [id : Episode \cup {None}, stage : {"interference", "validation", "end"},
                 intact : BOOLEAN]
    /\ pending \subseteq Episode
    /\ worked \subseteq Episode
    /\ drain \in [Drainer -> [at : {"idle", "draining", "drained", "done"},
                              awaits : SUBSET Episode, drained : BOOLEAN,
                              cut : BOOLEAN]]
    /\ closed \in BOOLEAN /\ down \in BOOLEAN /\ exited \in BOOLEAN

Init ==
    /\ warming \in BOOLEAN
    /\ at = [c \in Call |-> "idle"]
    /\ mode = [c \in Call |-> "plain"]
    /\ left = [c \in Call |-> {}]
    /\ fresh = [c \in Call |-> None]
    /\ stored = {}
    /\ queue = <<>>
    /\ task = Idle
    /\ pending = {}
    /\ worked = {}
    /\ drain = [d \in Drainer |-> NoDrain]
    /\ closed = FALSE /\ down = FALSE /\ exited = FALSE

(* The tasks that _postEncodeQueue is the end of.                            *)
Unfinished == {queue[i] : i \in DOMAIN queue} \cup ({task.id} \ {None})

Goto(c, l) == at' = [at EXCEPT ![c] = l]
-----------------------------------------------------------------------------
(* A server starts the warmup before the first call, and does not start it   *)
(* again when it fails.                                                      *)
Warmed ==
    /\ warming
    /\ warming' = FALSE
    /\ UNCHANGED <<at, mode, left, fresh, stored, queueing, closing>>

(* _waitForEmbeddingWarmup: a foreground call waits while the warmup runs.   *)
Entry == IF warming THEN "warmup" ELSE "embed"

Start(c, how) ==
    /\ at[c] = "idle"
    /\ left' = [left EXCEPT ![c] = c]
    /\ mode' = [mode EXCEPT ![c] = how]
    /\ Goto(c, IF how = "reflect" THEN "model" ELSE Entry)
    /\ UNCHANGED <<warming, fresh, stored, queueing, closing>>

(* reflect asks the language model for memories; a failure yields none.      *)
Reflected(c) ==
    /\ at[c] = "model"
    /\ at' \in {[at EXCEPT ![c] = l] : l \in {Entry, "returned"}}
    /\ UNCHANGED <<warming, mode, left, fresh, stored, queueing, closing>>

WarmupOver(c) ==
    /\ at[c] = "warmup" /\ ~warming
    /\ Goto(c, "embed")
    /\ UNCHANGED <<warming, mode, left, fresh, stored, queueing, closing>>

(* The next episode of the list that was passed.                             *)
First(c) == CHOOSE e \in left[c] : TRUE

(* An encode fails as a whole; reflect goes on with its next memory.         *)
GiveUp(c) == LET e == First(c) IN
    /\ left' = [left EXCEPT ![c] = IF mode[c] = "reflect" THEN @ \ {e} ELSE @]
    /\ Goto(c, IF mode[c] # "reflect" THEN "failed"
               ELSE IF left[c] = {e} THEN "returned" ELSE Entry)

Embedded(c) ==
    /\ at[c] = "embed"
    /\ \/ Goto(c, "insert") /\ UNCHANGED left
       \/ GiveUp(c)
    /\ UNCHANGED <<warming, mode, fresh, stored, queueing, closing>>

(* encodeEpisode writes the episode, unless the store is closed by now.      *)
Insert(c) ==
    /\ at[c] = "insert"
    /\ IF closed
       THEN GiveUp(c) /\ UNCHANGED <<fresh, stored>>
       ELSE LET e == First(c) IN
              /\ stored' = stored \cup {e}
              /\ fresh' = [fresh EXCEPT ![c] = e]
              /\ left' = [left EXCEPT ![c] = @ \ {e}]
              /\ Goto(c, "enqueue")
    /\ UNCHANGED <<warming, mode, queueing, closing>>

(* _enqueuePostEncode, which asks nothing: the id is pending, and its task   *)
(* comes after every task that is there.                                     *)
Enqueue(c) ==
    /\ at[c] = "enqueue"
    /\ pending' = pending \cup {fresh[c]}
    /\ queue' = Append(queue, fresh[c])
    /\ fresh' = [fresh EXCEPT ![c] = None]
    /\ Goto(c, IF left[c] = {}
               THEN IF mode[c] = "waits" THEN "wait" ELSE "returned"
               ELSE IF mode[c] = "reflect" THEN Entry ELSE "insert")
    /\ UNCHANGED <<warming, mode, left, stored, task, worked, closing>>

WaitedTurn(c) ==
    /\ at[c] = "wait" /\ c \cap {queue[i] : i \in DOMAIN queue} = {}
    /\ Goto(c, "returned")
    /\ UNCHANGED <<warming, mode, left, fresh, stored, queueing, closing>>

(* The call awaits the tasks of its episodes.                                *)
Waited(c) ==
    /\ at[c] = "wait" /\ c \cap Unfinished = {}
    /\ Goto(c, "returned")
    /\ UNCHANGED <<warming, mode, left, fresh, stored, queueing, closing>>
-----------------------------------------------------------------------------
(* The queue.  A stage that throws is reported, and the next one runs.       *)

TurnWhenOpen ==
    /\ task.id = None /\ queue # <<>> /\ ~closed
    /\ task' = [id |-> Head(queue), intact |-> TRUE, stage |-> "interference"]
    /\ queue' = Tail(queue)
    /\ UNCHANGED <<encoding, pending, worked, closing>>

(* A task that gets its turn after the close does nothing.                   *)
Turn ==
    /\ task.id = None /\ queue # <<>>
    /\ task' = [id |-> Head(queue), intact |-> ~closed,
                stage |-> IF closed THEN "end" ELSE "interference"]
    /\ queue' = Tail(queue)
    /\ UNCHANGED <<encoding, pending, worked, closing>>

Stage(from, to) ==
    /\ task.stage = from
    /\ task' = [task EXCEPT !.stage = to, !.intact = @ /\ ~closed]
    /\ UNCHANGED <<encoding, queue, pending, worked, closing>>

(* Interference and resonance have the vector and await nothing; validation  *)
(* may await the language model.                                             *)
Interfere == task.id # None /\ Stage("interference", "validation")
Validate == task.id # None /\ Stage("validation", "end")

Finish ==
    /\ task.id # None /\ task.stage = "end"
    /\ task' = Idle
    /\ pending' = pending \ {task.id}
    /\ worked' = IF task.intact THEN worked \cup {task.id} ELSE worked
    /\ UNCHANGED <<encoding, queue, closing>>
-----------------------------------------------------------------------------
(* Closing.                                                                  *)

Close ==
    /\ ~closed
    /\ closed' = TRUE
    /\ UNCHANGED <<encoding, queueing, drain, down, exited>>

(* drainPostEncodeQueue waits for the tasks that are pending when it is      *)
(* called, or for five seconds, and tells whether nothing is pending.        *)
BeginDrain(d) ==
    drain' = [drain EXCEPT ![d] =
                [at |-> IF pending = {} THEN "drained" ELSE "draining",
                 awaits |-> pending, drained |-> pending = {}, cut |-> FALSE]]

DrainToldRaced(d, inTime) ==
    /\ drain[d].at = "draining"
    /\ drain' = [drain EXCEPT ![d] = [at |-> "drained", awaits |-> @.awaits,
                                      drained |-> TRUE, cut |-> closed]]
    /\ UNCHANGED <<encoding, queueing, closed, down, exited>>

DrainTold(d, inTime) ==
    /\ drain[d].at = "draining"
    /\ drain' = [drain EXCEPT ![d] =
                   [at |-> "drained", awaits |-> @.awaits,
                    drained |-> inTime /\ pending = {}, cut |-> closed]]
    /\ UNCHANGED <<encoding, queueing, closed, down, exited>>

Drained(d) == drain[d].awaits \cap Unfinished = {} /\ DrainTold(d, TRUE)

TimedOutIdle(d) == task.id = None /\ DrainTold(d, FALSE)

TimedOut(d) == DrainTold(d, FALSE)

(* closeAsync: with nothing pending it closes at once.                       *)
CloseAsync(k) ==
    /\ k \in Closer /\ drain[k].at = "idle"
    /\ IF closed \/ pending = {}
       THEN drain' = [drain EXCEPT ![k].at = "done"] /\ closed' = TRUE
       ELSE BeginDrain(k) /\ UNCHANGED closed
    /\ UNCHANGED <<encoding, queueing, down, exited>>

(* The first signal drains and closes; any other one exits at once, also     *)
(* while the first one still drains.                                         *)
Shutdown(s) ==
    /\ s \in Signal /\ drain[s].at = "idle"
    /\ down' = TRUE
    /\ IF down
       THEN drain' = [drain EXCEPT ![s].at = "done"] /\ exited' = TRUE
       ELSE BeginDrain(s) /\ UNCHANGED exited
    /\ UNCHANGED <<encoding, queueing, closed>>

EndDrain(d) ==
    /\ drain[d].at = "drained"
    /\ drain' = [drain EXCEPT ![d].at = "done"]
    /\ closed' = TRUE
    /\ exited' = (d \in Signal)
    /\ UNCHANGED <<encoding, queueing, down>>
-----------------------------------------------------------------------------
Encoding(c) ==
    \/ Reflected(c) \/ WarmupOver(c) \/ Embedded(c) \/ Insert(c) \/ Enqueue(c)
    \/ Waited(c)

(* The tasks up to their next await, and what they get from the model.       *)
Task == Turn \/ Interfere \/ Finish

Next ==
    /\ ~exited
    /\ \/ Warmed
       \/ \E c \in Call, how \in {"plain", "waits", "reflect"} : Start(c, how)
       \/ \E c \in Call : Encoding(c)
       \/ Task \/ Validate
       \/ Close
       \/ \E k \in Drainer : CloseAsync(k) \/ Shutdown(k)
       \/ \E d \in Drainer : Drained(d) \/ TimedOut(d) \/ EndDrain(d)

(* Promises that are settled are followed up, and a timer runs out; nothing  *)
(* is assumed of the providers.                                              *)
Fairness ==
    /\ WF_vars(~exited /\ Task)
    /\ \A c \in Call : WF_vars(~exited /\ (WarmupOver(c) \/ Insert(c) \/ Enqueue(c)
                                             \/ Waited(c)))
    /\ \A d \in Drainer : WF_vars(~exited /\ (TimedOut(d) \/ EndDrain(d)))

Spec == Init /\ [][Next]_vars
FairSpec == Spec /\ Fairness
-----------------------------------------------------------------------------
(* What memory_status and a drain report as pending is what is left to do:   *)
(* the tasks in the queue and the running one, no matter what failed.        *)
PendingIsExact == pending = Unfinished

(* A drain that reports success was told the truth: all that was pending     *)
(* when it began has been worked on, unless someone else closed the store    *)
(* before it returned.                                                       *)
DrainedIsWorked ==
    \A d \in Drainer :
        drain[d].drained /\ ~drain[d].cut => drain[d].awaits \subseteq worked

(* A call that waited for consolidation returns only when the work on its    *)
(* episodes is over, and it was done unless the store was closed meanwhile.  *)
WaitedIsWorked ==
    \A c \in Call : mode[c] = "waits" /\ at[c] = "returned" => c \subseteq worked \/ closed

(* However the providers behave, closeAsync and a signal close the store.    *)
ClosesAnyway ==
    \A d \in Drainer : drain[d].at \in {"draining", "drained"} ~> closed \/ exited

(* As long as the model answers, every task ends: one that failed or was     *)
(* overtaken by a close does not hold up the queue.                          *)
EveryTaskEnds ==
    WF_vars(~exited /\ Validate) =>
        \A e \in Episode : e \in pending ~> e \notin pending \/ exited
=============================================================================
