------------------------------- MODULE Store --------------------------------
(* The database of memories and its vector index (db.ts, migrate.ts and the  *)
(* parts of audrey.ts and encode.ts that keep them together).                *)
(*                                                                           *)
(* A row holds its embedding; the index holds a copy of it, and recall finds *)
(* only what is in the index.  The two are written in one transaction, except *)
(* when a process opens a store whose vectors have another size: it drops    *)
(* the index and fills it again from the rows, in steps that other processes *)
(* see, that a kill can cut short and that no lock keeps from overlapping    *)
(* those of another opening.  What is left to fill is told by two marks: the *)
(* highest row already copied, and the size of each stored embedding.        *)
(* One table stands for the three (episodes, semantics, procedures): each    *)
(* has its own index and mark, and they are treated alike.                   *)
EXTENDS Integers

CONSTANTS
    Row,        \* the ids that memories get, in this order
    Old,        \* processes started before the embedding provider changed
    New,        \* processes started after it: hooks, servers, CLI commands
    Cli,        \* those of New that run the reembed command
    None,       \* no row yet, no table
    StartMark,  \* the mark at the start, of a row purged since
    MaxKills,   \* bound: how often a process is killed
    Gone        \* a purged row: its id never comes back

Size == {"old", "new"}
Standing == [rowid : Nat \ {0}, dim : Size, live : BOOLEAN]

ASSUME StoreConstants ==
    /\ Old \cap New = {} /\ Cli \subseteq New
    /\ Row \subseteq Nat
    /\ MaxKills \in Nat /\ StartMark \in Nat
    /\ {None, Gone} \cap Size = {}
    /\ None \notin Row /\ None # Gone /\ {None, Gone} \cap Standing = {}

VARIABLES
    row,      \* the memories: place in the table, size of embedding, standing
    index,    \* the ids in the vector table
    table,    \* the size the vector table was created with, None without one
    dims,     \* audrey_config.dimensions
    mark,     \* audrey_config.vec_sync_rowid_*
    pc,       \* where a process is: in createDatabase, open or closed
    scan,     \* what migrateTable has read: the mark, the last row, rows to copy
    pending,  \* _migrationPending
    reading,  \* the snapshots of the reembedAll calls that await their vectors
    kills,    \* how many processes have been killed
    misled    \* history: the tables hold what a stale opening wrote

store == <<row, index, table, dims, mark>>
vars == <<store, pc, scan, pending, reading, kills, misled>>

Process == Old \cup New
Dim(p) == IF p \in Old THEN "old" ELSE "new"

Present == {e \in Row : row[e] \notin {None, Gone}}
Live == {e \in Present : row[e].live}

(* SQLite gives a new row the highest rowid plus one.                        *)
Tops == {t \in {0} \cup {row[e].rowid : e \in Present} :
            \A e \in Present : row[e].rowid <= t}

Opening == {"drop", "update", "create", "scan", "select", "copy", "mark"}

(* misfit: some rows to copy have another size.  stale is history: a process *)
(* dropped the tables after this one had read of them.                       *)
Scan == [from : Nat, top : Nat, copy : SUBSET Row, misfit : BOOLEAN, stale : BOOLEAN]
NoScan == [from |-> 0, top |-> 0, copy |-> {}, misfit |-> FALSE, stale |-> FALSE]

TypeOK ==
    /\ row \in [Row -> Standing \cup {None, Gone}]
    /\ index \in SUBSET Row
    /\ table \in Size \cup {None}
    /\ dims \in Size
    /\ mark \in Nat
    /\ pc \in [Process -> Opening \cup {"closed", "recreate", "open"}]
    /\ scan \in [Process -> Scan]
    /\ pending \in [Process -> BOOLEAN]
    /\ reading \in [Process -> SUBSET SUBSET Row]
    /\ kills \in 0..MaxKills
    /\ misled \in BOOLEAN

(* A store that old processes have open, or are about to: those have found   *)
(* the size that they expect.                                                *)
Init ==
    /\ row = [e \in Row |-> None]
    /\ index = {}
    /\ table = "old"
    /\ dims = "old"
    /\ mark = StartMark
    /\ pc \in [Process -> {"create", "scan", "open", "closed"}]
    /\ \A p \in Process : pc[p] = "closed" <=> p \in New
    /\ scan = [p \in Process |-> NoScan]
    /\ pending = [p \in Process |-> FALSE]
    /\ reading = [p \in Process |-> {}]
    /\ kills = 0
    /\ misled = FALSE

Goto(p, l) == pc' = [pc EXCEPT ![p] = l]
-----------------------------------------------------------------------------
(* createDatabase.  Each step is one statement or one transaction.           *)

(* The size the store was written with is compared with the process' own.    *)
Open(p) ==
    /\ p \in New /\ pc[p] = "closed"
    /\ Goto(p, IF dims # Dim(p) THEN "drop" ELSE "create")
    /\ UNCHANGED <<store, scan, pending, reading, misled>>

(* Processes that act on what they have read, which dropping the tables      *)
(* makes stale.                                                              *)
Overtaken(p) == {q \in Process : \/ pc[q] \in {"select", "copy", "mark"}
                                 \/ pc[q] = "create" /\ Dim(q) # Dim(p)}

Drop(p) ==
    /\ table' = None /\ index' = {}
    /\ scan' = [q \in Process |-> IF q \in Overtaken(p)
                                  THEN [scan[q] EXCEPT !.stale = TRUE] ELSE scan[q]]
    /\ misled' = FALSE

DropTablesKeepMarks(p) ==
    /\ pc[p] = "drop"
    /\ Drop(p)
    /\ pending' = [pending EXCEPT ![p] = TRUE]
    /\ Goto(p, "update")
    /\ UNCHANGED <<row, dims, mark, reading>>

(* The vector tables are dropped, and the marks with them, in a transaction. *)
DropTables(p) ==
    /\ pc[p] = "drop"
    /\ Drop(p) /\ mark' = 0
    /\ pending' = [pending EXCEPT ![p] = TRUE]
    /\ Goto(p, "update")
    /\ UNCHANGED <<row, dims, reading>>

UpdateDimensions(p) ==
    /\ pc[p] = "update"
    /\ dims' = Dim(p)
    /\ Goto(p, "create")
    /\ UNCHANGED <<row, index, table, mark, scan, pending, reading, misled>>

Created(p) == IF table = None THEN Dim(p) ELSE table

CreateTables(p) ==
    /\ pc[p] = "create"
    /\ table' = Created(p)
    /\ misled' = (misled \/ (table = None /\ scan[p].stale))
    /\ Goto(p, IF pending[p] THEN "open" ELSE "scan")
    /\ UNCHANGED <<row, index, dims, mark, scan, pending, reading>>

(* migrateTable reads the mark and the highest row, and is done when no row  *)
(* lies above the mark.                                                      *)
ReadMark(p) ==
    /\ pc[p] = "scan"
    /\ \E top \in Tops :
         IF top <= mark
         THEN Goto(p, "open") /\ scan' = [scan EXCEPT ![p] = NoScan]
         ELSE /\ Goto(p, "select")
              /\ scan' = [scan EXCEPT ![p] = [NoScan EXCEPT !.from = mark, !.top = top]]
    /\ UNCHANGED <<store, pending, reading, misled>>

Exit(p) ==
    /\ Goto(p, "closed")
    /\ scan' = [scan EXCEPT ![p] = NoScan]
    /\ pending' = [pending EXCEPT ![p] = FALSE]
    /\ reading' = [reading EXCEPT ![p] = {}]

Leave(p) == Exit(p) /\ UNCHANGED <<store, misled>>

Missing(p) == {e \in Present : row[e].rowid > scan[p].from /\ e \notin index}
Fits(p, E) == {e \in E : row[e].dim = Dim(p)}

SelectRows(p) ==
    /\ pc[p] = "select"
    /\ table # None
    /\ Goto(p, "copy")
    /\ scan' = [scan EXCEPT ![p] =
                   [@ EXCEPT !.copy = Fits(p, Missing(p)),
                             !.misfit = Fits(p, Missing(p)) # Missing(p),
                             !.from = 0]]
    /\ UNCHANGED <<store, pending, reading, misled>>

(* The rows are inserted in one transaction, which fails as a whole when the *)
(* table is gone or has another size by now, or another process has inserted *)
(* one of them.                                                              *)
Insertable(p) ==
    LET copy == scan[p].copy
    IN  \/ copy = {} /\ (scan[p].misfit => table # None)
        \/ table = Dim(p) /\ copy \cap index = {}

CopyRowsSkipMisfits(p) ==
    /\ pc[p] = "copy"
    /\ Insertable(p)
    /\ index' = index \cup scan[p].copy
    /\ Goto(p, IF scan[p].misfit THEN "open" ELSE "mark")
    /\ UNCHANGED <<row, table, dims, mark, scan, pending, reading, misled>>

CopyRows(p) ==
    /\ pc[p] = "copy"
    /\ Insertable(p)
    /\ index' = index \cup scan[p].copy
    /\ misled' = (misled \/ (scan[p].copy # {} /\ scan[p].stale))
    /\ Goto(p, IF scan[p].misfit THEN "open" ELSE "mark")
    /\ pending' = [pending EXCEPT ![p] = scan[p].misfit]
    /\ scan' = [scan EXCEPT ![p] = IF @.misfit THEN [NoScan EXCEPT !.misfit = TRUE]
                                   ELSE [@ EXCEPT !.copy = {}]]
    /\ UNCHANGED <<row, table, dims, mark, reading>>

(* The constructor throws: the process has not opened the store.             *)
OpenFails(p) ==
    /\ \/ pc[p] \in {"scan", "select"} /\ table = None
       \/ pc[p] = "copy" /\ ~Insertable(p)
    /\ Leave(p)

WriteMark(p) ==
    /\ pc[p] = "mark"
    /\ mark' = scan[p].top
    /\ misled' = (misled \/ scan[p].stale)
    /\ scan' = [scan EXCEPT ![p] = NoScan]
    /\ Goto(p, "open")
    /\ UNCHANGED <<row, index, table, dims, pending, reading>>
-----------------------------------------------------------------------------
(* reembedAll, from _ensureMigrated or from the reembed command.             *)

(* The command drops and recreates the tables once more when the size had    *)
(* changed, which is also when its opening dropped them and read no mark.    *)
RecreateDrop(p) ==
    /\ p \in Cli /\ pc[p] = "open" /\ pending[p]
    /\ ~scan[p].misfit /\ reading[p] = {}
    /\ Drop(p) /\ mark' = 0
    /\ Goto(p, "recreate")
    /\ UNCHANGED <<row, dims, pending, reading>>

Snapshot(p) == reading' = [reading EXCEPT ![p] = @ \cup {Present}]

RecreateTables(p) ==
    /\ pc[p] = "recreate"
    /\ table' = Created(p)
    /\ Snapshot(p)
    /\ Goto(p, "open")
    /\ UNCHANGED <<row, index, dims, mark, scan, pending, misled>>

(* Every call that finds a migration pending starts one: they are not joined. *)
(* The command makes its one call in any case.                               *)
ReembedRead(p) ==
    /\ pc[p] = "open"
    /\ IF p \in Cli
       THEN reading[p] = {} /\ ~(pending[p] /\ ~scan[p].misfit)
       ELSE pending[p]
    /\ Snapshot(p)
    /\ UNCHANGED <<store, pc, scan, pending, misled>>

(* The call returns: it was all that the command had to do.                  *)
Return(p, read) ==
    IF p \in Cli
    THEN Exit(p)
    ELSE /\ pending' = [pending EXCEPT ![p] = FALSE]
         /\ reading' = [reading EXCEPT ![p] = @ \ {read}]
         /\ UNCHANGED <<pc, scan>>

ReembedWriteIndexOnly(p) == \E read \in reading[p] :
    /\ pc[p] = "open" /\ table = Dim(p)
    /\ index' = index \cup read
    /\ Return(p, read)
    /\ UNCHANGED <<row, table, dims, mark, misled>>

(* All rows that were read get a vector and an index row, gone or not.       *)
ReembedWrite(p) == \E read \in reading[p] :
    /\ pc[p] = "open"
    /\ table # None
    /\ read # {} => table = Dim(p)
    /\ row' = [e \in Row |-> IF e \in read \cap Present
                             THEN [row[e] EXCEPT !.dim = Dim(p)] ELSE row[e]]
    /\ index' = index \cup read
    /\ Return(p, read)
    /\ UNCHANGED <<table, dims, mark, misled>>

(* The provider fails, or the transaction does: the call throws and the      *)
(* migration stays pending.                                                  *)
ReembedFail(p) == \E read \in reading[p] :
    IF p \in Cli
    THEN Leave(p)
    ELSE /\ reading' = [reading EXCEPT ![p] = @ \ {read}]
         /\ UNCHANGED <<store, pc, scan, pending, misled>>
-----------------------------------------------------------------------------
(* What an open process does with the rows; the command leaves them alone.   *)

Ready(p) == pc[p] = "open" /\ p \notin Cli /\ table # None

Superseding(s) ==
    IF s = None THEN row ELSE [row EXCEPT ![s].live = FALSE]

(* encodeEpisode, once the embedding is there: the row, its index row and    *)
(* the mark on the row it supersedes are one transaction.                    *)
Encode(p, e, s) ==
    /\ Ready(p) /\ ~pending[p] /\ table = Dim(p)
    /\ row[e] = None /\ \A f \in Row : f < e => row[f] # None
    /\ s \in Present \cup {None}
    /\ \E top \in Tops :
         row' = [Superseding(s) EXCEPT
                   ![e] = [rowid |-> top + 1, dim |-> Dim(p), live |-> TRUE]]
    /\ index' = index \cup {e}
    /\ UNCHANGED <<table, dims, mark, pc, scan, pending, reading, misled>>

Forget(p, e) ==
    /\ Ready(p) /\ e \in Present
    /\ row' = [row EXCEPT ![e].live = FALSE]
    /\ index' = index \ {e}
    /\ UNCHANGED <<table, dims, mark, pc, scan, pending, reading, misled>>

Purge(p, e) ==
    /\ Ready(p) /\ e \in Present
    /\ row' = [row EXCEPT ![e] = Gone]
    /\ index' = index \ {e}
    /\ UNCHANGED <<table, dims, mark, pc, scan, pending, reading, misled>>

(* A process closes the store, and a call it left in flight fails, which is  *)
(* also all there is to see of one that is killed by then; or it is killed   *)
(* before.  All it leaves is what it has written.                            *)
Close(p) ==
    /\ pc[p] = "open"
    /\ Leave(p)

Kill(p) ==
    /\ pc[p] \notin {"open", "closed"} /\ kills < MaxKills
    /\ kills' = kills + 1
    /\ Leave(p)
-----------------------------------------------------------------------------
(* What a process that is started goes on to do.                             *)
Continue(p) ==
    \/ DropTables(p) \/ UpdateDimensions(p) \/ CreateTables(p)
    \/ ReadMark(p) \/ SelectRows(p) \/ CopyRows(p) \/ OpenFails(p)
    \/ WriteMark(p) \/ RecreateTables(p)
    \/ ReembedWrite(p) \/ ReembedFail(p)

Step(p) ==
    \/ Open(p) \/ Continue(p) \/ Close(p) \/ RecreateDrop(p)
    \/ ReembedRead(p)
    \/ \E e \in Row : Forget(p, e) \/ Purge(p, e)
    \/ \E e \in Row, s \in Row \cup {None} : Encode(p, e, s)

Next == \E p \in Process : (Step(p) /\ UNCHANGED kills) \/ Kill(p)

(* A process that is opening the store goes on.  Hooks come and go, and make *)
(* calls that start a migration that is pending; the provider does not fail  *)
(* every time, nor does another opening insert a row first every time.       *)
(* Nothing is assumed of the reembed command.                                *)
Fairness ==
    /\ \A p \in New : WF_vars(Continue(p) /\ UNCHANGED kills)
    /\ \A p \in New \ Cli :
         /\ SF_vars(Open(p) /\ UNCHANGED kills)
         /\ SF_vars(CopyRows(p) /\ UNCHANGED kills)
         /\ WF_vars(Close(p) /\ UNCHANGED kills)
         /\ SF_vars(ReembedRead(p) /\ UNCHANGED kills)
         /\ SF_vars(ReembedWrite(p) /\ UNCHANGED kills)

Spec == Init /\ [][Next]_vars
FairSpec == Spec /\ Fairness
-----------------------------------------------------------------------------
(* A memory that the index lost is one the next process to open the store    *)
(* will see: migrateTable looks only above the mark.  dropVec0Tables clears  *)
(* the marks so that none claims rows that are not there ("would be a lie",  *)
(* db.ts:303); but an opening that read them before may still write one.     *)
UnindexedIsAboveMark ==
    \A e \in Live : e \in index \/ row[e].rowid > mark

(* Only such an opening makes the mark lie: no kill, failed copy, refused    *)
(* size, re-embedding, purge or overlap of another kind hides a memory below *)
(* it.                                                                       *)
NothingSkipped == ~misled => UnindexedIsAboveMark

(* The vector that recall compares and the embedding kept with the row have  *)
(* the same size, so that an index can always be filled from the rows: calls *)
(* of reembedAll that overlap each other and other openings keep them so,    *)
(* unless a row copied from before the tables were dropped gets in.          *)
IndexFitsTable ==
    ~misled => \A e \in index \cap Present : row[e].dim = table

(* The memories come back into the index after a change of provider,         *)
(* whichever step of opening or re-embedding was cut short or overlapped     *)
(* another, unless what a stale opening wrote stays: with a mark that is too *)
(* high or a table of the old size, memories may be lost for good.           *)
EventuallySearchable ==
    <>[]~misled => []<>(Live \subseteq index)
=============================================================================
