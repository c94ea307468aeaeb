------------------------------- MODULE DbSync -------------------------------
(***************************************************************************)
(* The table sync between two PostgreSQL databases: src/dbSyncEngine.js    *)
(* with the shared state of src/dbSyncState.js, the queries of             *)
(* src/dbClient.js and the handlers of server.js that drive it.            *)
(*                                                                         *)
(* An action is the code between two awaits.  A table is the set of its    *)
(* rows; how often a row stands in a destination table without a key is    *)
(* left out.  A destination table that was there before may have a key (a  *)
(* primary key or a unique index), of which it holds one row each.         *)
(* Workers take the tables in any order; the code goes by name.            *)
(***************************************************************************)
EXTENDS Integers, FiniteSets

CONSTANTS
    Tables, Rows,
    KeyOf,          \* the key of each row
    Gone,           \* no table under a name
    InitSrc,        \* possible contents of the source schema ...
    InitDst,        \* ... and of the destination schema at the beginning
    Keyed,          \* the tables of the destination that have a key
    PublicSrc,      \* the source's schema "public", when another is synced
    Configs,        \* the configurations a user starts
    NoConfig,
    Workers,        \* settings.concurrency of them
    Ready, Exited,  \* a worker at its loop test, and one that has left
    MaxEdits        \* bound: changes made to the source by others

Contents == (SUBSET Rows) \cup {Gone}

\* `tables' pass the include and exclude lists, `name' applies renameTables,
\* `inPublic' says that the source schema is "public".
Config == [tables : SUBSET Tables, name : [Tables -> Tables],
           inPublic : BOOLEAN, dry : BOOLEAN, repeats : BOOLEAN]

\* A table in a worker's hands, and the rows it has read to insert.
Task == [table : Tables, step : {"dump", "copy", "create", "insert"},
         rows : SUBSET Rows]

ASSUME DbAssumption ==
    /\ IsFiniteSet(Tables)
    /\ IsFiniteSet(Workers) /\ Workers # {}
    /\ \A S \in SUBSET Rows : Gone # S
    /\ InitSrc \subseteq [Tables -> Contents]
    /\ InitDst \subseteq [Tables -> Contents]
    /\ Keyed \subseteq Tables
    /\ \A d \in InitDst, t \in Keyed : d[t] # Gone
    /\ PublicSrc \in [Tables -> Contents]
    /\ Configs \subseteq Config /\ NoConfig \notin Configs
    /\ Ready \notin Task /\ Exited \notin Task /\ Ready # Exited
    /\ MaxEdits \in Nat

VARIABLES
    src, dst,       \* the tables of both databases
    running, stopRequested, timer, config, stats, lastFailed,  \* dbSyncState.js
    \* locals of the run in progress
    kind,           \* "sync" (startDbSync) or "retry" (retryFailedDbTables)
    phase, reason,
    pools,          \* connection pools it has not closed
    todo, work,     \* tables not yet taken, and what each worker does
    \* history and bounds
    synced,         \* tables the run has counted as synced
    fresh,          \* tables unchanged since the run read the rows to insert
    edits           \* changes made to the source so far

dbVars    == <<src, dst, edits>>
stateVars == <<running, stopRequested, timer, config, stats, lastFailed>>
runVars   == <<kind, phase, reason, pools, todo, work, synced, fresh>>
vars == <<dbVars, stateVars, runVars>>

ZeroStats == [total |-> 0, synced |-> 0, failed |-> 0, skipped |-> 0]

TypeOK ==
    /\ src \in [Tables -> Contents] /\ dst \in [Tables -> Contents]
    /\ running \in BOOLEAN /\ stopRequested \in BOOLEAN
    /\ timer \in Configs \cup {NoConfig} /\ config \in Configs \cup {NoConfig}
    /\ stats \in [total : Nat, synced : Nat, failed : Nat, skipped : Nat]
    /\ lastFailed \subseteq Tables
    /\ kind \in {"sync", "retry"}
    /\ phase \in {"idle", "list", "copy", "close"}
    /\ reason \in {"completed", "user_stopped", "fatal_error"}
    /\ pools \in 0..2
    /\ todo \subseteq Tables
    /\ work \in [Workers -> Task \cup {Ready, Exited}]
    /\ synced \subseteq Tables /\ fresh \subseteq Tables
    /\ edits \in 0..MaxEdits

Init ==
    /\ src \in InitSrc /\ dst \in InitDst /\ edits = 0
    /\ running = FALSE /\ stopRequested = FALSE
    /\ timer = NoConfig /\ config = NoConfig
    /\ stats = ZeroStats /\ lastFailed = {}
    /\ kind = "sync" /\ phase = "idle" /\ reason = "completed" /\ pools = 0
    /\ todo = {} /\ work = [w \in Workers |-> Exited]
    /\ synced = {} /\ fresh = {}

----------------------------------------------------------------------------
(* A run begins. *)

BuildPools == pools' = 2

\* resetDbStats; both pools are built before the first await.
Begins(c, k) ==
    /\ running' = TRUE /\ stopRequested' = FALSE
    /\ config' = c
    /\ lastFailed' = {}
    /\ kind' = k /\ BuildPools
    /\ synced' = {} /\ fresh' = {}
    /\ work' = [w \in Workers |-> Ready]
    /\ UNCHANGED <<dbVars, reason>>

BeginSync(c) ==
    /\ Begins(c, "sync")
    /\ stats' = ZeroStats
    /\ phase' = "list" /\ todo' = {}

\* POST /api/db/start, and POST /api/jobs/start for a job of type "db"
UserStart ==
    /\ ~running
    /\ \E c \in Configs : BeginSync(c)
    /\ UNCHANGED timer

\* Fault for the mutation runs: the timer starts a run beside the one going on.
TimerStartsAnyway ==
    /\ timer # NoConfig
    /\ timer' = NoConfig
    /\ BeginSync(timer)

\* While a run is going on startDbSync returns at once and the cycle is lost.
TimerFires ==
    /\ timer # NoConfig
    /\ timer' = NoConfig
    /\ IF running THEN UNCHANGED <<dbVars, running, stopRequested, config, stats, lastFailed, runVars>>
       ELSE BeginSync(timer)

\* POST /api/db/retry-failed: the list is reset before it is read, so there is
\* never a table to retry.
UserRetry ==
    /\ ~running
    /\ lastFailed # {}
    /\ Begins(config, "retry")
    /\ stats' = [ZeroStats EXCEPT !.total = Cardinality(lastFailed')]
    /\ phase' = "copy" /\ todo' = lastFailed'
    /\ UNCHANGED timer

----------------------------------------------------------------------------
(* Listing: the first await of runOnce. *)

Closes(r) == phase' = "close" /\ reason' = r

Listed == {t \in Tables : src[t] # Gone}

PassesFilter(t) == t \in config.tables

ListTables ==
    /\ phase = "list"
    /\ LET found == {t \in Listed : PassesFilter(t)} IN
       IF config.dry
       THEN /\ stats' = [stats EXCEPT !.total = Cardinality(found),
                                      !.synced = Cardinality(found)]
            /\ Closes("completed")
            /\ UNCHANGED todo
       ELSE /\ stats' = [stats EXCEPT !.total = Cardinality(found)]
            /\ todo' = found
            /\ phase' = "copy" /\ UNCHANGED reason
    /\ UNCHANGED <<dbVars, running, stopRequested, timer, config, lastFailed,
                   kind, pools, work, synced, fresh>>

ListFails ==
    /\ phase = "list"
    /\ Closes("fatal_error")
    /\ UNCHANGED <<dbVars, stateVars, kind, pools, todo, work, synced, fresh>>

----------------------------------------------------------------------------
(* The workers. *)

Does(w, step) == work[w] \in Task /\ work[w].step = step

DestOf(t) == IF kind = "retry" THEN t ELSE config.name[t]

\* Fault for the mutation runs: a worker looks at the stop after taking a table.
TakesUnlessStopped(w) ==
    /\ phase = "copy" /\ work[w] = Ready
    /\ IF todo = {}
       THEN work' = [work EXCEPT ![w] = Exited] /\ UNCHANGED todo
       ELSE \E t \in todo :
                /\ todo' = todo \ {t}
                /\ work' = [work EXCEPT ![w] =
                               IF stopRequested THEN Exited
                               ELSE [table |-> t, step |-> "dump", rows |-> {}]]
    /\ UNCHANGED <<dbVars, stateVars, kind, phase, reason, pools, synced, fresh>>

TakeTable(w) ==
    /\ phase = "copy" /\ work[w] = Ready
    /\ IF stopRequested \/ todo = {}
       THEN work' = [work EXCEPT ![w] = Exited] /\ UNCHANGED todo
       ELSE \E t \in todo :
                /\ todo' = todo \ {t}
                /\ work' = [work EXCEPT ![w] =
                               [table |-> t, step |-> "dump", rows |-> {}]]
    /\ UNCHANGED <<dbVars, stateVars, kind, phase, reason, pools, synced, fresh>>

Goes(w, step, rows) ==
    work' = [work EXCEPT ![w].step = step, ![w].rows = rows]

Skips(w) ==
    /\ stats' = [stats EXCEPT !.skipped = @ + 1]
    /\ work' = [work EXCEPT ![w] = Ready]

Syncs(w) ==
    /\ stats' = [stats EXCEPT !.synced = @ + 1]
    /\ synced' = synced \cup {work[w].table}
    /\ work' = [work EXCEPT ![w] = Ready]

\* Fault for the mutation runs: the destination's name is remembered.
FailsRenamed(w) ==
    /\ stats' = [stats EXCEPT !.failed = @ + 1]
    /\ lastFailed' = lastFailed \cup {DestOf(work[w].table)}
    /\ work' = [work EXCEPT ![w] = Ready]

Fails(w) ==
    /\ stats' = [stats EXCEPT !.failed = @ + 1]
    /\ lastFailed' = lastFailed \cup {work[w].table}
    /\ work' = [work EXCEPT ![w] = Ready]

WorkUnchanged ==
    UNCHANGED <<src, edits, running, stopRequested, timer, config,
                kind, phase, reason, pools, todo>>

HasRows(c) == c \notin {Gone, {}}

\* dumpTable of syncTable: it answers null for a table it cannot read.
FirstDump(w) ==
    /\ Does(w, "dump")
    /\ \/ /\ HasRows(src[work[w].table])
          /\ Goes(w, "copy", {}) /\ UNCHANGED stats
       \/ Skips(w)
    /\ WorkUnchanged /\ UNCHANGED <<dst, lastFailed, synced, fresh>>

\* dumpTable of copyTable, which always reads schema "public".
Dumped(t) == IF config.inPublic THEN src[t] ELSE PublicSrc[t]

\* Nothing read is nothing to copy, and the table counts as synced.
SecondDump(w) ==
    /\ Does(w, "copy")
    /\ LET t == work[w].table IN
       \/ /\ HasRows(Dumped(t))
          /\ Goes(w, "create", Dumped(t)) /\ UNCHANGED <<stats, synced>>
          /\ fresh' = IF config.inPublic THEN fresh \cup {t} ELSE fresh
       \/ /\ Syncs(w)
          /\ fresh' = fresh
    /\ WorkUnchanged /\ UNCHANGED <<dst, lastFailed>>

\* restoreTable: the table is created, without a key, unless it exists.
CreateTable(w) ==
    /\ Does(w, "create")
    /\ LET d == DestOf(work[w].table) IN
       dst' = IF dst[d] = Gone THEN [dst EXCEPT ![d] = {}] ELSE dst
    /\ Goes(w, "insert", work[w].rows)
    /\ WorkUnchanged /\ UNCHANGED <<stats, lastFailed, synced, fresh>>

KeysOf(rows) == {KeyOf[r] : r \in rows}

\* ON CONFLICT DO NOTHING: in a table with a key the first row of each key
\* that is not there yet goes in, in the order the source answered, and the
\* others are dropped without an error.
Additions(d, old, rows) ==
    IF d \notin Keyed THEN {rows}
    ELSE {new \in SUBSET rows :
             /\ \A r \in new : KeyOf[r] \notin KeysOf(old)
             /\ \A r, s \in new : KeyOf[r] = KeyOf[s] => r = s
             /\ KeysOf(rows) \subseteq KeysOf(old \cup new)}

Inserted(w) ==
    LET d == DestOf(work[w].table) IN
    \E new \in Additions(d, dst[d], work[w].rows) :
        dst' = [dst EXCEPT ![d] = @ \cup new]

\* BEGIN, the inserts and COMMIT: another session sees all of it or nothing.
Insert(w) ==
    /\ Does(w, "insert")
    /\ Inserted(w)
    /\ Syncs(w)
    /\ WorkUnchanged /\ UNCHANGED <<lastFailed, fresh>>

\* Fault for the mutation runs: the error ends with the ROLLBACK.
RestoreSwallowsError(w) ==
    /\ Does(w, "create") \/ Does(w, "insert")
    /\ Syncs(w)
    /\ UNCHANGED dst
    /\ WorkUnchanged /\ UNCHANGED <<lastFailed, fresh>>

\* An error before COMMIT rolls everything back; when only its answer is lost
\* the rows are there all the same.
RestoreFails(w) ==
    /\ Does(w, "create") \/ Does(w, "insert")
    /\ UNCHANGED dst \/ (Does(w, "insert") /\ Inserted(w))
    /\ Fails(w)
    /\ WorkUnchanged /\ UNCHANGED <<synced, fresh>>

\* Fault for the mutation runs: Promise.race instead of Promise.all.
FirstWorkerLeft == \E w \in Workers : work[w] = Exited

AllLeft == \A w \in Workers : work[w] = Exited

PoolEnds ==
    /\ phase = "copy" /\ AllLeft
    /\ Closes(IF stopRequested THEN "user_stopped" ELSE "completed")
    /\ UNCHANGED <<dbVars, stateVars, kind, pools, todo, work, synced, fresh>>

----------------------------------------------------------------------------
(* A run ends. *)

\* Fault for the mutation runs: an error path closes a pool that is closed again.
ClosePoolAgain ==
    /\ phase = "close"
    /\ pools' = pools - 1
    /\ UNCHANGED <<dbVars, stateVars, kind, phase, reason, todo, work, synced, fresh>>

ClosePool ==
    /\ phase = "close" /\ pools > 0
    /\ pools' = pools - 1
    /\ UNCHANGED <<dbVars, stateVars, kind, phase, reason, todo, work, synced, fresh>>

Repeats ==
    /\ reason = "completed" /\ ~stopRequested
    /\ config.repeats

\* Fault for the mutation runs: the error of a listing is not caught.
RunEndsUnlessFailed ==
    /\ phase = "close" /\ pools = 0 /\ kind = "sync" /\ reason # "fatal_error"
    /\ running' = FALSE /\ phase' = "idle"
    /\ timer' = IF Repeats THEN config ELSE timer
    /\ UNCHANGED <<dbVars, stopRequested, config, stats, lastFailed,
                   kind, reason, pools, todo, work, synced, fresh>>

\* The rest of startDbSync.
RunEnds ==
    /\ phase = "close" /\ pools = 0 /\ kind = "sync"
    /\ running' = FALSE /\ phase' = "idle"
    /\ timer' = IF Repeats THEN config ELSE timer
    /\ UNCHANGED <<dbVars, stopRequested, config, stats, lastFailed,
                   kind, reason, pools, todo, work, synced, fresh>>

\* The rest of retryFailedDbTables, which looks at the stop once more and arms
\* no timer.
RetryEnds ==
    /\ phase = "close" /\ pools = 0 /\ kind = "retry"
    /\ running' = FALSE /\ phase' = "idle"
    /\ reason' = IF stopRequested THEN "user_stopped" ELSE "completed"
    /\ UNCHANGED <<dbVars, stopRequested, timer, config, stats, lastFailed,
                   kind, pools, todo, work, synced, fresh>>

\* POST /api/db/stop
UserStop ==
    /\ timer' = NoConfig
    /\ stopRequested' = (stopRequested \/ running)
    /\ UNCHANGED <<dbVars, running, config, stats, lastFailed, runVars>>

\* SIGTERM, SIGINT: the timer is left alone.
Shutdown ==
    /\ running
    /\ stopRequested' = TRUE
    /\ UNCHANGED <<dbVars, running, timer, config, stats, lastFailed, runVars>>

\* The process ends, its transactions are rolled back, and it is started again.
Restart ==
    /\ running' = FALSE /\ stopRequested' = FALSE
    /\ timer' = NoConfig /\ config' = NoConfig
    /\ stats' = ZeroStats /\ lastFailed' = {}
    /\ kind' = "sync" /\ phase' = "idle" /\ reason' = "completed" /\ pools' = 0
    /\ todo' = {} /\ work' = [w \in Workers |-> Exited]
    /\ synced' = {} /\ fresh' = {}
    /\ UNCHANGED dbVars

\* Another program writes a table of the source, creates or drops it.
EditSource(t) ==
    /\ edits < MaxEdits
    /\ edits' = edits + 1
    /\ \E c \in Contents \ {src[t]} : src' = [src EXCEPT ![t] = c]
    /\ fresh' = fresh \ {t}
    /\ UNCHANGED <<dst, stateVars, kind, phase, reason, pools, todo, work, synced>>

RunSteps == ListTables \/ ListFails \/ PoolEnds \/ ClosePool \/ RunEnds \/ RetryEnds

WorkerSteps(w) ==
    \/ TakeTable(w) \/ FirstDump(w) \/ SecondDump(w)
    \/ CreateTable(w) \/ Insert(w) \/ RestoreFails(w)

Next ==
    \/ UserStart \/ UserRetry \/ TimerFires \/ UserStop \/ Shutdown \/ Restart
    \/ RunSteps
    \/ \E w \in Workers : WorkerSteps(w)
    \/ \E t \in Tables : EditSource(t)

Spec == Init /\ [][Next]_vars

\* The databases answer, with a result or an error, and the event loop goes on.
FairSpec ==
    /\ Spec
    /\ WF_vars(RunSteps)
    /\ \A w \in Workers : WF_vars(WorkerSteps(w))

----------------------------------------------------------------------------
(* Properties *)

InHand == {w \in Workers : work[w] \in Task}

\* While tables are copied, every listed one is to do, in one worker's hands or
\* counted once; after a run that was not stopped all are counted.
StatsAddUp ==
    LET counted == stats.synced + stats.failed + stats.skipped IN
    /\ phase \in {"copy", "close", "idle"} =>
           stats.total = counted + Cardinality(todo) + Cardinality(InHand)
    /\ phase \in {"close", "idle"} /\ reason = "completed" =>
           stats.total = counted

\* The failures that are counted are the tables remembered for a retry, until
\* the next run begins.
FailuresRemembered == stats.failed = Cardinality(lastFailed)

\* When a run is over no pool is open and no worker is at work: the next run
\* never meets a table or a connection of the last one.
NothingOutlivesRun ==
    /\ ~running => pools = 0
    /\ phase # "copy" => InHand = {}

\* Row r is in table d of the destination, or kept out by a row of its key.
Represented(r, d) ==
    \/ r \in dst[d]
    \/ d \in Keyed /\ KeyOf[r] \in KeysOf(dst[d])

CopiedTo(t) ==
    LET d == DestOf(t) IN
    HasRows(src[t]) => dst[d] # Gone /\ \A r \in src[t] : Represented(r, d)

\* No row is lost but to a row of its key: a table counted as synced, whose
\* rows were read from the configured schema and have not changed since, has
\* each of them at the destination, unless the destination table has a key
\* and a row with that of the one that is missing; although tables that were
\* renamed to one name are written at the same time.
SyncedIsCopied == \A t \in synced \cap fresh : CopiedTo(t)

modeBar == IF ~running THEN "idle" ELSE IF stopRequested THEN "stopping" ELSE "running"

Control == INSTANCE SyncControl WITH mode <- modeBar, armed <- timer # NoConfig

\* The table sync keeps the promises of the S3 sync: one run at a time, begun
\* by the user or by the timer of a completed run, and none after a stop.
ControlSpec == Control!Spec

\* Whatever fails, is stopped or lost, a run ends and the next can begin.
RunEventuallyEnds == running ~> ~running

\* README: "Retry failed tables"; a retry handles the tables that had failed.
RetryHandlesFailures ==
    [][UserRetry => todo' = lastFailed]_vars

----------------------------------------------------------------------------
(* The inductive invariant behind the safety properties. *)

\* Phase, `running' and configuration agree; a retry has no table to copy, and
\* while the tables are listed nothing is counted or read.
PhaseInv ==
    /\ running <=> phase # "idle"
    /\ running /\ kind = "sync" => config \in Configs
    /\ kind = "retry" => todo = {} /\ InHand = {} /\ phase # "list"
    /\ phase = "list" =>
           /\ todo = {} /\ stats = ZeroStats
           /\ lastFailed = {} /\ synced = {} /\ fresh = {}

\* A table is to do, in the hands of one worker, or it has failed or is synced.
TakenOnce ==
    /\ todo \cap (lastFailed \cup synced) = {}
    /\ \A w \in InHand : work[w].table \notin todo \cup lastFailed \cup synced
    /\ \A v, w \in InHand : v # w => work[v].table # work[w].table

\* A worker leaves tables behind only after a stop.
LeftBehind ==
    /\ phase = "list" => \A w \in Workers : work[w] # Exited
    /\ phase = "copy" /\ ~stopRequested =>
           todo = {} \/ \A w \in Workers : work[w] # Exited
    /\ phase \in {"close", "idle"} /\ reason = "completed" => todo = {}

CountInv ==
    /\ stats.total = stats.synced + stats.failed + stats.skipped
                       + Cardinality(todo) + Cardinality(InHand)
    /\ FailuresRemembered

\* While its table is unchanged a worker inserts what is in it; the table it
\* inserts into is there.
RowsRight(w) ==
    /\ work[w].table \in fresh =>
           work[w].step \in {"create", "insert"} /\ work[w].rows = src[work[w].table]
    /\ work[w].step = "insert" => dst[DestOf(work[w].table)] # Gone

RowsInv == todo \cap fresh = {} /\ \A w \in InHand : RowsRight(w)

DbInv ==
    /\ TypeOK /\ PhaseInv /\ NothingOutlivesRun /\ TakenOnce
    /\ LeftBehind /\ CountInv /\ RowsInv /\ SyncedIsCopied
=============================================================================
