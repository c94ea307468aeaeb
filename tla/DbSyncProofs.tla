---------------------------- MODULE DbSyncProofs ----------------------------
(***************************************************************************)
(* Theorems about the table sync, for every number of tables, rows,        *)
(* workers and configurations.  One inductive invariant, DbInv, carries    *)
(* them all: its parts are shown in the order in which they need each      *)
(* other, each step by step.                                               *)
(***************************************************************************)
EXTENDS DbSync, FiniteSetTheorems, TLAPS

RunOK == TypeOK /\ PhaseInv /\ NothingOutlivesRun

-----------------------------------------------------------------------------
(* Tables in hand. *)

(***************************************************************************)
(* A table in hand is one of a sync that is copying.                       *)
(***************************************************************************)
LEMMA InHandMeans ==
    ASSUME RunOK, NEW w \in Workers, work[w] \in Task
    PROVE  /\ w \in InHand
           /\ phase = "copy" /\ running /\ kind = "sync" /\ config \in Configs
           /\ work[w].table \in Tables /\ work[w].rows \in SUBSET Rows
           /\ DestOf(work[w].table) \in Tables
<1>1. w \in InHand
  BY DEF InHand
<1>2. phase = "copy" /\ running /\ kind = "sync" /\ config \in Configs
  BY <1>1 DEF RunOK, PhaseInv, NothingOutlivesRun, TypeOK
<1>3. work[w].table \in Tables /\ work[w].rows \in SUBSET Rows
  BY DEF Task
<1>4. config.name \in [Tables -> Tables]
  BY <1>2, DbAssumption DEF Config
<1>5. QED
  BY <1>1, <1>2, <1>3, <1>4 DEF DestOf

(***************************************************************************)
(* A worker takes a table, goes a step further with it, or is done.        *)
(***************************************************************************)
LEMMA HandTakes ==
    ASSUME TypeOK, NEW w \in Workers, work[w] \notin Task, NEW k \in Task,
           work' = [work EXCEPT ![w] = k]
    PROVE  /\ w \notin InHand /\ InHand' = InHand \cup {w}
           /\ work'[w] = k /\ \A v \in Workers : v # w => work'[v] = work[v]
  BY DEF TypeOK, InHand

LEMMA HandLeaves ==
    ASSUME TypeOK, NEW w \in Workers, NEW k \in {Ready, Exited},
           work' = [work EXCEPT ![w] = k]
    PROVE  /\ InHand' = InHand \ {w}
           /\ work'[w] = k /\ \A v \in Workers : v # w => work'[v] = work[v]
  BY DbAssumption DEF TypeOK, InHand

LEMMA HandStays ==
    ASSUME TypeOK, NEW w \in Workers, work[w] \in Task,
           NEW step \in {"dump", "copy", "create", "insert"}, NEW rows \in SUBSET Rows,
           Goes(w, step, rows)
    PROVE  /\ InHand' = InHand /\ work' \in [Workers -> Task \cup {Ready, Exited}]
           /\ work'[w] \in Task /\ work'[w].table = work[w].table
           /\ work'[w].step = step /\ work'[w].rows = rows
           /\ \A v \in Workers : v # w => work'[v] = work[v]
<1>1. /\ work'[w] \in Task /\ work'[w].table = work[w].table
      /\ work'[w].step = step /\ work'[w].rows = rows
  BY DEF Goes, TypeOK, Task
<1>2. /\ DOMAIN work' = Workers
      /\ \A v \in Workers : v # w => work'[v] = work[v]
  BY DEF Goes, TypeOK
<1>3. work' = [v \in Workers |-> work'[v]]
  BY DEF Goes, TypeOK
<1>4. work' \in [Workers -> Task \cup {Ready, Exited}]
  BY <1>1, <1>2, <1>3 DEF TypeOK
<1>5. QED
  BY <1>1, <1>2, <1>4 DEF InHand

LEMMA Finite ==
    ASSUME NEW S, S \subseteq Tables \/ S \subseteq Workers
    PROVE  IsFiniteSet(S) /\ Cardinality(S) \in Nat
  BY DbAssumption, FS_Subset, FS_CardinalityType

-----------------------------------------------------------------------------
(* Types. *)

StatsType == [total : Nat, synced : Nat, failed : Nat, skipped : Nat]

LEMMA StatsCount ==
    ASSUME NEW s \in StatsType
    PROVE  /\ [s EXCEPT !.synced = @ + 1] \in StatsType
           /\ [s EXCEPT !.failed = @ + 1] \in StatsType
           /\ [s EXCEPT !.skipped = @ + 1] \in StatsType
           /\ \A n \in Nat : /\ [s EXCEPT !.total = n] \in StatsType
                             /\ [s EXCEPT !.total = n, !.synced = n] \in StatsType
<1>1. /\ [s EXCEPT !.synced = @ + 1] \in StatsType
      /\ [s EXCEPT !.failed = @ + 1] \in StatsType
      /\ [s EXCEPT !.skipped = @ + 1] \in StatsType
  BY DEF StatsType
<1>2. ASSUME NEW n \in Nat
      PROVE  /\ [s EXCEPT !.total = n] \in StatsType
             /\ [s EXCEPT !.total = n, !.synced = n] \in StatsType
  BY DEF StatsType
<1>3. QED
  BY <1>1, <1>2

\* Row r is represented in table d when the step is over.
Lands(r, d) ==
    \/ r \in dst'[d]
    \/ d \in Keyed /\ KeyOf[r] \in KeysOf(dst'[d])

(***************************************************************************)
(* Rows are added to a table that is there, and none is lost but to a row  *)
(* of its key.                                                             *)
(***************************************************************************)
LEMMA InsertedType ==
    ASSUME RunOK, NEW w \in Workers, work[w] \in Task, Inserted(w),
           dst[DestOf(work[w].table)] # Gone
    PROVE  /\ dst' \in [Tables -> Contents]
           /\ \A d \in Tables : dst[d] # Gone => dst'[d] # Gone /\ dst[d] \subseteq dst'[d]
           /\ \A r \in work[w].rows : Lands(r, DestOf(work[w].table))
<1> DEFINE e == DestOf(work[w].table)
<1>1. e \in Tables /\ work[w].rows \in SUBSET Rows /\ dst \in [Tables -> Contents]
  BY InHandMeans DEF RunOK, TypeOK
<1>2. PICK new \in Additions(e, dst[e], work[w].rows) :
          dst' = [dst EXCEPT ![e] = dst[e] \cup new]
  BY DEF Inserted
<1>3. /\ new \subseteq work[w].rows
      /\ \A r \in work[w].rows :
             \/ r \in dst[e] \cup new
             \/ e \in Keyed /\ KeyOf[r] \in KeysOf(dst[e] \cup new)
  BY <1>2 DEF Additions, KeysOf
<1>4. dst[e] \in SUBSET Rows
  BY <1>1 DEF Contents
<1>5. dst[e] \cup new \in SUBSET Rows
  BY <1>1, <1>3, <1>4
<1>6. dst[e] \cup new # Gone
  BY <1>5, DbAssumption
<1> HIDE DEF e
<1>7. /\ dst' \in [Tables -> Contents] /\ dst'[e] = dst[e] \cup new
      /\ \A d \in Tables : d # e => dst'[d] = dst[d]
  BY <1>1, <1>2, <1>5 DEF Contents
<1>8. \A r \in work[w].rows : Lands(r, e)
  BY <1>3, <1>7 DEF Lands
<1>9. QED
  BY <1>6, <1>7, <1>8 DEF e

(***************************************************************************)
(* A created table is there, and what was there stays.                     *)
(***************************************************************************)
LEMMA CreatedType ==
    ASSUME RunOK, NEW w \in Workers, CreateTable(w)
    PROVE  /\ dst' \in [Tables -> Contents]
           /\ dst'[DestOf(work[w].table)] # Gone
           /\ \A d \in Tables : dst[d] # Gone => dst'[d] = dst[d]
<1>1. work[w] \in Task
  BY DEF CreateTable, Does
<1>2. DestOf(work[w].table) \in Tables
  BY <1>1, InHandMeans
<1>3. {} \in Contents /\ {} # Gone
  BY DbAssumption DEF Contents
<1>4. QED
  BY <1>2, <1>3 DEF CreateTable, RunOK, TypeOK

\* Both pools are open, and nothing is listed, in hand or failed.
BeginsMeans(c, k) ==
    /\ src' = src /\ dst' = dst /\ edits' = edits /\ reason' = reason
    /\ running' = TRUE /\ stopRequested' = FALSE /\ config' = c /\ lastFailed' = {}
    /\ kind' = k /\ pools' = 2 /\ synced' = {} /\ fresh' = {}
    /\ work' \in [Workers -> Task \cup {Ready, Exited}]
    /\ InHand' = {} /\ \A w \in Workers : work'[w] = Ready

LEMMA BeginsTypes ==
    ASSUME NEW c, NEW k, Begins(c, k)
    PROVE  BeginsMeans(c, k)
  BY DbAssumption DEF BeginsMeans, Begins, BuildPools, dbVars, InHand

LEMMA ZeroStatsType ==
    /\ ZeroStats \in StatsType
    /\ Cardinality({}) = 0
    /\ [ZeroStats EXCEPT !.total = 0] = ZeroStats
<1>1. Cardinality({}) = 0
  BY FS_EmptySet
<1>2. QED
  BY <1>1 DEF ZeroStats, StatsType

(***************************************************************************)
(* A retry has nothing to do: its list is empty when it is read.           *)
(***************************************************************************)
LEMMA RetryBegins ==
    ASSUME TypeOK, UserRetry
    PROVE  /\ Begins(config, "retry") /\ todo' = {} /\ stats' = ZeroStats /\ phase' = "copy"
           /\ ~running /\ timer' = timer
  BY ZeroStatsType DEF UserRetry, Begins

LEMMA SyncBegins ==
    ASSUME TypeOK, NEW c \in Configs, BeginSync(c)
    PROVE  Begins(c, "sync") /\ todo' = {} /\ stats' = ZeroStats /\ phase' = "list"
  BY DEF BeginSync

(***************************************************************************)
(* What a worker does to its own table and to the counters.                *)
(***************************************************************************)
LEMMA WorkerTypes ==
    ASSUME RunOK, RowsInv, NEW w \in Workers,
           FirstDump(w) \/ SecondDump(w) \/ CreateTable(w) \/ Insert(w) \/ RestoreFails(w)
    PROVE  /\ work[w] \in Task
           /\ work' \in [Workers -> Task \cup {Ready, Exited}]
           /\ \A v \in Workers : v # w => work'[v] = work[v]
           /\ stats' \in StatsType /\ dst' \in [Tables -> Contents]
           /\ lastFailed' \subseteq Tables /\ synced' \subseteq Tables /\ fresh' \subseteq Tables
<1> USE DEF StatsType
<1>1. work[w] \in Task
  BY DEF FirstDump, SecondDump, CreateTable, Insert, RestoreFails, Does
<1>2. /\ work[w].table \in Tables /\ work[w].rows \in SUBSET Rows
      /\ w \in InHand
  BY <1>1, InHandMeans
<1>3. TypeOK /\ stats \in StatsType /\ dst \in [Tables -> Contents]
      /\ lastFailed \subseteq Tables /\ synced \subseteq Tables /\ fresh \subseteq Tables
  BY DEF RunOK, TypeOK
<1>4. ASSUME work' = [work EXCEPT ![w] = Ready]
      PROVE  /\ work' \in [Workers -> Task \cup {Ready, Exited}]
             /\ \A v \in Workers : v # w => work'[v] = work[v]
  BY <1>3, <1>4 DEF TypeOK
<1>5. CASE FirstDump(w)
  <2>1. CASE Goes(w, "copy", {}) /\ UNCHANGED stats
    BY <1>1, <1>3, <1>5, <2>1, HandStays DEF FirstDump
  <2>2. CASE Skips(w)
    BY <1>1, <1>3, <1>4, <1>5, <2>2, StatsCount DEF FirstDump, Skips
  <2>3. QED
    BY <1>5, <2>1, <2>2 DEF FirstDump
<1>6. CASE SecondDump(w)
  <2> DEFINE t == work[w].table
  <2>1. /\ UNCHANGED <<dst, lastFailed>>
        /\ \/ /\ HasRows(Dumped(t))
              /\ Goes(w, "create", Dumped(t)) /\ UNCHANGED <<stats, synced>>
              /\ fresh' = IF config.inPublic THEN fresh \cup {t} ELSE fresh
           \/ Syncs(w) /\ fresh' = fresh
    BY <1>6 DEF SecondDump
  <2>2. Dumped(t) \in Contents
    BY <1>2, <1>3, DbAssumption DEF Dumped, TypeOK
  <2>3. CASE HasRows(Dumped(t)) /\ Goes(w, "create", Dumped(t))
    <3>1. Dumped(t) \in SUBSET Rows
      BY <2>2, <2>3 DEF HasRows, Contents
    <3>2. /\ work' \in [Workers -> Task \cup {Ready, Exited}]
          /\ \A v \in Workers : v # w => work'[v] = work[v]
      BY <1>1, <1>3, <2>3, <3>1, HandStays
    <3>3. CASE Syncs(w)
      BY <1>1, <1>2, <1>3, <2>1, <3>2, <3>3, StatsCount DEF Syncs
    <3>4. CASE ~Syncs(w)
      BY <1>1, <1>2, <1>3, <2>1, <3>2, <3>4
    <3>5. QED
      BY <3>3, <3>4
  <2>4. CASE Syncs(w) /\ fresh' = fresh
    BY <1>1, <1>2, <1>3, <1>4, <2>1, <2>4, StatsCount DEF Syncs
  <2>5. QED
    BY <2>1, <2>3, <2>4
<1>7. CASE CreateTable(w)
  <2>1. Goes(w, "insert", work[w].rows)
    BY <1>7 DEF CreateTable
  <2>2. QED
    BY <1>1, <1>2, <1>3, <1>7, <2>1, HandStays, CreatedType DEF CreateTable
<1>8. ASSUME Does(w, "insert"), Inserted(w) PROVE dst' \in [Tables -> Contents]
  BY <1>1, <1>2, <1>8, InsertedType DEF Does, RowsInv, RowsRight
<1>9. CASE Insert(w)
  BY <1>1, <1>2, <1>3, <1>4, <1>8, <1>9, StatsCount DEF Insert, Syncs
<1>10. CASE RestoreFails(w)
  <2>1. dst' \in [Tables -> Contents]
    BY <1>3, <1>8, <1>10 DEF RestoreFails
  <2>2. QED
    BY <1>1, <1>2, <1>3, <1>4, <1>10, <2>1, StatsCount DEF RestoreFails, Fails
<1>11. QED
  BY <1>5, <1>6, <1>7, <1>9, <1>10

WorkerActs(w) ==
    \/ FirstDump(w) \/ SecondDump(w) \/ CreateTable(w) \/ Insert(w) \/ RestoreFails(w)

LEMMA WorkerLeavesRun ==
    ASSUME NEW w \in Workers, WorkerActs(w)
    PROVE  UNCHANGED <<src, edits, running, stopRequested, timer, config,
                       kind, phase, reason, pools, todo>>
  BY DEF WorkerActs, FirstDump, SecondDump, CreateTable, Insert, RestoreFails, WorkUnchanged

(***************************************************************************)
(* A worker leaves, or takes a table in hand.                              *)
(***************************************************************************)
LEMMA TakeMeans ==
    ASSUME TypeOK, NEW w \in Workers, TakeTable(w)
    PROVE  /\ phase = "copy" /\ w \notin InHand
           /\ work' \in [Workers -> Task \cup {Ready, Exited}]
           /\ \A v \in Workers : v # w => work'[v] = work[v]
           /\ \/ /\ stopRequested \/ todo = {}
                 /\ todo' = todo /\ InHand' = InHand /\ work'[w] = Exited
              \/ /\ ~stopRequested
                 /\ InHand' = InHand \cup {w}
                 /\ work'[w] \in Task
                 /\ work'[w].table \in todo /\ todo' = todo \ {work'[w].table}
                 /\ work'[w].step = "dump"
<1>1. phase = "copy" /\ work[w] = Ready /\ w \notin InHand
  BY DbAssumption DEF TakeTable, InHand
<1>2. CASE stopRequested \/ todo = {}
  <2>1. work' = [work EXCEPT ![w] = Exited] /\ todo' = todo
    BY <1>2 DEF TakeTable
  <2>2. InHand' = InHand
    <3>1. InHand' = InHand \ {w}
      BY <2>1, HandLeaves
    <3>2. QED
      BY <1>1, <3>1
  <2>3. QED
    BY <1>1, <1>2, <2>1, <2>2 DEF TypeOK
<1>3. CASE ~(stopRequested \/ todo = {})
  <2>1. PICK t \in todo :
            /\ todo' = todo \ {t}
            /\ work' = [work EXCEPT ![w] = [table |-> t, step |-> "dump", rows |-> {}]]
    BY <1>3 DEF TakeTable
  <2>2. t \in Tables
    BY DEF TypeOK
  <2>3. [table |-> t, step |-> "dump", rows |-> {}] \in Task
    BY <2>2 DEF Task
  <2>4. work[w] \notin Task
    BY <1>1, DbAssumption
  <2>5. /\ InHand' = InHand \cup {w}
        /\ work'[w] = [table |-> t, step |-> "dump", rows |-> {}]
    BY <2>1, <2>3, <2>4, HandTakes
  <2>6. /\ work' \in [Workers -> Task \cup {Ready, Exited}]
        /\ \A v \in Workers : v # w => work'[v] = work[v]
    BY <2>1, <2>3 DEF TypeOK
  <2>7. QED
    BY <1>1, <1>3, <2>1, <2>3, <2>5, <2>6
<1>4. QED
  BY <1>2, <1>3

LEMMA FoundType ==
    ASSUME TypeOK, ListTables
    PROVE  LET found == {t \in Listed : PassesFilter(t)}
           IN  found \subseteq Tables /\ Cardinality(found) \in Nat
<1>1. {t \in Listed : PassesFilter(t)} \subseteq Tables
  BY DEF Listed
<1>2. QED
  BY <1>1, Finite

LEMMA BegunTypes ==
    ASSUME TypeOK, NEW c \in Configs \cup {NoConfig}, NEW k \in {"sync", "retry"},
           BeginsMeans(c, k), todo' = {}, stats' = ZeroStats, phase' \in {"list", "copy"},
           timer' \in Configs \cup {NoConfig}
    PROVE  TypeOK'
<1> USE DEF TypeOK, BeginsMeans
<1>1. stats' \in [total : Nat, synced : Nat, failed : Nat, skipped : Nat]
  BY ZeroStatsType DEF StatsType
<1>2. src' \in [Tables -> Contents] /\ dst' \in [Tables -> Contents] /\ edits' \in 0..MaxEdits
  OBVIOUS
<1>3. /\ lastFailed' \subseteq Tables /\ todo' \subseteq Tables
      /\ synced' \subseteq Tables /\ fresh' \subseteq Tables
  OBVIOUS
<1>4. pools' \in 0..2 /\ work' \in [Workers -> Task \cup {Ready, Exited}]
  OBVIOUS
<1>5. running' \in BOOLEAN /\ stopRequested' \in BOOLEAN /\ config' \in Configs \cup {NoConfig}
  OBVIOUS
<1>6. /\ kind' \in {"sync", "retry"} /\ phase' \in {"idle", "list", "copy", "close"}
      /\ reason' \in {"completed", "user_stopped", "fatal_error"}
  OBVIOUS
<1>7. QED
  BY <1>1, <1>2, <1>3, <1>4, <1>5, <1>6

LEMMA TypeStep ==
    ASSUME RunOK, RowsInv, [Next]_vars
    PROVE  TypeOK'
<1> USE DEF TypeOK, dbVars, stateVars, runVars, StatsType
<1>0. TypeOK
  BY DEF RunOK
<1>1. ASSUME NEW c \in Configs, BeginSync(c), timer' \in Configs \cup {NoConfig}
      PROVE  TypeOK'
  <2>1. Begins(c, "sync") /\ todo' = {} /\ stats' = ZeroStats /\ phase' = "list"
    BY <1>0, <1>1, SyncBegins
  <2>2. BeginsMeans(c, "sync")
    BY <1>0, <2>1, BeginsTypes
  <2>3. QED
    BY <1>0, <1>1, <2>1, <2>2, BegunTypes
<1>2. CASE UserStart
  BY <1>0, <1>1, <1>2 DEF UserStart
<1>3. CASE UserRetry
  <2>1. /\ Begins(config, "retry") /\ todo' = {} /\ stats' = ZeroStats /\ phase' = "copy"
        /\ timer' = timer
    BY <1>0, <1>3, RetryBegins
  <2>2. BeginsMeans(config, "retry")
    BY <1>0, <2>1, BeginsTypes
  <2>3. QED
    BY <1>0, <2>1, <2>2, BegunTypes
<1>4. CASE TimerFires
  <2>1. timer \in Configs /\ timer' = NoConfig
    BY <1>0, <1>4 DEF TimerFires
  <2>2. CASE running
    BY <1>0, <1>4, <2>1, <2>2 DEF TimerFires
  <2>3. CASE ~running
    BY <1>1, <1>4, <2>1, <2>3 DEF TimerFires
  <2>4. QED
    BY <2>2, <2>3
<1>5. CASE UserStop \/ Shutdown
  BY <1>0, <1>5 DEF UserStop, Shutdown
<1>6. CASE Restart
  <2>1. stats' \in StatsType /\ pools' \in 0..2
    BY <1>6, ZeroStatsType DEF Restart
  <2>2. QED
    BY <1>0, <1>6, <2>1 DEF Restart
<1>7. CASE ListTables
  <2> DEFINE n == Cardinality({t \in Listed : PassesFilter(t)})
  <2>1. n \in Nat /\ {t \in Listed : PassesFilter(t)} \subseteq Tables
    BY <1>0, <1>7, FoundType
  <2>2. stats' = [stats EXCEPT !.total = n] \/ stats' = [stats EXCEPT !.total = n, !.synced = n]
    BY <1>7 DEF ListTables
  <2> HIDE DEF n
  <2>3. stats' \in StatsType
    BY <1>0, <2>1, <2>2, StatsCount
  <2>4. todo' \subseteq Tables
    BY <1>0, <1>7, <2>1 DEF ListTables
  <2>5. phase' \in {"copy", "close"} /\ reason' \in {reason, "completed"}
    BY <1>7 DEF ListTables, Closes
  <2>6. UNCHANGED <<dbVars, running, stopRequested, timer, config, lastFailed,
                    kind, pools, work, synced, fresh>>
    BY <1>7 DEF ListTables
  <2>7. QED
    BY <1>0, <2>3, <2>4, <2>5, <2>6
<1>8. CASE ListFails \/ PoolEnds
  BY <1>0, <1>8 DEF ListFails, PoolEnds, Closes
<1>9. CASE ClosePool
  BY <1>0, <1>9 DEF ClosePool
<1>10. CASE RunEnds \/ RetryEnds
  BY <1>0, <1>10 DEF RunEnds, RetryEnds
<1>11. ASSUME NEW w \in Workers, TakeTable(w) PROVE TypeOK'
  <2>1. work' \in [Workers -> Task \cup {Ready, Exited}] /\ todo' \subseteq Tables
    BY <1>0, <1>11, TakeMeans
  <2>2. QED
    BY <1>0, <1>11, <2>1 DEF TakeTable
<1>12. ASSUME NEW w \in Workers, WorkerActs(w) PROVE TypeOK'
  BY <1>0, <1>12, WorkerTypes, WorkerLeavesRun DEF WorkerActs
<1>13. ASSUME NEW t \in Tables, EditSource(t) PROVE TypeOK'
  <2>1. src' \in [Tables -> Contents]
    BY <1>0, <1>13 DEF EditSource
  <2>2. edits' \in 0..MaxEdits
    BY <1>0, <1>13, DbAssumption DEF EditSource
  <2>3. QED
    BY <1>0, <1>13, <2>1, <2>2 DEF EditSource
<1>14. CASE UNCHANGED vars
  BY <1>0, <1>14 DEF vars
<1>15. QED
  BY <1>2, <1>3, <1>4, <1>5, <1>6, <1>7, <1>8, <1>9, <1>10, <1>11, <1>12, <1>13, <1>14
     DEF Next, RunSteps, WorkerSteps, WorkerActs

-----------------------------------------------------------------------------
(* Runs. *)

\* What a worker's step comes to for its table: it is still in hand, or it is
\* counted once, as skipped, synced or failed.
KeepsTable(w) ==
    /\ InHand' = InHand /\ work'[w].table = work[w].table
    /\ UNCHANGED <<stats, lastFailed, synced>>
CountsTable(w) ==
    /\ InHand' = InHand \ {w} /\ work'[w] = Ready
    /\ \/ stats' = [stats EXCEPT !.skipped = @ + 1] /\ UNCHANGED <<lastFailed, synced>>
       \/ /\ stats' = [stats EXCEPT !.synced = @ + 1] /\ UNCHANGED lastFailed
          /\ synced' = synced \cup {work[w].table}
       \/ /\ stats' = [stats EXCEPT !.failed = @ + 1] /\ UNCHANGED synced
          /\ lastFailed' = lastFailed \cup {work[w].table}

LEMMA WorkerOutcome ==
    ASSUME RunOK, RowsInv, NEW w \in Workers, WorkerActs(w)
    PROVE  /\ w \in InHand /\ work[w] \in Task /\ work[w].table \in Tables
           /\ \A v \in Workers : v # w => work'[v] = work[v]
           /\ KeepsTable(w) \/ CountsTable(w)
<1>1. TypeOK /\ work[w] \in Task /\ \A v \in Workers : v # w => work'[v] = work[v]
  BY WorkerTypes DEF RunOK, WorkerActs
<1>2. w \in InHand /\ work[w].table \in Tables /\ work[w].rows \in SUBSET Rows
  BY <1>1, InHandMeans
<1>3. ASSUME work' = [work EXCEPT ![w] = Ready]
      PROVE  InHand' = InHand \ {w} /\ work'[w] = Ready
  BY <1>1, <1>3, HandLeaves
<1>4. ASSUME NEW step \in {"dump", "copy", "create", "insert"}, NEW rows \in SUBSET Rows,
             Goes(w, step, rows), UNCHANGED <<stats, lastFailed, synced>>
      PROVE  KeepsTable(w)
  BY <1>1, <1>4, HandStays DEF KeepsTable
<1>5. ASSUME Skips(w), UNCHANGED <<lastFailed, synced>> PROVE CountsTable(w)
  BY <1>3, <1>5 DEF Skips, CountsTable
<1>6. ASSUME Syncs(w), UNCHANGED lastFailed PROVE CountsTable(w)
  BY <1>3, <1>6 DEF Syncs, CountsTable
<1>7. ASSUME Fails(w), UNCHANGED synced PROVE CountsTable(w)
  BY <1>3, <1>7 DEF Fails, CountsTable
<1>8. ASSUME FirstDump(w) PROVE KeepsTable(w) \/ CountsTable(w)
  BY <1>4, <1>5, <1>8 DEF FirstDump
<1>9. ASSUME SecondDump(w) PROVE KeepsTable(w) \/ CountsTable(w)
  <2>1. Dumped(work[w].table) \in Contents
    BY <1>1, <1>2, DbAssumption DEF Dumped, TypeOK
  <2>2. HasRows(Dumped(work[w].table)) => Dumped(work[w].table) \in SUBSET Rows
    BY <2>1 DEF HasRows, Contents
  <2>3. QED
    BY <1>4, <1>6, <1>9, <2>2 DEF SecondDump
<1>10. ASSUME CreateTable(w) PROVE KeepsTable(w) \/ CountsTable(w)
  BY <1>2, <1>4, <1>10 DEF CreateTable
<1>11. ASSUME Insert(w) \/ RestoreFails(w) PROVE KeepsTable(w) \/ CountsTable(w)
  BY <1>6, <1>7, <1>11 DEF Insert, RestoreFails
<1>12. QED
  BY <1>1, <1>2, <1>8, <1>9, <1>10, <1>11 DEF WorkerActs

LEMMA PhaseStep ==
    ASSUME RunOK, RowsInv, [Next]_vars
    PROVE  PhaseInv' /\ NothingOutlivesRun'
<1> USE DEF PhaseInv, NothingOutlivesRun
<1>0. TypeOK /\ PhaseInv /\ NothingOutlivesRun
  BY DEF RunOK
<1>1. ASSUME NEW c \in Configs, BeginSync(c) PROVE PhaseInv' /\ NothingOutlivesRun'
  <2>1. Begins(c, "sync") /\ todo' = {} /\ stats' = ZeroStats /\ phase' = "list"
    BY <1>0, <1>1, SyncBegins
  <2>2. BeginsMeans(c, "sync")
    BY <2>1, BeginsTypes
  <2>3. QED
    BY <2>1, <2>2 DEF BeginsMeans
<1>2. CASE UserStart
  BY <1>1, <1>2 DEF UserStart
<1>3. CASE UserRetry
  <2>1. Begins(config, "retry") /\ todo' = {} /\ phase' = "copy"
    BY <1>0, <1>3, RetryBegins
  <2>2. BeginsMeans(config, "retry")
    BY <2>1, BeginsTypes
  <2>3. QED
    BY <2>1, <2>2 DEF BeginsMeans
<1>4. ASSUME UNCHANGED <<running, config, stats, lastFailed, kind, phase, pools,
                         todo, work, synced>>,
             fresh' \subseteq fresh
      PROVE  PhaseInv' /\ NothingOutlivesRun'
  BY <1>0, <1>4 DEF InHand
<1>5. CASE TimerFires
  <2>1. timer \in Configs
    BY <1>0, <1>5 DEF TimerFires, TypeOK
  <2>2. CASE running
    BY <1>4, <1>5, <2>2 DEF TimerFires, runVars
  <2>3. CASE ~running
    BY <1>1, <1>5, <2>1, <2>3 DEF TimerFires
  <2>4. QED
    BY <2>2, <2>3
<1>6. CASE UserStop \/ Shutdown \/ UNCHANGED vars
  BY <1>4, <1>6 DEF UserStop, Shutdown, vars, runVars, stateVars
<1>7. CASE Restart
  <2>1. InHand' = {}
    BY <1>7, DbAssumption DEF Restart, InHand
  <2>2. QED
    BY <1>7, <2>1 DEF Restart
<1>8. ASSUME phase = "list", phase' \in {"copy", "close"},
             UNCHANGED <<running, config, kind, pools, work>>
      PROVE  PhaseInv' /\ NothingOutlivesRun'
  BY <1>0, <1>8 DEF InHand
<1>9. CASE ListTables \/ ListFails
  BY <1>8, <1>9 DEF ListTables, ListFails, Closes, stateVars
<1>10. CASE PoolEnds
  <2>1. InHand' = {}
    BY <1>10, DbAssumption DEF PoolEnds, AllLeft, InHand
  <2>2. QED
    BY <1>0, <1>10, <2>1 DEF PoolEnds, Closes, stateVars
<1>11. CASE ClosePool
  BY <1>0, <1>11 DEF ClosePool, stateVars, InHand
<1>12. CASE RunEnds \/ RetryEnds
  BY <1>0, <1>12 DEF RunEnds, RetryEnds, InHand
<1>13. ASSUME NEW w \in Workers, TakeTable(w)
       PROVE  PhaseInv' /\ NothingOutlivesRun'
  BY <1>0, <1>13, TakeMeans DEF TakeTable, stateVars
<1>14. ASSUME NEW w \in Workers, WorkerActs(w)
       PROVE  PhaseInv' /\ NothingOutlivesRun'
  BY <1>0, <1>14, WorkerOutcome, WorkerLeavesRun DEF KeepsTable, CountsTable
<1>15. ASSUME NEW t \in Tables, EditSource(t)
       PROVE  PhaseInv' /\ NothingOutlivesRun'
  BY <1>4, <1>15 DEF EditSource, stateVars
<1>16. QED
  BY <1>2, <1>3, <1>5, <1>6, <1>7, <1>9, <1>10, <1>11, <1>12, <1>13, <1>14, <1>15
     DEF Next, RunSteps, WorkerSteps, WorkerActs

-----------------------------------------------------------------------------
(* Tables are taken once, and counted once. *)

(***************************************************************************)
(* Every other step begins a run, with nothing to do and nothing counted,  *)
(* lists the tables, lets workers go or touches none of this.              *)
(***************************************************************************)
Clean ==
    /\ todo' = {} /\ InHand' = {} /\ stats' = ZeroStats
    /\ lastFailed' = {} /\ synced' = {} /\ fresh' = {}

LEMMA CleanSlate ==
    ASSUME TypeOK, \/ \E c \in Configs : BeginSync(c)
                   \/ UserRetry \/ Restart
    PROVE  Clean
<1>1. ASSUME NEW c \in Configs, BeginSync(c) PROVE Clean
  <2>1. Begins(c, "sync") /\ todo' = {} /\ stats' = ZeroStats
    BY <1>1, SyncBegins
  <2>2. BeginsMeans(c, "sync")
    BY <2>1, BeginsTypes
  <2>3. QED
    BY <2>1, <2>2 DEF BeginsMeans, Clean
<1>2. CASE UserRetry
  <2>1. Begins(config, "retry") /\ todo' = {} /\ stats' = ZeroStats
    BY <1>2, RetryBegins
  <2>2. BeginsMeans(config, "retry")
    BY <2>1, BeginsTypes
  <2>3. QED
    BY <2>1, <2>2 DEF BeginsMeans, Clean
<1>3. CASE Restart
  BY <1>3, DbAssumption DEF Restart, InHand, Clean
<1>4. QED
  BY <1>1, <1>2, <1>3

LEMMA TakenStep ==
    ASSUME RunOK, RowsInv, TakenOnce, [Next]_vars
    PROVE  TakenOnce'
<1> USE DEF TakenOnce
<1>0. TypeOK /\ NothingOutlivesRun
  BY DEF RunOK
<1>1. ASSUME Clean PROVE TakenOnce'
  BY <1>1 DEF Clean
<1>2. ASSUME UNCHANGED <<todo, lastFailed, work, synced>> PROVE TakenOnce'
  BY <1>2 DEF InHand
<1>3. CASE UserStart \/ UserRetry \/ Restart
  BY <1>0, <1>1, <1>3, CleanSlate DEF UserStart
<1>4. CASE TimerFires
  <2>1. timer \in Configs
    BY <1>0, <1>4 DEF TimerFires, TypeOK
  <2>2. QED
    BY <1>0, <1>1, <1>2, <1>4, <2>1, CleanSlate DEF TimerFires, runVars
<1>5. CASE UserStop \/ Shutdown \/ UNCHANGED vars
  BY <1>2, <1>5 DEF UserStop, Shutdown, vars, runVars, stateVars
<1>6. CASE ListTables
  <2>1. InHand' = {}
    BY <1>0, <1>6 DEF ListTables, NothingOutlivesRun, InHand
  <2>2. lastFailed' = {} /\ synced' = {}
    BY <1>6 DEF ListTables, RunOK, PhaseInv
  <2>3. QED
    BY <2>1, <2>2
<1>7. CASE ListFails \/ PoolEnds \/ ClosePool \/ RunEnds \/ RetryEnds
  BY <1>2, <1>7 DEF ListFails, PoolEnds, ClosePool, RunEnds, RetryEnds, stateVars
<1>8. ASSUME NEW w \in Workers, TakeTable(w) PROVE TakenOnce'
  <2>1. lastFailed' = lastFailed /\ synced' = synced
    BY <1>8 DEF TakeTable, stateVars
  <2>2. QED
    BY <1>0, <1>8, <2>1, TakeMeans DEF InHand
<1>9. ASSUME NEW w \in Workers, WorkerActs(w) PROVE TakenOnce'
  <2>1. todo' = todo
    BY <1>9, WorkerLeavesRun
  <2>2. QED
    BY <1>9, <2>1, WorkerOutcome DEF KeepsTable, CountsTable, InHand
<1>10. ASSUME NEW t \in Tables, EditSource(t) PROVE TakenOnce'
  BY <1>2, <1>10 DEF EditSource, stateVars
<1>11. QED
  BY <1>3, <1>4, <1>5, <1>6, <1>7, <1>8, <1>9, <1>10
     DEF Next, RunSteps, WorkerSteps, WorkerActs

LEMMA LeftStep ==
    ASSUME RunOK, RowsInv, LeftBehind, [Next]_vars
    PROVE  LeftBehind'
<1> USE DEF LeftBehind
<1>0. TypeOK /\ PhaseInv
  BY DEF RunOK
<1>1. ASSUME NEW c \in Configs, BeginSync(c) PROVE LeftBehind'
  <2>1. Begins(c, "sync") /\ todo' = {} /\ phase' = "list"
    BY <1>0, <1>1, SyncBegins
  <2>2. \A w \in Workers : work'[w] = Ready
    BY <2>1, BeginsTypes DEF BeginsMeans
  <2>3. QED
    BY <2>1, <2>2, DbAssumption
<1>2. CASE UserRetry
  BY <1>0, <1>2, RetryBegins
<1>3. CASE Restart
  BY <1>3 DEF Restart
<1>4. ASSUME UNCHANGED <<phase, reason, todo, work>>, stopRequested => stopRequested'
      PROVE  LeftBehind'
  BY <1>4
<1>5. CASE UserStart
  BY <1>1, <1>5 DEF UserStart
<1>6. CASE TimerFires
  <2>1. timer \in Configs
    BY <1>0, <1>6 DEF TimerFires, TypeOK
  <2>2. QED
    BY <1>1, <1>4, <1>6, <2>1 DEF TimerFires, runVars
<1>7. CASE UserStop \/ Shutdown \/ UNCHANGED vars
  BY <1>4, <1>7 DEF UserStop, Shutdown, vars, runVars, stateVars
<1>8. CASE ListTables \/ ListFails
  BY <1>0, <1>8 DEF ListTables, ListFails, Closes, PhaseInv
<1>9. CASE PoolEnds
  BY <1>9, DbAssumption DEF PoolEnds, Closes, AllLeft
<1>10. CASE ClosePool \/ RunEnds
  BY <1>10 DEF ClosePool, RunEnds, stateVars
<1>11. CASE RetryEnds
  BY <1>0, <1>11 DEF RetryEnds, PhaseInv
<1>12. ASSUME NEW w \in Workers, TakeTable(w) PROVE LeftBehind'
  <2>1. UNCHANGED <<stopRequested, phase, reason>> /\ Exited \notin Task
    BY <1>12, DbAssumption DEF TakeTable, stateVars
  <2>2. QED
    BY <1>0, <1>12, <2>1, TakeMeans
<1>13. ASSUME NEW w \in Workers, WorkerActs(w) PROVE LeftBehind'
  <2>1. UNCHANGED <<stopRequested, phase, reason, todo>>
    BY <1>13, WorkerLeavesRun
  <2>2. work'[w] # Exited
    BY <1>13, WorkerOutcome, DbAssumption DEF KeepsTable, CountsTable, InHand
  <2>3. QED
    BY <1>4, <1>13, <2>1, <2>2, WorkerOutcome
<1>14. ASSUME NEW t \in Tables, EditSource(t) PROVE LeftBehind'
  BY <1>4, <1>14 DEF EditSource, stateVars
<1>15. QED
  BY <1>2, <1>3, <1>5, <1>6, <1>7, <1>8, <1>9, <1>10, <1>11, <1>12, <1>13, <1>14
     DEF Next, RunSteps, WorkerSteps, WorkerActs

LEMMA CountStep ==
    ASSUME RunOK, RowsInv, TakenOnce, CountInv, [Next]_vars
    PROVE  CountInv'
<1> USE DEF CountInv, FailuresRemembered
<1>0. TypeOK /\ PhaseInv /\ NothingOutlivesRun /\ Cardinality({}) = 0
  BY FS_EmptySet DEF RunOK
<1>1. ASSUME Clean PROVE CountInv'
  BY <1>0, <1>1 DEF Clean, ZeroStats
<1>2. ASSUME UNCHANGED <<stats, lastFailed, todo, work>> PROVE CountInv'
  BY <1>2 DEF InHand
<1>3. CASE UserStart \/ UserRetry \/ Restart
  BY <1>0, <1>1, <1>3, CleanSlate DEF UserStart
<1>4. CASE TimerFires
  <2>1. timer \in Configs
    BY <1>0, <1>4 DEF TimerFires, TypeOK
  <2>2. QED
    BY <1>0, <1>1, <1>2, <1>4, <2>1, CleanSlate DEF TimerFires, runVars
<1>5. CASE UserStop \/ Shutdown \/ UNCHANGED vars
  BY <1>2, <1>5 DEF UserStop, Shutdown, vars, runVars, stateVars
<1>6. CASE ListTables
  <2> DEFINE found == {t \in Listed : PassesFilter(t)}
  <2>1. InHand' = {} /\ stats = ZeroStats /\ todo = {} /\ lastFailed' = {} /\ found \in SUBSET Tables
    BY <1>0, <1>6, FoundType DEF ListTables, NothingOutlivesRun, InHand, PhaseInv
  <2>2. Cardinality(found) \in Nat
    BY <2>1, Finite
  <2>3. \/ /\ stats' = [stats EXCEPT !.total = Cardinality(found), !.synced = Cardinality(found)]
           /\ todo' = todo
        \/ stats' = [stats EXCEPT !.total = Cardinality(found)] /\ todo' = found
    BY <1>6 DEF ListTables
  <2> HIDE DEF found
  <2>4. CASE stats' = [stats EXCEPT !.total = Cardinality(found)] /\ todo' = found
    <3>1. /\ stats'.total = Cardinality(found) /\ stats'.synced = 0
          /\ stats'.failed = 0 /\ stats'.skipped = 0
      BY <2>1, <2>4 DEF ZeroStats
    <3>2. QED
      BY <1>0, <2>1, <2>2, <2>4, <3>1
  <2>5. CASE /\ stats' = [stats EXCEPT !.total = Cardinality(found), !.synced = Cardinality(found)]
             /\ todo' = todo
    <3>1. /\ stats'.total = Cardinality(found) /\ stats'.synced = Cardinality(found)
          /\ stats'.failed = 0 /\ stats'.skipped = 0
      BY <2>1, <2>5 DEF ZeroStats
    <3>2. QED
      BY <1>0, <2>1, <2>2, <2>5, <3>1
  <2>6. QED
    BY <2>3, <2>4, <2>5
<1>7. CASE ListFails \/ PoolEnds \/ ClosePool \/ RunEnds \/ RetryEnds
  BY <1>2, <1>7 DEF ListFails, PoolEnds, ClosePool, RunEnds, RetryEnds, stateVars
<1>8. /\ IsFiniteSet(InHand) /\ Cardinality(InHand) \in Nat
      /\ IsFiniteSet(todo) /\ Cardinality(todo) \in Nat
      /\ IsFiniteSet(lastFailed) /\ Cardinality(lastFailed) \in Nat
      /\ stats \in StatsType
  BY <1>0, Finite DEF InHand, TypeOK, StatsType
<1>9. ASSUME NEW w \in Workers, TakeTable(w) PROVE CountInv'
  <2>1. UNCHANGED <<stats, lastFailed>>
    BY <1>9 DEF TakeTable, stateVars
  <2>2. CASE todo' = todo /\ InHand' = InHand
    BY <2>1, <2>2
  <2>3. CASE /\ InHand' = InHand \cup {w}
             /\ work'[w].table \in todo /\ todo' = todo \ {work'[w].table}
    <3>1. w \notin InHand
      BY <1>0, <1>9, TakeMeans
    <3>2. Cardinality(InHand') = Cardinality(InHand) + 1
      BY <1>8, <2>3, <3>1, FS_AddElement
    <3>3. Cardinality(todo') = Cardinality(todo) - 1
      BY <1>8, <2>3, FS_RemoveElement
    <3>4. QED
      BY <1>8, <2>1, <3>2, <3>3 DEF StatsType
  <2>4. QED
    BY <1>0, <1>9, <2>2, <2>3, TakeMeans
<1>10. ASSUME NEW w \in Workers, WorkerActs(w) PROVE CountInv'
  <2>1. todo' = todo
    BY <1>10, WorkerLeavesRun
  <2>2. CASE KeepsTable(w)
    BY <2>1, <2>2 DEF KeepsTable
  <2>3. CASE CountsTable(w)
    <3>1. w \in InHand /\ work[w].table \notin lastFailed
      BY <1>10, WorkerOutcome DEF TakenOnce
    <3>2. Cardinality(InHand') = Cardinality(InHand) - 1
      BY <1>8, <2>3, <3>1, FS_RemoveElement DEF CountsTable
    <3>3. Cardinality(lastFailed \cup {work[w].table}) = Cardinality(lastFailed) + 1
      BY <1>8, <3>1, FS_AddElement
    <3>4. CASE lastFailed' = lastFailed
      <4>1. /\ stats'.total = stats.total /\ stats'.failed = stats.failed
            /\ stats'.synced + stats'.failed + stats'.skipped
                 = stats.synced + stats.failed + stats.skipped + 1
        BY <1>8, <2>3, <3>1, <3>4 DEF CountsTable, StatsType
      <4>2. QED
        BY <1>8, <2>1, <3>2, <3>4, <4>1 DEF StatsType
    <3>5. CASE /\ lastFailed' = lastFailed \cup {work[w].table}
               /\ stats' = [stats EXCEPT !.failed = @ + 1]
      <4>1. /\ stats'.total = stats.total /\ stats'.failed = stats.failed + 1
            /\ stats'.synced = stats.synced /\ stats'.skipped = stats.skipped
        BY <1>8, <3>5 DEF StatsType
      <4>2. QED
        BY <1>8, <2>1, <3>2, <3>3, <3>5, <4>1 DEF StatsType
    <3>6. QED
      BY <2>3, <3>4, <3>5 DEF CountsTable
  <2>4. QED
    BY <1>10, <2>2, <2>3, WorkerOutcome
<1>11. ASSUME NEW t \in Tables, EditSource(t) PROVE CountInv'
  BY <1>2, <1>11 DEF EditSource, stateVars
<1>12. QED
  BY <1>3, <1>4, <1>5, <1>6, <1>7, <1>9, <1>10, <1>11
     DEF Next, RunSteps, WorkerSteps, WorkerActs

-----------------------------------------------------------------------------
(* Rows. *)

(***************************************************************************)
(* No step of a worker takes a table or a row from the destination; only   *)
(* its own table becomes fresh; what it holds is right, and a table it     *)
(* counts as synced, and whose rows are still those it read, is copied.    *)
(***************************************************************************)
Grows ==
    \A d \in Tables : dst[d] # Gone => dst'[d] # Gone /\ dst[d] \subseteq dst'[d]

DoesRight(w, t) ==
    /\ Grows
    /\ fresh' \subseteq fresh \cup {t}
    /\ w \in InHand' => RowsRight(w)'
    /\ t \in synced' \cap fresh' => CopiedTo(t)'

(***************************************************************************)
(* A table all whose rows land is copied, and stays so while the           *)
(* destination only grows.                                                 *)
(***************************************************************************)
LEMMA LandsCopied ==
    ASSUME NEW t, NEW d, DestOf(t)' = d, dst'[d] # Gone,
           \A r \in src'[t] : Lands(r, d)
    PROVE  CopiedTo(t)'
  BY DEF CopiedTo, Represented, Lands, KeysOf

LEMMA CopiedStays ==
    ASSUME Grows, NEW t, CopiedTo(t), DestOf(t) \in Tables, DestOf(t)' = DestOf(t),
           src'[t] = src[t]
    PROVE  CopiedTo(t)'
<1> DEFINE d == DestOf(t)
<1>1. CASE ~HasRows(src'[t])
  BY <1>1 DEF CopiedTo, HasRows
<1>2. CASE HasRows(src'[t])
  <2>1. dst[d] # Gone /\ \A r \in src[t] : Represented(r, d)
    BY <1>2 DEF CopiedTo, HasRows
  <2>2. dst'[d] # Gone /\ dst[d] \subseteq dst'[d]
    BY <2>1 DEF Grows
  <2>3. KeysOf(dst[d]) \subseteq KeysOf(dst'[d])
    BY <2>2 DEF KeysOf
  <2>4. \A r \in src'[t] : Lands(r, d)
    BY <2>1, <2>2, <2>3 DEF Represented, Lands
  <2>5. QED
    BY <2>2, <2>4, LandsCopied
<1>3. QED
  BY <1>1, <1>2

LEMMA WorkerDoesRight ==
    ASSUME RunOK, RowsInv, TakenOnce, NEW w \in Workers, WorkerActs(w),
           NEW t, t = work[w].table
    PROVE  DoesRight(w, t)
<1> DEFINE d == DestOf(t)
<1>1. /\ TypeOK /\ w \in InHand /\ work[w] \in Task /\ RowsRight(w)
      /\ t \notin synced
  BY WorkerOutcome DEF RunOK, RowsInv, TakenOnce
<1>2. t \in Tables /\ d \in Tables /\ work[w].rows \in SUBSET Rows
  BY <1>1, InHandMeans
<1>3. UNCHANGED <<src, kind, config>> /\ \A u : DestOf(u)' = DestOf(u)
  BY WorkerLeavesRun DEF DestOf
<1>4. ASSUME UNCHANGED dst PROVE Grows
  BY <1>4 DEF Grows
<1>5. ASSUME work' = [work EXCEPT ![w] = Ready] PROVE w \notin InHand'
  BY <1>1, <1>5, HandLeaves
<1>6. ASSUME Does(w, "insert"), Inserted(w)
      PROVE  /\ Grows /\ dst'[d] # Gone
             /\ \A r \in work[w].rows : Lands(r, d)
  <2>1. dst[d] # Gone
    BY <1>1, <1>6 DEF Does, RowsRight
  <2>2. QED
    BY <1>1, <1>2, <1>6, <2>1, InsertedType DEF Grows
<1>7. CASE FirstDump(w)
  <2>1. UNCHANGED <<dst, synced, fresh>> /\ work[w].step = "dump"
    BY <1>7 DEF FirstDump, Does
  <2>2. CASE Goes(w, "copy", {})
    <3>1. work'[w].table = t /\ work'[w].step = "copy"
      BY <1>1, <2>2, HandStays
    <3>2. t \notin fresh
      BY <1>1, <2>1 DEF RowsRight
    <3>3. RowsRight(w)'
      BY <2>1, <3>1, <3>2 DEF RowsRight
    <3>4. QED
      BY <1>1, <1>4, <2>1, <3>3 DEF DoesRight
  <2>3. CASE Skips(w)
    BY <1>1, <1>4, <1>5, <2>1, <2>3 DEF DoesRight, Skips
  <2>4. QED
    BY <1>7, <2>2, <2>3 DEF FirstDump
<1>8. CASE SecondDump(w)
  <2>1. UNCHANGED dst /\ work[w].step = "copy" /\ t \notin fresh
    BY <1>1, <1>8 DEF SecondDump, Does, RowsRight
  <2>2. CASE /\ HasRows(Dumped(t)) /\ Goes(w, "create", Dumped(t)) /\ UNCHANGED synced
             /\ fresh' = IF config.inPublic THEN fresh \cup {t} ELSE fresh
    <3>1. Dumped(t) \in Contents
      BY <1>1, <1>2, DbAssumption DEF Dumped, TypeOK
    <3>2. Dumped(t) \in SUBSET Rows
      BY <2>2, <3>1 DEF HasRows, Contents
    <3>3. work'[w].table = t /\ work'[w].step = "create" /\ work'[w].rows = Dumped(t)
      BY <1>1, <2>2, <3>2, HandStays
    <3>4. t \in fresh' => Dumped(t) = src[t]
      BY <2>1, <2>2 DEF Dumped
    <3>5. RowsRight(w)'
      BY <1>3, <3>3, <3>4 DEF RowsRight
    <3>6. QED
      BY <1>1, <1>4, <2>1, <2>2, <3>5 DEF DoesRight
  <2>3. CASE Syncs(w) /\ fresh' = fresh
    BY <1>4, <1>5, <2>1, <2>3 DEF DoesRight, Syncs
  <2>4. QED
    BY <1>8, <2>2, <2>3 DEF SecondDump
<1>9. CASE CreateTable(w)
  <2>1. /\ work[w].step = "create" /\ UNCHANGED <<synced, fresh>>
        /\ Goes(w, "insert", work[w].rows)
    BY <1>9 DEF CreateTable, Does
  <2>2. Grows /\ dst'[d] # Gone
    BY <1>9, CreatedType DEF Grows
  <2>3. /\ work'[w].table = t /\ work'[w].step = "insert"
        /\ work'[w].rows = work[w].rows
    BY <1>1, <1>2, <2>1, HandStays
  <2>4. RowsRight(w)'
    BY <1>1, <1>3, <2>1, <2>2, <2>3 DEF RowsRight
  <2>5. QED
    BY <1>1, <2>1, <2>2, <2>4 DEF DoesRight
<1>10. CASE Insert(w)
  <2>1. Does(w, "insert") /\ Inserted(w) /\ UNCHANGED fresh /\ w \notin InHand'
    BY <1>5, <1>10 DEF Insert, Syncs
  <2>2. ASSUME t \in fresh PROVE CopiedTo(t)'
    <3>1. work[w].rows = src[t]
      BY <1>1, <2>2 DEF RowsRight
    <3>2. dst'[d] # Gone /\ \A r \in src'[t] : Lands(r, d)
      BY <1>3, <1>6, <2>1, <3>1
    <3>3. QED
      BY <1>3, <3>2, LandsCopied
  <2>3. QED
    BY <1>6, <2>1, <2>2 DEF DoesRight
<1>11. CASE RestoreFails(w)
  <2>1. UNCHANGED <<synced, fresh>> /\ w \notin InHand'
    BY <1>5, <1>11 DEF RestoreFails, Fails
  <2>2. Grows
    BY <1>4, <1>6, <1>11 DEF RestoreFails
  <2>3. QED
    BY <1>1, <2>1, <2>2 DEF DoesRight
<1>12. QED
  BY <1>7, <1>8, <1>9, <1>10, <1>11 DEF WorkerActs

LEMMA RowsStep ==
    ASSUME RunOK, RowsInv, TakenOnce, [Next]_vars
    PROVE  RowsInv'
<1> USE DEF RowsInv
<1>0. TypeOK /\ PhaseInv /\ NothingOutlivesRun
  BY DEF RunOK
<1>1. ASSUME Clean PROVE RowsInv'
  BY <1>1 DEF Clean
<1>2. ASSUME UNCHANGED <<src, dst, todo, work, fresh, kind, config>> PROVE RowsInv'
  BY <1>2 DEF InHand, RowsRight, DestOf
<1>3. CASE UserStart \/ UserRetry \/ Restart
  BY <1>0, <1>1, <1>3, CleanSlate DEF UserStart
<1>4. CASE TimerFires
  <2>1. timer \in Configs
    BY <1>0, <1>4 DEF TimerFires, TypeOK
  <2>2. QED
    BY <1>0, <1>1, <1>2, <1>4, <2>1, CleanSlate DEF TimerFires, runVars, dbVars
<1>5. CASE UserStop \/ Shutdown \/ UNCHANGED vars
  BY <1>2, <1>5 DEF UserStop, Shutdown, vars, runVars, stateVars, dbVars
<1>6. CASE ListTables
  <2>1. InHand' = {} /\ fresh' = {}
    BY <1>0, <1>6 DEF ListTables, NothingOutlivesRun, InHand, PhaseInv
  <2>2. QED
    BY <2>1
<1>7. CASE ListFails \/ PoolEnds \/ ClosePool \/ RunEnds \/ RetryEnds
  BY <1>2, <1>7 DEF ListFails, PoolEnds, ClosePool, RunEnds, RetryEnds, stateVars, dbVars
<1>8. ASSUME NEW w \in Workers, TakeTable(w) PROVE RowsInv'
  <2>1. UNCHANGED <<src, dst, fresh, kind, config>>
    BY <1>8 DEF TakeTable, stateVars, dbVars
  <2>2. \A v \in InHand : v # w => RowsRight(v)'
    BY <1>0, <1>8, <2>1, TakeMeans DEF RowsRight, DestOf, InHand
  <2>3. w \in InHand' => RowsRight(w)' /\ todo' \subseteq todo
    BY <1>0, <1>8, <2>1, TakeMeans DEF RowsRight
  <2>4. InHand' \subseteq InHand \cup {w} /\ todo' \subseteq todo
    BY <1>0, <1>8, TakeMeans
  <2>5. QED
    BY <2>1, <2>2, <2>3, <2>4
<1>9. ASSUME NEW w \in Workers, WorkerActs(w) PROVE RowsInv'
  <2>1. PICK t \in Tables : t = work[w].table
    BY <1>9, WorkerOutcome
  <2>2. DoesRight(w, t)
    BY <1>9, <2>1, WorkerDoesRight
  <2>3. UNCHANGED <<src, kind, config, todo>> /\ \A u : DestOf(u)' = DestOf(u)
    BY <1>9, WorkerLeavesRun DEF DestOf
  <2>4. w \in InHand /\ InHand' \subseteq InHand /\ \A v \in InHand : v # w => work'[v] = work[v]
    BY <1>9, WorkerOutcome DEF KeepsTable, CountsTable, InHand
  <2>5. t \notin todo /\ \A v \in InHand : v # w => work[v].table # t
    BY <2>1, <2>4 DEF TakenOnce
  <2>6. ASSUME NEW v \in InHand, v # w PROVE RowsRight(v)'
    <3>1. RowsRight(v) /\ work'[v] = work[v] /\ work[v].table # t
      BY <2>4, <2>5, <2>6
    <3>2. work[v].table \in fresh' => work[v].table \in fresh
      BY <2>2, <3>1 DEF DoesRight
    <3>3. DestOf(work[v].table) \in Tables
      BY <2>6, InHandMeans DEF InHand
    <3>4. dst[DestOf(work[v].table)] # Gone => dst'[DestOf(work[v].table)] # Gone
      BY <2>2, <3>3 DEF DoesRight, Grows
    <3>5. DestOf(work[v].table)' = DestOf(work[v].table)
      BY <2>3, <3>1 DEF DestOf
    <3>6. QED
      BY <2>3, <3>1, <3>2, <3>4, <3>5 DEF RowsRight
  <2>7. todo' \cap fresh' = {}
    BY <2>2, <2>3, <2>5 DEF DoesRight
  <2>8. QED
    BY <2>2, <2>4, <2>6, <2>7 DEF DoesRight
<1>10. ASSUME NEW t \in Tables, EditSource(t) PROVE RowsInv'
  <2>1. /\ fresh' = fresh \ {t} /\ \A u \in Tables : u # t => src'[u] = src[u]
        /\ UNCHANGED <<dst, todo, work, kind, config>>
    BY <1>0, <1>10 DEF EditSource, stateVars, TypeOK
  <2>2. ASSUME NEW v \in InHand PROVE RowsRight(v)'
    <3>1. work[v].table \in Tables
      BY <2>2, InHandMeans DEF InHand
    <3>2. RowsRight(v)
      BY <2>2
    <3>3. QED
      BY <2>1, <3>1, <3>2 DEF RowsRight, DestOf
  <2>3. QED
    BY <2>1, <2>2 DEF InHand
<1>11. QED
  BY <1>3, <1>4, <1>5, <1>6, <1>7, <1>8, <1>9, <1>10
     DEF Next, RunSteps, WorkerSteps, WorkerActs

LEMMA CopiedStep ==
    ASSUME RunOK, RowsInv, TakenOnce, SyncedIsCopied, [Next]_vars
    PROVE  SyncedIsCopied'
<1> USE DEF SyncedIsCopied
<1>0. TypeOK /\ PhaseInv /\ NothingOutlivesRun
  BY DEF RunOK
<1>1. ASSUME Clean PROVE SyncedIsCopied'
  BY <1>1 DEF Clean
<1>2. ASSUME UNCHANGED <<src, dst, synced, fresh, kind, config>> PROVE SyncedIsCopied'
  BY <1>2 DEF CopiedTo, Represented, KeysOf, DestOf
<1>3. CASE UserStart \/ UserRetry \/ Restart
  BY <1>0, <1>1, <1>3, CleanSlate DEF UserStart
<1>4. CASE TimerFires
  <2>1. timer \in Configs
    BY <1>0, <1>4 DEF TimerFires, TypeOK
  <2>2. QED
    BY <1>0, <1>1, <1>2, <1>4, <2>1, CleanSlate DEF TimerFires, runVars, dbVars
<1>5. CASE UserStop \/ Shutdown \/ UNCHANGED vars
  BY <1>2, <1>5 DEF UserStop, Shutdown, vars, runVars, stateVars, dbVars
<1>6. CASE ListTables \/ ListFails \/ PoolEnds \/ ClosePool \/ RunEnds \/ RetryEnds
  BY <1>2, <1>6 DEF ListTables, ListFails, PoolEnds, ClosePool, RunEnds, RetryEnds,
                    stateVars, dbVars
<1>7. ASSUME NEW w \in Workers, TakeTable(w) PROVE SyncedIsCopied'
  BY <1>2, <1>7 DEF TakeTable, stateVars, dbVars
<1>8. ASSUME NEW w \in Workers, WorkerActs(w) PROVE SyncedIsCopied'
  <2>1. PICK t \in Tables : t = work[w].table
    BY <1>8, WorkerOutcome
  <2>2. DoesRight(w, t)
    BY <1>8, <2>1, WorkerDoesRight
  <2>3. UNCHANGED <<src, kind, config>> /\ \A u : DestOf(u)' = DestOf(u)
    BY <1>8, WorkerLeavesRun DEF DestOf
  <2>4. synced' \subseteq synced \cup {t} /\ kind = "sync" /\ config \in Configs
    BY <1>8, <2>1, WorkerOutcome, InHandMeans DEF KeepsTable, CountsTable
  <2>5. ASSUME NEW u \in synced' \cap fresh', u # t PROVE CopiedTo(u)'
    <3>1. u \in Tables /\ CopiedTo(u)
      BY <1>0, <2>2, <2>4, <2>5 DEF DoesRight, TypeOK
    <3>2. DestOf(u) \in Tables
      BY <2>4, <3>1, DbAssumption DEF DestOf, Config
    <3>3. QED
      BY <2>2, <2>3, <3>1, <3>2, CopiedStays DEF DoesRight
  <2>6. QED
    BY <2>2, <2>5 DEF DoesRight
<1>9. ASSUME NEW t \in Tables, EditSource(t) PROVE SyncedIsCopied'
  <2>1. /\ fresh' = fresh \ {t} /\ \A u \in Tables : u # t => src'[u] = src[u]
        /\ UNCHANGED <<dst, synced, kind, config>>
    BY <1>0, <1>9 DEF EditSource, stateVars, TypeOK
  <2>2. QED
    BY <1>0, <2>1 DEF CopiedTo, Represented, KeysOf, DestOf, TypeOK
<1>10. QED
  BY <1>3, <1>4, <1>5, <1>6, <1>7, <1>8, <1>9 DEF Next, RunSteps, WorkerSteps, WorkerActs

-----------------------------------------------------------------------------
(* Every behaviour. *)

LEMMA DbInvInit == Init => DbInv
<1> SUFFICES ASSUME Init PROVE DbInv
  OBVIOUS
<1>1. InHand = {} /\ Cardinality({}) = 0
  BY FS_EmptySet, DbAssumption DEF Init, InHand
<1>2. src \in [Tables -> Contents] /\ dst \in [Tables -> Contents]
  BY DbAssumption DEF Init
<1>3. stats \in [total : Nat, synced : Nat, failed : Nat, skipped : Nat]
  BY ZeroStatsType DEF Init, StatsType
<1>4. pools \in 0..2 /\ edits \in 0..MaxEdits /\ work \in [Workers -> Task \cup {Ready, Exited}]
  BY DbAssumption DEF Init
<1>5. TypeOK
  BY <1>2, <1>3, <1>4 DEF Init, TypeOK
<1>6. PhaseInv /\ NothingOutlivesRun /\ TakenOnce /\ LeftBehind /\ RowsInv /\ SyncedIsCopied
  BY <1>1 DEF Init, PhaseInv, NothingOutlivesRun, TakenOnce, LeftBehind, RowsInv, SyncedIsCopied
<1>7. CountInv
  BY <1>1 DEF Init, CountInv, FailuresRemembered, ZeroStats
<1>8. QED
  BY <1>5, <1>6, <1>7 DEF DbInv

LEMMA DbInvStep == DbInv /\ [Next]_vars => DbInv'
<1> SUFFICES ASSUME DbInv, [Next]_vars PROVE DbInv'
  OBVIOUS
<1>1. RunOK /\ RowsInv /\ TakenOnce /\ LeftBehind /\ CountInv /\ SyncedIsCopied
  BY DEF DbInv, RunOK
<1>2. TypeOK'
  BY <1>1, TypeStep
<1>3. PhaseInv' /\ NothingOutlivesRun'
  BY <1>1, PhaseStep
<1>4. TakenOnce' /\ LeftBehind' /\ CountInv'
  BY <1>1, TakenStep, LeftStep, CountStep
<1>5. RowsInv' /\ SyncedIsCopied'
  BY <1>1, RowsStep, CopiedStep
<1>6. QED
  BY <1>2, <1>3, <1>4, <1>5 DEF DbInv

LEMMA DbInvAlways == Spec => []DbInv
  BY DbInvInit, DbInvStep, PTL DEF Spec

(***************************************************************************)
(* The databases, the state shared with the handlers and the locals of a   *)
(* run keep their types.                                                   *)
(***************************************************************************)
THEOREM DbTypes == Spec => []TypeOK
<1>1. DbInv => TypeOK
  BY DEF DbInv
<1>2. QED
  BY <1>1, DbInvAlways, PTL

(***************************************************************************)
(* When a table sync is over, both its pools are closed and no worker has  *)
(* a table: the finally blocks of startDbSync and retryFailedDbTables are  *)
(* reached whatever failed, and after all workers.                         *)
(***************************************************************************)
THEOREM DbNothingOutlivesRun == Spec => []NothingOutlivesRun
<1>1. DbInv => NothingOutlivesRun
  BY DEF DbInv
<1>2. QED
  BY <1>1, DbInvAlways, PTL

(***************************************************************************)
(* The counters of dbState.stats add up at every await, with the tables    *)
(* not yet taken and those in the hands of the workers; a completed run    *)
(* leaves none uncounted.                                                  *)
(***************************************************************************)
THEOREM DbStatsAddUp == Spec => []StatsAddUp
<1>1. DbInv => StatsAddUp
  <2> SUFFICES ASSUME DbInv PROVE StatsAddUp
    OBVIOUS
  <2>1. stats.total = stats.synced + stats.failed + stats.skipped
                         + Cardinality(todo) + Cardinality(InHand)
    BY DEF DbInv, CountInv
  <2>2. Cardinality({}) = 0 /\ stats \in [total : Nat, synced : Nat, failed : Nat, skipped : Nat]
    BY FS_EmptySet DEF DbInv, TypeOK
  <2>3. ASSUME phase \in {"close", "idle"}, reason = "completed"
        PROVE  todo = {} /\ InHand = {}
    BY <2>3 DEF DbInv, LeftBehind, NothingOutlivesRun
  <2>4. ASSUME todo = {}, InHand = {}
        PROVE  stats.total = stats.synced + stats.failed + stats.skipped
    <3>1. stats.total = stats.synced + stats.failed + stats.skipped + 0 + 0
      BY <2>1, <2>2, <2>4
    <3>2. QED
      BY <2>2, <3>1
  <2>5. QED
    BY <2>1, <2>3, <2>4 DEF StatsAddUp
<1>2. QED
  BY <1>1, DbInvAlways, PTL

(***************************************************************************)
(* stats.failed counts the tables of lastFailedTables: no table fails      *)
(* twice in a run, and each that fails is remembered.                      *)
(***************************************************************************)
THEOREM DbFailuresRemembered == Spec => []FailuresRemembered
<1>1. DbInv => FailuresRemembered
  BY DEF DbInv, CountInv
<1>2. QED
  BY <1>1, DbInvAlways, PTL

(***************************************************************************)
(* A table that was counted as synced and has not changed since its rows   *)
(* were read has each of them at the destination, or a row of its key,     *)
(* whatever else is renamed to the same name, fails or is stopped.         *)
(***************************************************************************)
THEOREM DbSyncedIsCopied == Spec => []SyncedIsCopied
<1>1. DbInv => SyncedIsCopied
  BY DEF DbInv
<1>2. QED
  BY <1>1, DbInvAlways, PTL

-----------------------------------------------------------------------------
(* The run control. *)

LEMMA ControlStutters ==
    ASSUME UNCHANGED <<running, stopRequested, timer>>
    PROVE  UNCHANGED Control!controlVars
  BY DEF modeBar, Control!controlVars

LEMMA BeginMaps ==
    ASSUME ~running, NEW c, NEW k, Begins(c, k)
    PROVE  modeBar = "idle" /\ modeBar' = "running"
  BY DEF Begins, modeBar

(***************************************************************************)
(* Only a run that was not stopped arms the timer when it ends.            *)
(***************************************************************************)
LEMMA EndMaps ==
    ASSUME RunOK, RunEnds \/ RetryEnds
    PROVE  Control!Next
<1>1. running /\ modeBar' = "idle" /\ TypeOK
  BY DEF RunEnds, RetryEnds, RunOK, PhaseInv, modeBar
<1>2. CASE stopRequested
  <2>1. modeBar = "stopping" /\ timer' = timer
    BY <1>1, <1>2 DEF modeBar, RunEnds, RetryEnds, Repeats
  <2>2. Control!Stopped
    BY <1>1, <2>1 DEF Control!Stopped
  <2>3. QED
    BY <2>2 DEF Control!Next
<1>3. CASE ~stopRequested
  <2>1. modeBar = "running"
    BY <1>1, <1>3 DEF modeBar
  <2>2. timer' = timer \/ timer' # NoConfig
    BY <1>1, DbAssumption DEF RunEnds, RetryEnds, RunOK, PhaseInv
  <2>3. (timer' # NoConfig) = (timer # NoConfig) \/ (timer' # NoConfig) = TRUE
    BY <2>2
  <2>4. Control!Finish
    BY <1>1, <2>1, <2>3 DEF Control!Finish
  <2>5. QED
    BY <2>4 DEF Control!Next
<1>4. QED
  BY <1>2, <1>3

LEMMA ControlStep ==
    ASSUME RunOK, [Next]_vars
    PROVE  [Control!Next]_Control!controlVars
<1> USE DEF Control!Next
<1>0. TypeOK
  BY DEF RunOK
<1>1. CASE UserStart
  <2>1. PICK c \in Configs : BeginSync(c)
    BY <1>1 DEF UserStart
  <2>2. modeBar = "idle" /\ modeBar' = "running" /\ timer' = timer
    BY <1>1, <2>1, BeginMaps DEF UserStart, BeginSync
  <2>3. QED
    BY <2>2 DEF Control!Start
<1>2. CASE UserRetry
  <2>1. modeBar = "idle" /\ modeBar' = "running" /\ timer' = timer
    BY <1>2, BeginMaps DEF UserRetry
  <2>2. QED
    BY <2>1 DEF Control!Start
<1>3. CASE TimerFires
  <2>1. timer \in Configs /\ timer # NoConfig /\ timer' = NoConfig
    BY <1>0, <1>3 DEF TimerFires, TypeOK
  <2>2. CASE running
    <3>1. modeBar' = modeBar /\ modeBar # "idle"
      BY <1>3, <2>2 DEF TimerFires, modeBar
    <3>2. Control!Fire
      BY <2>1, <3>1 DEF Control!Fire
    <3>3. QED
      BY <3>2
  <2>3. CASE ~running
    <3>1. modeBar = "idle" /\ modeBar' = "running"
      BY <1>3, <2>3, BeginMaps DEF TimerFires, BeginSync
    <3>2. Control!Fire
      BY <2>1, <3>1 DEF Control!Fire
    <3>3. QED
      BY <3>2
  <2>4. QED
    BY <2>2, <2>3
<1>4. CASE UserStop
  <2>1. /\ timer' = NoConfig
        /\ modeBar' = IF modeBar = "running" THEN "stopping" ELSE modeBar
    BY <1>4 DEF UserStop, modeBar
  <2>2. Control!Stop
    BY <2>1 DEF Control!Stop
  <2>3. QED
    BY <2>2
<1>5. CASE Shutdown
  <2>1. running /\ running' = running /\ timer' = timer /\ stopRequested' = TRUE
    BY <1>5 DEF Shutdown
  <2>2. CASE stopRequested
    BY <2>1, <2>2, ControlStutters
  <2>3. CASE ~stopRequested
    <3>1. modeBar = "running" /\ modeBar' = "stopping"
      BY <2>1, <2>3 DEF modeBar
    <3>2. Control!Shutdown
      BY <2>1, <3>1 DEF Control!Shutdown
    <3>3. QED
      BY <3>2
  <2>4. QED
    BY <2>2, <2>3
<1>6. CASE Restart
  <2>1. modeBar' = "idle" /\ timer' = NoConfig
    BY <1>6 DEF Restart, modeBar
  <2>2. Control!Restart
    BY <2>1 DEF Control!Restart
  <2>3. QED
    BY <2>2
<1>7. CASE ListTables \/ ListFails \/ PoolEnds \/ ClosePool
  BY <1>7, ControlStutters DEF ListTables, ListFails, PoolEnds, ClosePool, stateVars
<1>8. CASE RunEnds \/ RetryEnds
  BY <1>8, EndMaps
<1>9. ASSUME NEW w \in Workers, TakeTable(w) PROVE UNCHANGED Control!controlVars
  BY <1>9, ControlStutters DEF TakeTable, stateVars
<1>10. ASSUME NEW w \in Workers, WorkerActs(w) PROVE UNCHANGED Control!controlVars
  BY <1>10, ControlStutters, WorkerLeavesRun
<1>11. ASSUME NEW t \in Tables, EditSource(t) PROVE UNCHANGED Control!controlVars
  BY <1>11, ControlStutters DEF EditSource, stateVars
<1>12. CASE UNCHANGED vars
  BY <1>12, ControlStutters DEF vars, stateVars
<1>13. QED
  BY <1>1, <1>2, <1>3, <1>4, <1>5, <1>6, <1>7, <1>8, <1>9, <1>10, <1>11, <1>12
     DEF Next, RunSteps, WorkerSteps, WorkerActs

(***************************************************************************)
(* The table sync is an implementation of SyncControl, like the S3 sync:   *)
(* the handlers of /api/db, the repeat timer and the ends of startDbSync   *)
(* and retryFailedDbTables agree on when a run may begin.                  *)
(***************************************************************************)
THEOREM DbImplementsControl == Spec => ControlSpec
<1>1. Init => Control!Init
  BY DEF Init, Control!Init, modeBar
<1>2. DbInv /\ [Next]_vars => [Control!Next]_Control!controlVars
  BY ControlStep DEF DbInv, RunOK
<1>3. QED
  BY <1>1, <1>2, DbInvAlways, PTL DEF Spec, ControlSpec, Control!Spec
=============================================================================
