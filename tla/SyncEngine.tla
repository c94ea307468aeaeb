----------------------------- MODULE SyncEngine -----------------------------
(***************************************************************************)
(* The S3 sync engine: src/syncEngine.js with the shared state of          *)
(* src/syncState.js, the checkpoint file of src/checkpoint.js and the      *)
(* handlers of server.js that drive it.  All configurations modelled here  *)
(* name the same pair of buckets and the same two prefixes, so there is    *)
(* one checkpoint file.  The prefixes are independent: each restricts the  *)
(* listing of its own bucket, and a copy keeps its key.                    *)
(*                                                                         *)
(* The program is a single-threaded event loop: an action is the code that *)
(* runs between two awaits.  A listing is read atomically for one page of  *)
(* the source and for the whole destination.  The files of a run are a set *)
(* (`todo') of which a worker takes any element; the code takes the first. *)
(*                                                                         *)
(* The copy workers of a run live in a slot.  A run normally ends when all *)
(* its workers have left their loop, and one slot is enough.  When saving  *)
(* the checkpoint throws, Promise.all rejects and the run ends at once,    *)
(* while its other workers go on: they keep their slot.                    *)
(***************************************************************************)
EXTENDS Integers, FiniteSets

CONSTANTS
    NumKeys,        \* object keys are 1..NumKeys, in listing order
    Objects,        \* the object versions the source can hold
    Absent,         \* no object under a key
    LargeSize,      \* multipartThresholdMb: larger objects use Upload
    SrcScope,       \* the keys under source.prefix ...
    DstScope,       \* ... and those under dest.prefix
    Included,       \* the keys that pass the include/exclude patterns
    InitSrc,        \* possible initial contents of the source ...
    InitDst,        \* ... and of the destination
    Configs,        \* the configurations a user starts
    NoConfig,
    WellFormed,     \* those with a source and a destination
    DryRun,         \* those with settings.dryRun
    Deleting,       \* those with settings.deleteOrphaned
    Repeating,      \* those with settings.intervalSeconds > 0
    Workers,        \* settings.concurrency of them
    Ready, Exited,  \* a worker at its loop test, and one that has left
    PageSize,       \* keys covered by a page of the source listing
    SaveEvery,      \* files between two checkpoint saves (100 in the code)
    FailedCap,      \* entries of lastFailedObjects (10 000 in the code)
    NoCheckpoint,
    Slots,          \* bound: worker pools alive at once
    DiskMayFail,    \* whether saveCheckpoint can throw
    MaxEdits        \* bound: changes made to the source by others

Keys == 1..NumKeys

ASSUME SyncAssumption ==
    /\ NumKeys \in Nat
    /\ Objects \subseteq [body : Nat, size : Nat,
                          etag : {"none", "plain", "multipart"}]
    /\ Absent \notin Objects
    /\ LargeSize \in Nat
    /\ SrcScope \subseteq Keys /\ DstScope \subseteq Keys
    /\ Included \subseteq Keys
    /\ NoConfig \notin Configs
    /\ WellFormed \subseteq Configs /\ DryRun \subseteq Configs
    /\ Deleting \subseteq Configs /\ Repeating \subseteq Configs
    /\ PageSize \in Nat \ {0} /\ SaveEvery \in Nat \ {0}
    /\ FailedCap \in Nat /\ MaxEdits \in Nat
    /\ \A S \in SUBSET Keys : NoCheckpoint # S
    /\ Slots # {} /\ Workers # {}
    /\ DiskMayFail \in BOOLEAN

VARIABLES
    src, dst,       \* contents of the two buckets
    cp,             \* the checkpoint file: the keys it lists
    running, stopRequested, timer, config, stats, lastFailed,  \* syncState.js
    lastReason,     \* reason of the last sync:stopped
    shuttingDown,   \* SIGTERM or SIGINT was received
    \* locals of the run in progress
    kind,           \* "sync" (startSync) or "retry" (retryFailed)
    phase, cur, dstListed, scanned, seen, doomed, deleting,
    \* locals of each worker pool
    todo, busy, completed, dirty,
    \* history and bounds
    changed,        \* keys edited since a run last began from nothing
    intent,         \* what the user last asked for
    edits           \* changes made to the source so far

bucketVars == <<src, dst, changed, edits>>
stateVars  == <<running, stopRequested, config, stats, lastFailed>>
runVars    == <<kind, phase, cur, dstListed, scanned, seen, doomed, deleting>>
poolVars   == <<todo, busy, completed, dirty>>
envVars    == <<shuttingDown, intent>>

vars == <<bucketVars, cp, stateVars, timer, lastReason, runVars, poolVars, envVars>>

-----------------------------------------------------------------------------
(* Objects and the decision to copy them. *)

\* The destination lists a copied object with its own ETag: that of a
\* multipart upload when Upload was used.
Stored(o, large) == [o EXCEPT !.etag = IF large THEN "multipart" ELSE "plain"]

Large(o) == o.size >= LargeSize

DstObjects == {Stored(o, l) : o \in Objects, l \in BOOLEAN}

\* needsCopy: equal sizes and an ETag that is missing or of a multipart
\* upload count as equal.  Two plain ETags are equal iff the bodies are.
NeedsCopy(s, d) ==
    \/ d = Absent
    \/ s.size # d.size
    \/ s.etag = "plain" /\ d.etag = "plain" /\ s.body # d.body

\* The next sync would not copy key k.
Current(k) == src[k] # Absent => dst[k] # Absent /\ ~NeedsCopy(src[k], dst[k])

\* A file to copy: an object the source listed.
Item == [key : SrcScope, obj : Objects]

\* A copy in flight: the object as listed, the body GetObject returned, and
\* stats.failed when the worker took it.
Task == [key : SrcScope, listed : Objects, got : Objects \cup {Absent}, before : Nat]

ASSUME SyncValuesAssumption ==
    /\ Absent \notin DstObjects
    /\ InitSrc \subseteq [Keys -> Objects \cup {Absent}]
    /\ InitDst \subseteq [Keys -> DstObjects \cup {Absent}]
    /\ Ready \notin Task /\ Exited \notin Task /\ Ready # Exited

\* PutObject is sent with the listed ContentLength; Upload is not.
CanCopy(t) == t.got # Absent /\ (Large(t.listed) \/ t.got.size = t.listed.size)

\* Fault for the mutation runs: what was fetched is kept instead of what was
\* listed.
ItemOfFetched(t) == [key |-> t.key, obj |-> t.got]

ItemOf(t) == [key |-> t.key, obj |-> t.listed]

Copying(r) == {w \in Workers : busy[r][w] \in Task}

Drained(r) == \A w \in Workers : busy[r][w] = Exited

ZeroStats == [total |-> 0, synced |-> 0, failed |-> 0, skipped |-> 0]

IsDry == config \in DryRun /\ kind = "sync"

NothingListed == [k \in Keys |-> Absent]

EmptyPools ==
    /\ todo = [r \in Slots |-> {}]
    /\ busy = [r \in Slots |-> [w \in Workers |-> Exited]]
    /\ completed = [r \in Slots |-> {}]
    /\ dirty = [r \in Slots |-> 0]

Init ==
    /\ src \in InitSrc /\ dst \in InitDst
    /\ cp = NoCheckpoint
    /\ running = FALSE /\ stopRequested = FALSE
    /\ timer = NoConfig /\ config = NoConfig
    /\ stats = ZeroStats /\ lastFailed = {} /\ lastReason = "none"
    /\ kind = "sync" /\ phase = "idle"
    /\ cur = CHOOSE r \in Slots : TRUE
    /\ dstListed = NothingListed /\ scanned = 0 /\ seen = {}
    /\ doomed = {} /\ deleting = {}
    /\ EmptyPools
    /\ changed = {} /\ intent = "none" /\ edits = 0
    /\ shuttingDown = FALSE

-----------------------------------------------------------------------------
(* Starting a run. *)

\* Fault for the mutation runs: the list of failures is not reset.
ResetStatsKeepsFailures(s) ==
    stats' = s /\ stopRequested' = FALSE /\ UNCHANGED lastFailed

ResetStats(s) == stats' = s /\ stopRequested' = FALSE /\ lastFailed' = {}

\* startSync up to its first await: with a configuration that has no source
\* it throws after setting `running', outside its try block.  Otherwise the
\* checkpoint is loaded and the destination listing begins.
BeginSync(c) ==
    /\ running' = TRUE /\ config' = c /\ kind' = "sync"
    /\ ResetStats(ZeroStats)
    /\ phase' = IF c \in WellFormed THEN "list" ELSE "wedged"
    /\ \E r \in Slots :
         /\ Drained(r)
         /\ cur' = r
         /\ todo' = [todo EXCEPT ![r] = {}]
         /\ dirty' = [dirty EXCEPT ![r] = 0]
         /\ completed' = [completed EXCEPT ![r] = IF cp = NoCheckpoint THEN {} ELSE cp]
    /\ changed' = IF cp = NoCheckpoint /\ \A r \in Slots : Drained(r)
                    THEN {} ELSE changed
    /\ UNCHANGED <<src, dst, edits, cp, lastReason, busy, dstListed, scanned,
                   seen, doomed, deleting, shuttingDown>>

\* POST /api/start, /api/jobs/:id/start and /api/jobs/start.
UserStart(c) ==
    /\ ~shuttingDown
    /\ ~running
    /\ BeginSync(c)
    /\ intent' = IF c \in Repeating THEN "repeat" ELSE "none"
    /\ UNCHANGED timer

\* Fault for the mutation runs: startSync without its test of `running'.
TimerFiresUnguarded ==
    /\ timer # NoConfig
    /\ timer' = NoConfig
    /\ BeginSync(timer)
    /\ UNCHANGED intent

\* The repeat timer calls startSync, which does nothing if a run is going on.
TimerFires ==
    /\ timer # NoConfig
    /\ timer' = NoConfig
    /\ IF running
         THEN UNCHANGED <<bucketVars, cp, stateVars, lastReason, runVars,
                          poolVars, envVars>>
         ELSE BeginSync(timer) /\ UNCHANGED intent

\* POST /api/retry-failed: the failed objects of the last run, with its
\* configuration, without listing, checkpoint or history.
UserRetry ==
    /\ ~shuttingDown
    /\ ~running
    /\ lastFailed # {}
    /\ config # NoConfig
    /\ running' = TRUE /\ kind' = "retry" /\ phase' = "copy"
    /\ ResetStats([ZeroStats EXCEPT !.total = Cardinality(lastFailed)])
    /\ \E r \in Slots :
         /\ Drained(r)
         /\ cur' = r
         /\ todo' = [todo EXCEPT ![r] = lastFailed]
         /\ busy' = [busy EXCEPT ![r] = [w \in Workers |-> Ready]]
         /\ completed' = [completed EXCEPT ![r] = {}]
         /\ dirty' = [dirty EXCEPT ![r] = 0]
    /\ doomed' = {}
    /\ intent' = IF intent = "stopped" THEN "none" ELSE intent
    /\ UNCHANGED <<bucketVars, cp, config, timer, lastReason, dstListed, scanned,
                   seen, deleting, shuttingDown>>

-----------------------------------------------------------------------------
(* Ending a run: the code of startSync and retryFailed after the last await. *)

\* Fault for the mutation runs: the timer is armed whatever the reason.
ArmsTimerAlways(reason) == kind = "sync" /\ config \in Repeating

\* Whether the next repeat cycle is scheduled.
ArmsTimer(reason) ==
    reason = "completed" /\ kind = "sync" /\ config \in Repeating

\* The locals of the run are given their initial values again.
RunEnds(reason) ==
    /\ running' = FALSE /\ phase' = "idle" /\ lastReason' = reason
    /\ timer' = IF ArmsTimer(reason) THEN config ELSE timer
    /\ kind' = "sync" /\ dstListed' = NothingListed /\ scanned' = 0
    /\ seen' = {} /\ doomed' = {} /\ deleting' = {}
    /\ UNCHANGED <<cur, stopRequested, config>>

RemoveCheckpoint(reason) ==
    cp' = IF reason = "completed" /\ kind = "sync" THEN NoCheckpoint ELSE cp

PoolEnds ==
    /\ todo' = [todo EXCEPT ![cur] = {}]
    /\ completed' = [completed EXCEPT ![cur] = {}]
    /\ dirty' = [dirty EXCEPT ![cur] = 0]
    /\ UNCHANGED busy

Outcome == IF stopRequested THEN "user_stopped" ELSE "completed"

-----------------------------------------------------------------------------
(* Phases 1 and 2: the listings. *)

\* What a listing of the destination answers: the objects under its prefix.
DstListing == [k \in Keys |-> IF k \in DstScope THEN dst[k] ELSE Absent]

ListDst ==
    /\ phase = "list"
    /\ dstListed' = DstListing
    /\ phase' = "scan" /\ scanned' = 0 /\ seen' = {}
    /\ UNCHANGED <<bucketVars, cp, stateVars, timer, lastReason, poolVars,
                   envVars, kind, cur, doomed, deleting>>

\* Either listing fails.
ListFails ==
    /\ phase \in {"list", "scan"}
    /\ RunEnds("fatal_error")
    /\ PoolEnds
    /\ UNCHANGED <<bucketVars, cp, stats, lastFailed, envVars>>

\* The objects of a page that are put on the list of files to copy.
ToCopy(page) ==
    {k \in page : /\ k \in Included
                  /\ k \notin completed[cur]
                  /\ NeedsCopy(src[k], dstListed[k])}

\* Fault for the mutation runs: a file the checkpoint lists is not counted.
SkippedUnlessResumed(page) == {k \in page \ ToCopy(page) : k \notin completed[cur]}

Skipped(page) == page \ ToCopy(page)

ScanPage ==
    LET last == IF scanned + PageSize < NumKeys THEN scanned + PageSize ELSE NumKeys
        page == {k \in (scanned + 1)..last : k \in SrcScope /\ src[k] # Absent}
    IN  /\ phase = "scan"
        /\ ~stopRequested
        /\ scanned < NumKeys
        /\ scanned' = last
        /\ seen' = seen \cup page
        /\ todo' = [todo EXCEPT ![cur] =
                      @ \cup {[key |-> k, obj |-> src[k]] : k \in ToCopy(page)}]
        /\ stats' = [stats EXCEPT
                      !.total = @ + Cardinality(page),
                      !.skipped = @ + Cardinality(Skipped(page))]
        /\ UNCHANGED <<bucketVars, cp, running, stopRequested, config, lastFailed,
                       timer, lastReason, busy, completed, dirty, envVars, kind,
                       phase, cur, dstListed, doomed, deleting>>

\* The scan is over or was stopped: orphans are what the destination had and
\* the scan did not see.  A dry run has no workers of its own.
EndScan ==
    /\ phase = "scan"
    /\ stopRequested \/ scanned = NumKeys
    /\ phase' = "copy"
    /\ dstListed' = NothingListed
    /\ doomed' = IF config \in Deleting \ DryRun
                   THEN {k \in Keys : dstListed[k] # Absent /\ k \notin seen}
                   ELSE {}
    /\ busy' = IF IsDry THEN busy
               ELSE [busy EXCEPT ![cur] = [w \in Workers |-> Ready]]
    /\ UNCHANGED <<bucketVars, cp, stateVars, timer, lastReason, todo, completed,
                   dirty, envVars, kind, cur, scanned, seen, deleting>>

-----------------------------------------------------------------------------
(* Phase 3: the copy workers. *)

\* Fault for the mutation runs: the loop stops one file early.
OneLeft(r) == Cardinality(todo[r]) <= 1

NoneLeft(r) == todo[r] = {}

\* The worker at the top of its loop takes a file, or leaves.  GetObject is
\* sent at once and answers with the object there is.
TakeFile(r, w) ==
    /\ busy[r][w] = Ready
    /\ \/ /\ stopRequested \/ NoneLeft(r)
          /\ busy' = [busy EXCEPT ![r][w] = Exited]
          /\ UNCHANGED todo
       \/ /\ ~stopRequested
          /\ \E i \in todo[r] :
               /\ busy' = [busy EXCEPT ![r][w] =
                     [key |-> i.key, listed |-> i.obj, got |-> src[i.key],
                      before |-> stats.failed]]
               /\ todo' = [todo EXCEPT ![r] = @ \ {i}]
    /\ UNCHANGED <<bucketVars, cp, stateVars, timer, lastReason, runVars,
                   completed, dirty, envVars>>

\* The copy phase of a retry has no checkpoint.
IsRetry(r) == r = cur /\ kind = "retry"

\* Fault for the mutation runs: every file taken counts as done.
CountsAsDoneAlways(r, t, failed) == ~IsRetry(r)

\* The file counts as done for the checkpoint if stats.failed is what it was
\* when the worker took it.
CountsAsDone(r, t, failed) == ~IsRetry(r) /\ failed = t.before

\* Every SaveEvery such files the checkpoint is saved.
Settles(r, t, failed) ==
    LET done == CountsAsDone(r, t, failed)
        save == done /\ dirty[r] + 1 >= SaveEvery
    IN  /\ completed' = IF done THEN [completed EXCEPT ![r] = @ \cup {t.key}]
                                ELSE completed
        /\ dirty' = IF save THEN [dirty EXCEPT ![r] = 0]
                    ELSE IF done THEN [dirty EXCEPT ![r] = @ + 1] ELSE dirty
        /\ cp' = IF save THEN completed'[r] ELSE cp

CopySucceeds(r, w) ==
    LET t == busy[r][w]
    IN  /\ t \in Task
        /\ CanCopy(t)
        /\ dst' = [dst EXCEPT ![t.key] = Stored(t.got, Large(t.listed))]
        /\ stats' = [stats EXCEPT !.synced = @ + 1]
        /\ Settles(r, t, stats.failed)
        /\ busy' = [busy EXCEPT ![r][w] = Ready]
        /\ UNCHANGED <<src, changed, edits, running, stopRequested, config,
                       lastFailed, timer, lastReason, todo, envVars, runVars>>

\* The transfer fails or times out; the object may have been written all the
\* same.  A worker that dies of a full disk is SaveFails.
CopyFails(r, w) ==
    LET t == busy[r][w]
    IN  /\ t \in Task
        /\ \/ UNCHANGED dst
           \/ CanCopy(t) /\ dst' = [dst EXCEPT ![t.key] = Stored(t.got, Large(t.listed))]
        /\ stats' = [stats EXCEPT !.failed = @ + 1]
        /\ lastFailed' = IF Cardinality(lastFailed) < FailedCap
                           THEN lastFailed \cup {ItemOf(t)} ELSE lastFailed
        /\ Settles(r, t, stats.failed + 1)
        /\ busy' = [busy EXCEPT ![r][w] = Ready]
        /\ UNCHANGED <<src, changed, edits, running, stopRequested, config,
                       timer, lastReason, todo, envVars, runVars>>

\* saveCheckpoint throws after a successful copy.  The worker's promise
\* rejects; if its run was still going on, the run ends, its other workers
\* do not.
SaveFails(r, w) ==
    LET t == busy[r][w]
    IN  /\ DiskMayFail
        /\ t \in Task
        /\ CanCopy(t)
        /\ CountsAsDone(r, t, stats.failed) /\ dirty[r] + 1 >= SaveEvery
        /\ dst' = [dst EXCEPT ![t.key] = Stored(t.got, Large(t.listed))]
        /\ stats' = [stats EXCEPT !.synced = @ + 1]
        /\ completed' = [completed EXCEPT ![r] = @ \cup {t.key}]
        /\ dirty' = [dirty EXCEPT ![r] = @ + 1]
        /\ busy' = [busy EXCEPT ![r][w] = Exited]
        /\ IF r = cur /\ phase = "copy"
             THEN RunEnds("fatal_error")
             ELSE UNCHANGED <<running, stopRequested, config, lastReason, timer, runVars>>
        /\ UNCHANGED <<src, changed, edits, cp, lastFailed, todo, envVars>>

\* Fault for the mutation runs: the delete phase does not look at stopRequested.
MayDeleteAlways == TRUE

\* Neither the delete phase nor any of its workers begins after a stop.
MayDelete == ~stopRequested

\* Promise.all over the copy workers is fulfilled.
EndCopy ==
    /\ phase = "copy"
    /\ ~IsDry
    /\ Drained(cur)
    /\ IF doomed # {} /\ MayDelete
         THEN /\ phase' = "delete"
              /\ UNCHANGED <<running, stopRequested, config, lastReason, timer, cp,
                             kind, cur, dstListed, scanned, seen, doomed, deleting,
                             poolVars>>
         ELSE RunEnds(Outcome) /\ RemoveCheckpoint(Outcome) /\ PoolEnds
    /\ UNCHANGED <<bucketVars, stats, lastFailed, envVars>>

\* A dry run counts every file as synced, without an await on the way.
DryCopy ==
    /\ phase = "copy"
    /\ IsDry
    /\ stats' = IF stopRequested THEN stats
                ELSE [stats EXCEPT !.synced = @ + Cardinality(todo[cur])]
    /\ RunEnds(Outcome)
    /\ RemoveCheckpoint(Outcome)
    /\ PoolEnds
    /\ UNCHANGED <<bucketVars, lastFailed, envVars>>

-----------------------------------------------------------------------------
(* Phase 4: the orphans.  Their workers are interchangeable. *)

TakeOrphan(k) ==
    /\ phase = "delete"
    /\ MayDelete
    /\ k \in doomed
    /\ Cardinality(deleting) < Cardinality(Workers)
    /\ doomed' = doomed \ {k}
    /\ deleting' = deleting \cup {k}
    /\ UNCHANGED <<bucketVars, cp, stateVars, timer, lastReason, poolVars,
                   envVars, kind, phase, cur, dstListed, scanned, seen>>

\* deleteObject answers; an error is logged and forgotten.
OrphanDone(k) ==
    /\ k \in deleting
    /\ deleting' = deleting \ {k}
    /\ \/ dst' = [dst EXCEPT ![k] = Absent]
       \/ UNCHANGED dst
    /\ UNCHANGED <<src, changed, edits, cp, stateVars, timer, lastReason, poolVars,
                   envVars, kind, phase, cur, dstListed, scanned, seen, doomed>>

\* Fault for the mutation runs: a stop does not end the delete phase.
NoOrphanLeft == doomed = {}

OrphansDone == doomed = {} \/ stopRequested

EndDelete ==
    /\ phase = "delete"
    /\ deleting = {}
    /\ OrphansDone
    /\ RunEnds(Outcome)
    /\ RemoveCheckpoint(Outcome)
    /\ PoolEnds
    /\ UNCHANGED <<bucketVars, stats, lastFailed, envVars>>

-----------------------------------------------------------------------------
(* The user and the world. *)

\* POST /api/stop.
UserStop ==
    /\ ~shuttingDown
    /\ timer' = NoConfig
    /\ stopRequested' = (stopRequested \/ running)
    /\ intent' = "stopped"
    /\ UNCHANGED <<bucketVars, cp, running, config, stats, lastFailed, lastReason,
                   runVars, poolVars, shuttingDown>>

\* DELETE /api/checkpoints/:key.
UserRemovesCheckpoint ==
    /\ ~shuttingDown
    /\ cp' = NoCheckpoint
    /\ UNCHANGED <<bucketVars, stateVars, timer, lastReason, runVars, poolVars, envVars>>

\* shutdown(): SIGTERM or SIGINT.
Shutdown ==
    /\ ~shuttingDown
    /\ shuttingDown' = TRUE
    /\ stopRequested' = (stopRequested \/ running)
    /\ UNCHANGED <<bucketVars, cp, running, config, stats, lastFailed, timer,
                   lastReason, runVars, poolVars, intent>>

\* What the requests in flight would still do to the destination.
InFlight ==
    LET Tasks == {t \in {busy[r][w] : r \in Slots, w \in Workers} : t \in Task /\ CanCopy(t)}
    IN  {[key |-> t.key, obj |-> Stored(t.got, Large(t.listed))] : t \in Tasks}
          \cup {[key |-> k, obj |-> Absent] : k \in deleting}

WrittenBy(E, k) ==
    IF \E e \in E : e.key = k THEN (CHOOSE e \in E : e.key = k).obj ELSE dst[k]

\* The process dies (a crash, or the end of a shutdown) and is started again.
\* The bucket keeps what was written; requests in flight may or may not take
\* effect.
Restart ==
    /\ \E E \in SUBSET InFlight : dst' = [k \in Keys |-> WrittenBy(E, k)]
    /\ running' = FALSE /\ stopRequested' = FALSE
    /\ timer' = NoConfig /\ config' = NoConfig
    /\ stats' = ZeroStats /\ lastFailed' = {} /\ lastReason' = "none"
    /\ kind' = "sync" /\ phase' = "idle" /\ dstListed' = NothingListed
    /\ scanned' = 0 /\ seen' = {} /\ doomed' = {} /\ deleting' = {}
    /\ todo' = [r \in Slots |-> {}]
    /\ busy' = [r \in Slots |-> [w \in Workers |-> Exited]]
    /\ completed' = [r \in Slots |-> {}]
    /\ dirty' = [r \in Slots |-> 0]
    /\ shuttingDown' = FALSE /\ intent' = "none"
    /\ UNCHANGED <<src, changed, edits, cp, cur>>

\* Somebody writes to or deletes from the source bucket.
EditSource(k, o) ==
    /\ edits < MaxEdits
    /\ edits' = edits + 1
    /\ o # src[k]
    /\ src' = [src EXCEPT ![k] = o]
    /\ changed' = changed \cup {k}
    /\ UNCHANGED <<dst, cp, stateVars, timer, lastReason, runVars, poolVars, envVars>>

Engine ==
    \/ ListDst
    \/ ScanPage
    \/ EndScan
    \/ \E r \in Slots, w \in Workers : TakeFile(r, w)
    \/ \E r \in Slots, w \in Workers : CopySucceeds(r, w)
    \/ EndCopy
    \/ DryCopy
    \/ \E k \in Keys : TakeOrphan(k)
    \/ \E k \in Keys : OrphanDone(k)
    \/ EndDelete

Failure ==
    \/ ListFails
    \/ \E r \in Slots, w \in Workers : CopyFails(r, w)
    \/ \E r \in Slots, w \in Workers : SaveFails(r, w)
    \/ Restart

User ==
    \/ \E c \in Configs : UserStart(c)
    \/ UserRetry
    \/ UserStop
    \/ UserRemovesCheckpoint
    \/ Shutdown
    \/ \E k \in Keys, o \in Objects \cup {Absent} : EditSource(k, o)

Next == Engine \/ Failure \/ TimerFires \/ User

Spec == Init /\ [][Next]_vars

\* Every request in flight is answered or times out, and the event loop runs
\* what is ready; a failure may take the place of any answer.
Fairness ==
    /\ WF_vars(ListDst \/ ListFails \/ ScanPage \/ EndScan \/ EndCopy \/ DryCopy \/ EndDelete)
    /\ \A r \in Slots, w \in Workers :
          WF_vars(TakeFile(r, w) \/ CopySucceeds(r, w) \/ CopyFails(r, w) \/ SaveFails(r, w))
    /\ \A k \in Keys : WF_vars(TakeOrphan(k) \/ OrphanDone(k))

FairSpec == Spec /\ Fairness

-----------------------------------------------------------------------------
(* Properties. *)

\* Types of the engine's state: files to copy are under the source's prefix,
\* what is listed at the destination or to be deleted is under its own.
TypeOK ==
    /\ src \in [Keys -> Objects \cup {Absent}]
    /\ dst \in [Keys -> DstObjects \cup {Absent}]
    /\ cp = NoCheckpoint \/ cp \in SUBSET SrcScope
    /\ running \in BOOLEAN /\ stopRequested \in BOOLEAN
    /\ timer \in Configs \cup {NoConfig} /\ config \in Configs \cup {NoConfig}
    /\ stats \in [total : Nat, synced : Nat, failed : Nat, skipped : Nat]
    /\ lastFailed \subseteq Item
    /\ lastReason \in {"none", "completed", "user_stopped", "fatal_error"}
    /\ shuttingDown \in BOOLEAN
    /\ kind \in {"sync", "retry"}
    /\ phase \in {"idle", "list", "scan", "copy", "delete", "wedged"}
    /\ cur \in Slots
    /\ dstListed \in [Keys -> DstObjects \cup {Absent}]
    /\ scanned \in 0..NumKeys
    /\ \A k \in Keys \ DstScope : dstListed[k] = Absent
    /\ seen \subseteq Keys /\ doomed \subseteq DstScope /\ deleting \subseteq DstScope
    /\ todo \in [Slots -> SUBSET Item]
    /\ busy \in [Slots -> [Workers -> Task \cup {Ready, Exited}]]
    /\ completed \in [Slots -> SUBSET SrcScope]
    /\ dirty \in [Slots -> Nat]
    /\ changed \subseteq Keys
    /\ intent \in {"none", "stopped", "repeat"}
    /\ edits \in 0..MaxEdits

\* A checkpoint tells the truth: a key it lists, on disk or in the memory of
\* a pool that may still save it, needs no copy unless the source changed
\* since.  syncEngine.js:249 "Only checkpoint files that actually succeeded
\* - failed files must be retried on resume, not silently skipped".
Live(r) == ~Drained(r) \/ (r = cur /\ running)
Trusted == (IF cp = NoCheckpoint THEN {} ELSE cp)
             \cup UNION {completed[r] : r \in {s \in Slots : Live(s)}}
CheckpointSound == \A k \in Trusted : k \in changed \/ Current(k)

\* Only what a whole listing of the source lacks is deleted: an object
\* disappears from the destination only if it is under the destination's
\* prefix and the source has none of its key under its own prefix, or it was
\* edited meanwhile.  A scan cut short by a stop sees few keys, and must not
\* make orphans of the rest.  (README.md:17 "remove destination files that no
\* longer exist in the source" is true only if the source's prefix has
\* every key that the destination's has.)
OnlyOrphansDeleted ==
    [][\A k \in Keys : dst[k] # Absent /\ dst'[k] = Absent
          => k \in DstScope /\ (k \notin SrcScope \/ src[k] = Absent \/ k \in changed)]_vars

\* The counters the UI shows add up while files are copied: every listed
\* object is synced, failed, skipped, waiting or in flight.
StatsAddUp ==
    phase \in {"copy", "delete"} =>
        stats.total = stats.synced + stats.failed + stats.skipped
                        + Cardinality(todo[cur]) + Cardinality(Copying(cur))

\* Every failure of the last run can be retried, up to the cap.
FailuresRemembered ==
    Cardinality(lastFailed) =
        IF stats.failed <= FailedCap THEN stats.failed ELSE FailedCap

\* After a stop nothing starts, and nothing will start by itself, until the
\* user asks for it: the repeat timer is disarmed, and a run in progress is
\* ending and will not arm it again.
StopIsFinal ==
    intent = "stopped" => timer = NoConfig /\ (running => stopRequested)

\* A completed run has mirrored what it lists of the source: when no file
\* failed, every key under its prefix that passes the filter and was not
\* edited since needs no copy.
CompletedMeansMirrored ==
    [][ running /\ ~running' /\ lastReason' = "completed"
          /\ kind = "sync" /\ ~IsDry /\ stats.failed = 0
        => \A k \in (SrcScope \cap Included) \ changed : Current(k) ]_vars

\* Every run ends, by itself or soon after a stop.
RunEventuallyEnds == running ~> ~running
-----------------------------------------------------------------------------
(* The inductive invariants behind OnlyOrphansDeleted, StopIsFinal,        *)
(* CheckpointSound, StatsAddUp, FailuresRemembered and                     *)
(* CompletedMeansMirrored.                                                 *)

PhaseInv ==
    /\ running <=> phase # "idle"
    /\ phase = "idle" => doomed = {}
    /\ phase # "delete" => deleting = {}

\* The source lists no object under key k, or somebody edited it.
GoneOrEdited(k) == k \notin SrcScope \/ src[k] = Absent \/ k \in changed

\* What the scan has passed without seeing it is gone from the source, and
\* so is all that is doomed or being deleted; a list of orphans made by a
\* scan that was cut short is wrong, and is not used.
OrphanInv ==
    /\ phase = "scan" => \A k \in Keys : k <= scanned => k \in seen \/ GoneOrEdited(k)
    /\ phase \in {"copy", "delete"} /\ ~stopRequested => \A k \in doomed : GoneOrEdited(k)
    /\ \A k \in deleting : GoneOrEdited(k)

\* A run's bookkeeping of orphans and of stops is right.
SafeInv == PhaseInv /\ OrphanInv /\ StopIsFinal

NoZombies == \A r \in Slots : ~Drained(r) => r = cur /\ phase = "copy" /\ ~IsDry

\* stats.failed only grows while a copy is in flight, and what was fetched
\* is what the source has unless it was edited.
TasksInv ==
    \A r \in Slots, w \in Workers :
        busy[r][w] \in Task =>
            /\ busy[r][w].before <= stats.failed
            /\ busy[r][w].got = src[busy[r][w].key] \/ busy[r][w].key \in changed

\* While the checkpoint can be saved, no worker outlives its run, what it
\* compares is of its own run, and the checkpoint is sound.
CheckInv == NoZombies /\ TasksInv /\ CheckpointSound

\* Each file of the run in progress is in one place: on the list, with one
\* worker, or among the failures.
InOnePlace ==
    /\ todo[cur] \cap lastFailed = {}
    /\ \A w \in Copying(cur) :
          /\ ItemOf(busy[cur][w]) \notin todo[cur] \cup lastFailed
          /\ \A v \in Copying(cur) :
                ItemOf(busy[cur][v]) = ItemOf(busy[cur][w]) => v = w

\* Before the copy phase every object seen is skipped or on the list, which
\* has only keys that the scan has passed.
ScanInv ==
    /\ phase \in {"list", "scan"} =>
          /\ lastFailed = {} /\ stats.failed = 0 /\ stats.synced = 0
          /\ stats.total = stats.skipped + Cardinality(todo[cur])
    /\ phase = "list" => todo[cur] = {}
    /\ phase = "scan" => \A i \in todo[cur] : i.key <= scanned

\* The counters follow the files.
TallyInv ==
    InOnePlace /\ ScanInv /\ IsFiniteSet(Copying(cur)) /\ StatsAddUp /\ FailuresRemembered

\* A worker of the run will still copy key k, or has it in hand.
Pending(k) ==
    \/ \E i \in todo[cur] : i.key = k
    \/ \E w \in Copying(cur) : busy[cur][w].key = k

\* A full run that lost no file: what it has passed is current or pending.
PassedInv ==
    phase \in {"scan", "copy", "delete"} /\ kind = "sync" /\ ~IsDry /\ stats.failed = 0 =>
        \A k \in (SrcScope \cap Included) \ changed :
            k <= scanned => Current(k) \/ Pending(k)

\* A run that is not stopped passes every key, and its workers leave nothing.
NothingLeftInv ==
    ~stopRequested =>
        /\ phase \in {"copy", "delete"} /\ kind = "sync" => scanned = NumKeys
        /\ phase = "copy" /\ ~IsDry /\ (\E w \in Workers : busy[cur][w] = Exited) => NoneLeft(cur)
        /\ phase = "delete" => NoneLeft(cur)

\* While the source is scanned nobody writes to the destination.
MirrorInv == (phase = "scan" => dstListed = DstListing) /\ PassedInv /\ NothingLeftInv
=============================================================================
