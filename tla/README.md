# Formal models of S3 Backup Studio

TLA+ models of the server in this repository, checked with TLC on small
instances and, for what matters most, proved with TLAPS for every value of the
constants.  Definitions are translated from the source (`src/*.js`,
`server.js`); every definition that stands for code is listed with its lines in
`PROJECT.json` under `map`.

The program is one Node.js process.  Its event loop runs one callback at a
time, so an action of a model is the code between two `await`s; interleavings
come from the awaits, and failures from S3, PostgreSQL, child processes and the
disk.

## 1. The system

| Component | State | Operations | Talks to |
|---|---|---|---|
| S3 sync engine (`syncEngine.js`, `syncState.js`, `checkpoint.js`) | `running`, `stopRequested`, `repeatTimer`, `config`, `stats`, `lastFailedObjects`; one checkpoint file per pair of buckets; locals of a run | `startSync`, `retryFailed`, `stopSync`, repeat timer | S3, rate limiter, history, metrics, notifier |
| Bandwidth limiter (`rateLimiter.js`) | limit, balance, queue, drain timer | `consume`, `setLimit`, `drain` | every transfer of the sync engine |
| Database table sync (`dbSyncEngine.js`, `dbSyncState.js`, `dbClient.js`) | `dbState`, the same shape as the sync engine's; two connection pools and the workers of a run | `startDbSync`, `retryFailedDbTables`, `stopDbSync`, repeat timer | two PostgreSQL databases |
| Cluster connection (`dbCluster.js`, `server.js`) | one shared pool | connect, status, disconnect | PostgreSQL |
| Backup engine (`backupEngine.js`) | active backups and restores; the catalog file; the job file | `startBackup`, `startRestore`, `verifyBackup`, `applyRetention`, `rotateKey`, catalog deletion | child processes, storage targets, catalog, jobs |
| Backup encryption (`backupCrypto.js`) | what one stream has buffered | an encrypting and a decrypting stream | backup engine, `node:crypto` |
| Backup scheduler (`backupScheduler.js`) | one repeating timer per job, the minute it last fired, jobs being triggered | `scheduleJob`, `unscheduleJob`, `rescheduleJob` | backup engine, job file |
| Backup stores (`backupCatalog.js`, `backupJobStore.js`, `backupStore.js`) | two JSON files, artifacts in S3 or on disk | create, update, delete; write, read, delete artifact | disk, S3 |
| Saved jobs, active jobs (`jobStore.js`, `jobRunner.js`) | a JSON file; a map of "active" jobs | CRUD; add, pause, resume, stop | sync engines |
| Outputs (`history.js`, `metrics.js`, `notifier.js`, `logger.js`) | a file of 100 entries, counters | append | nothing reads them back |
| Dead code (`jobManager.js`, `dbClusterState.js`) | | | imported by nothing |
| Browser (`public/app.js`) | what each panel shows as running, its buttons | Start, Stop, Retry, connect, events, reload | server, by HTTP requests and a socket |

What is hard: workers of one run share counters and a to-do list; a stop, a
retry, a repeat timer, a crash and a restart fall between any two of their
steps; transfers share one token bucket whose limit may change while they wait;
catalog records are read, then awaited on, then written by several backup
operations at once; timers are late, outlive what they were made for, or fire
while what they started is still running; a page hears of the server by two ways
that overtake each other; an artifact comes in arbitrary chunks and is known to
be good only at its end.  `PROJECT.json` lists the hazards at their lines, with
the properties that watch over them.

What makes each component correct, in a sentence: the limiter forgets nobody and
never lets more through than its limit; a sync copies what it reports, deletes
only orphans, resumes without skipping, stops when told and always ends; so does
the table sync, and it takes its pools and workers down with it; a backup is what
its checksum says, gone when it is called deleted, and kept as long as the policy
asks; the scheduler starts a job when its stored schedule says so, and only then;
an artifact gives back the dump or nothing; a page shows what the server does.

## 2. Modules

| Module | What it is |
|---|---|
| `RateLimiter` | the token bucket: consumers, drain loop, timer, `setLimit`, abandoned transfers, a clock in ticks |
| `RateLimiterBudget` | the same with a measured stretch of time: bytes let through and ticks elapsed |
| `RateLimiterProofs` | types, no lost wake-up, bounded burst, bounded throughput, timers that miss less than a tick |
| `SyncEngine` | the S3 sync engine with its checkpoint, timer, HTTP handlers, buckets, failures and restarts |
| `SyncControl` | abstract: one run at a time, what may begin and end it |
| `SyncEngineRefinement` | the refinement mapping from `SyncEngine` to `SyncControl` |
| `SyncEngineProofs` | types, a stop is final, only orphans are deleted, `SyncEngine` implements `SyncControl` |
| `SyncCheckpointProofs` | the checkpoint is sound, counters and failures add up, a completed run has mirrored |
| `BackupEngine` | the backup engine of one job with its catalog, job file, targets and operators' requests, failures, damage and crashes |
| `BackupProofs` | types, checksums, deletions and retention of `BackupEngine` |
| `BackupSchedule` | abstract: when a job may be started; with the calendar and the cron fields |
| `BackupScheduler` | timers, callbacks, changes of jobs, restarts; implements `BackupSchedule` |
| `BackupSchedulerProofs` | types, timers follow the file, starts are spaced, the scheduler implements `BackupSchedule` |
| `DbSync` | the table sync with its databases, pools, workers, timer and handlers; implements `SyncControl` |
| `DbSyncProofs` | types, what ends with a run, counters and failures, synced tables are copied, `DbSync` implements `SyncControl` |
| `BackupCrypto` | both streams of an artifact, with what can happen to it in between |
| `BackupCryptoProofs` | all or nothing comes out, an intact artifact is readable, damage is found |
| `Console` | the S3 or database panel of a page, composed with `SyncControl` as its server |
| `ConsoleProofs` | types, a page that missed nothing is right, a pressed Stop is answered |
| `MC*` | instances for TLC (`Console` is its own) |

`SyncControl` is the joint of three of them: `SyncEngine` and `DbSync` implement it,
and `Console` uses it for the server, so what holds of a page holds with either
engine behind it.

### How state and actions correspond to the code

* `RateLimiter`: `rate`, `tokens`, `queue`, `scheduled` are `maxBps` (per tick),
  `tokens`, `queue` and `draining` of `rateLimiter.js`; `elapsed` is
  `Date.now() - lastRefill`, `wait` the delay of the pending `setTimeout`, a
  fraction of which is lost: line 38 does not round it up and Node truncates it.
  `Consume`, `SetLimit`, `TimerFires` are the exported functions and the timer
  callback; `drain()` runs without an await and is the pair `DispatchHead`,
  `FinishDrain`, during which nothing else is enabled.
* `SyncEngine`: `running`, `stopRequested`, `timer`, `config`, `stats`,
  `lastFailed` are the fields of `syncState.js`; `cp` is the checkpoint file of
  `checkpoint.js`; `phase`, `dstListed`, `scanned`, `seen`, `doomed`, `todo`,
  `busy`, `completed`, `dirty` are the locals of `runOnce` and
  `runWorkerPool`; `src` and `dst` are the buckets, `SrcScope` and
  `DstScope` the keys under `source.prefix` and `dest.prefix`, which are set
  independently.  Each await of `runOnce` and
  `copyFile` ends an action.  `intent`, `changed` and `edits` are history.
* `BackupEngine`: `status`, `paths`, `sum`, `restored` are the catalog records of
  `backup-catalog.json`; `policy`, `jobKey` the job in `backup-jobs.json`;
  `store` the artifacts at the targets; `phase`, `dump`, `unwritten`, `written`
  the locals of `_runBackup` and `writeToTargets`; `pass`, `verify`, `del`,
  `restore`, `rot` the calls of `applyRetention`, `verifyBackup`, the catalog
  deletion handler, `_runRestore` and `rotateKey` that are waiting at an await.
  `ops`, `faults` count the bounds.  `retired` (what
  retention has ever chosen), `loosest` (the loosest of the rules it read) and
  `asked` (what operators asked to delete) are history.  Backups are numbered in
  the order of `startedAt`; artifacts are compared by content, so that equal
  contents stand for equal SHA-256 sums.  The synchronous stretch from the last
  write of a backup to the first deletion of its retention pass is one action
  (`Writes`), as is everything a pass does between two deletions (`GoOn`).
  A retention rule by day, week or month is a member of `Periods`, the period of
  each backup; the clock is not modelled, and a pass meets any cutoff for each
  rule (`since`): which backups are kept, given the dates, is the code's.
* `BackupScheduler`: `file` is `backup-jobs.json`, `timers` the map `_timers` with
  `lastFiredMinute` of each closure; `left` counts the ticks to the next callback and
  goes below 0 when it is late, and Node re-arms a repeating timer when its callback
  has run.  `clock` is the wall clock, `hit` and `since` are what `BackupSchedule`
  remembers of the last start.  `_runningJobs` is empty whenever a callback begins
  (`startBackup` returns before its first await), so its guard is not there.
* `DbSync`: `running`, `stopRequested`, `timer`, `config`, `stats`, `lastFailed` are
  the fields of `dbSyncState.js`; `kind`, `phase`, `reason`, `pools`, `todo`, `work`
  the locals of `startDbSync`, `runOnce`, `runWorkerPool` and `syncTable`; `src` and
  `dst` the two schemas.  A table is the set of its rows; each row has a key
  (`KeyOf`), and a destination table with a key (`Keyed`) keeps the first row of each,
  as `ON CONFLICT DO NOTHING` does.  `synced`, `fresh`, `edits`
  are history.
* `BackupCrypto`: `ciphertextChunks`, `headerBuffer`, `decipher`, `decryptedChunks` are
  the locals of the two streams (`NoCipher` is the `null` of `decipher`, and any other
  value of it means `headerConsumed`);
  `artifact` is what is stored.  A byte is what it depends on, so that a changed,
  missing or added byte, another key or another place gives a different tag.
* `Console`: `uiRunning`, `startEnabled`, `stopEnabled` are `uiRunning` or `dbRunning` and
  the buttons; `start`, `retry`, `status`, `stop` the page's requests in flight;
  `events` the stopped events on the socket; `mode`, `armed` the server
  (`SyncControl`).  `doubt` is history: an event was lost or overtaken.

## 3. What the runs check

| Run | Instance | Shows |
|---|---|---|
| `limiter` | 2 transfers, limits raised, lowered and lifted, 3 queued chunks | no waiter is forgotten, bursts and throughput stay in the limit, every chunk goes out, a timer misses less than a tick |
| `sync` | 4 keys (new, changed, orphan, outside the source's prefix; one multipart), source and destination prefixes that differ, 2 workers, 1 edit, restarts | checkpoint, counters, failures, stop, mirror and orphans |
| `sync_control` | 2 keys, a mirror and a dry run, saving may throw, 2 worker pools | refinement of `SyncControl`; every run ends |
| `backup` | 2 backups, a local and an S3 target, `keepLast` 0 or 1 with a weekly rule, 1 request, 1 fault | checksums, deletions, and what overlapping retention passes spare |
| `scheduler` | 2 jobs, 6 schedules (every minute, daily, lists with steps and ranges, interval, none, invalid), days of 2 hours of 2 minutes of 2 ticks, callbacks 1 tick late, 2 changes | timers follow the job file; refinement of `BackupSchedule`; frequent jobs come round whatever fails |
| `db_sync` | 2 tables, 2 workers, 2 rows of one key, both tables renamed to one and repeated, one moved to a table with a key, another schema, a dry run, 1 edit of the source | counters, failures, pools and workers end with the run, synced rows or others of their keys are there, refinement of `SyncControl`, every run ends |
| `artifact` | dumps of 0 to 3 bytes, a header of 6, 2 passphrases, one damage | all or nothing comes out, an intact artifact is readable, damage is found |
| `console` | either panel, 2 events on the socket | a page that missed nothing is right, a pressed Stop is answered, and Stop settles a page that is wrong |

Every property of these runs has a mutant in `PROJECT.json`: a definition that
models code, changed by a plausible bug, under which TLC finds the property
violated.  The mutated forms stand before the definitions they replace and are
marked as faults for the mutation runs.

The other runs each find a disagreement between the code and what its
documents, comments or log say:

| Run | What TLC finds |
|---|---|
| `backup_cut_dump` | the end of the output of a dump tool is taken for its success: a tool that then exits with an error leaves a completed backup |
| `backup_rotation` | rotation uploads under the target's prefix twice, so the artifact it reports as rotated still needs the old passphrase |
| `scheduler_daily` | a cron callback never forgets the minute of the day it last fired in, so a job that names one minute of the day runs once and never again |
| `db_retry` | the retry of failed tables resets their list before it reads it, and retries nothing |

Observed while modelling and not run:

* The drain timer may go off a fraction of a millisecond before the head of the
  queue is paid for; `drain()` then sets another one.
* Orphans are the destination's keys that the listing of the source has not seen.
  With `deleteOrphaned`, a `source.prefix` and another or no `dest.prefix`, these
  include objects which the source bucket has outside the prefix, and they are
  deleted: the repository's `README.md:17` speaks of "files that no longer exist in
  the source", and `OnlyOrphansDeleted` of what is not under the source's prefix.
* A limit whose one-second bucket is smaller than a chunk (0.05 MB/s against
  64 KiB) blocks all transfers: the timer never pays for the head of the queue.
  The `limiter` run has limits that fit.
* `startSync` evaluates `config.source.bucket` after setting `running` and before its
  `try`: a saved job without a source leaves the engine busy until the process is
  started again (phase `wedged` of `SyncEngine`).
* A completed dry run removes the checkpoint of an interrupted real run.
* The repeat timer goes off during a retry, of files or of tables: its cycle is
  dropped and no other is scheduled.
* The repeat timers are not cancelled by a shutdown and may start a run in it.
* When saving a checkpoint throws, the run ends while its other workers go on; such
  a worker then compares a failure count that was reset by the next run, and may
  record a failed file as done.  `CheckpointSound`, `StatsAddUp`,
  `FailuresRemembered` and `CompletedMeansMirrored` do not hold then; the run `sync`
  has `DiskMayFail = FALSE`, and only `sync_control` has the failed save.
* `verifyBackup` that overlaps a deletion writes `verified` over `deleted`; encrypted
  backups in custom format are always marked `corrupted`, because
  `pg_restore --list` reads the encrypted bytes; a backup deleted while it runs
  becomes `completed` again.
* A backup whose writes failed, even all of them, is recorded as `completed` with failed
  paths (`backupEngine.js:543-566`); `design.md:606` of the `database-backup` documents
  and requirement 1.4 want it `failed`.  Retention counts it, and may
  delete an older one that has copies.  A pass keeps to its choice while it waits: when an
  operator deletes the newer backup in the meantime (requirement 10.5), the older one
  still goes.  A crash during a deletion leaves a completed record with some copies
  gone, which nothing repairs.
* A rotation does not touch the artifacts at their recorded paths (`backup_rotation`),
  and `ChecksumMatches` holds across a rotation for that reason.
* `DELETE /api/backup/jobs/:id` takes the timer away before it writes the job file
  (`server.js:467-468`): when the write throws, the job stays without its timer until
  the next restart.  That write is taken to succeed.
* Backups of one job overlap when they take longer than its schedule (requirement
  2.3 forbids it): `_runningJobs` is cleared as soon as `startBackup` returns.  An
  interval of more than 2^31-1 ms becomes one of 1 ms, and a cron step of 0 never
  leaves the loop of `parseCronField`.
* `copyTable` reads a table again and always from schema `public`; a read that fails
  counts as an empty table, and the table as synced.  Created tables have no key,
  so the next cycle inserts the same rows again.
* Where the destination has a key, a row that was edited, or that has the key of a row
  of another table renamed to the same, is dropped without a word
  (`ON CONFLICT DO NOTHING`, `dbClient.js:129`), and the table counts as synced.
* `btn-start` and `btn-dry-run` are disabled by the first click and never enabled
  again, in both panels; runs the repeat timer starts are not shown; the database
  panel asks for no status when it connects and ignores `running` in
  `db:sync:init`; `btn-db-retry` has no handler; `GET /api/jobs/active` is shadowed by
  `GET /api/jobs/:id`.
* The version byte of an artifact is written and never looked at.

### Bounds, and why they are enough

The bounds are constants: `MaxQueue`, `MaxClock` (limiter), `NumKeys`, `Slots`,
`MaxEdits` (sync), `NumBackups`, `MaxRuns`, `MaxOps`, `MaxFaults` (backup),
`MaxLate`, `MaxChanges` (scheduler), `MaxEdits` (table sync), `MaxEvents` (console).
Two workers and four keys make a worker find the list empty while the other
copies, a page boundary fall inside the listing, and a checkpoint be saved and
be due, a key lie under the destination's prefix only and one under the source's
only; a second slot is needed only when a run may end before its workers
(`DiskMayFail`).  `SaveEvery` and `FailedCap` are 100 and 10 000 in the code;
small values let the boundaries occur.  Two backups are enough for a
retention pass to have a newer backup complete while it waits, for a pass after
a backup and a request to delete the same artifact at once, and for a local and
an S3 target to answer the deletion of a missing file differently; both are in one
week, and the cutoff may lie before, between and after them.

The scheduler's calendar is small and goes round for ever, so nothing about time
is bounded: two days let the same minute come again on another day, two ticks in a
minute and a delay of one let a callback move across the boundary of a minute and
skip or repeat it, and two changes let a job be deleted and its name taken again, or
a schedule become invalid and valid.  In the table sync two tables and two workers
write one table at once; a second edit would only repeat what the first does to
`fresh`; two rows of one key, with a keyed and a keyless destination, are a conflict
within a table, with an older row and between tables.  A header of three
parts of lengths 2, 1 and 2 and three bytes after it are divided into chunks in
every way, so each boundary of the header falls inside, at
the end and at the beginning of a chunk.  Two events on the socket let an old one
follow a new start.

Every safety property of these runs is proved without these bounds (section 5):
there the runs show that the cases happen and that the mutants break them.  Liveness
rests on the bounds.

`CHECK_DEADLOCK FALSE` is used where the model stops: backups, whose requests and
runs are bounded, and an artifact that has been read.

## 4. Fairness

`limiter`: weak fairness of the drain loop (synchronous code runs to its end), of
the timer (a due timeout fires) and of the clock.
`sync_control`: weak fairness of the step of a run between its awaits, of each
worker's loop and of each deletion: S3 answers or the request times out, and the
event loop runs what is ready.  A failure may replace every answer, and nothing
is assumed of users, edits or restarts.
`scheduler`, `scheduler_daily`: weak fairness of the clock, which waits for callbacks
that are later than `MaxLate`, and of each callback that is due: the event loop is
never blocked for longer.  That a started backup succeeds is not assumed.
`db_sync`: weak fairness of the run and of each worker: the databases answer, with a
result or an error, as the drivers' timeouts make sure for connections and the
server process for queries.
`console`: weak fairness of handling a stop request that was not lost, of the end of
a run (which `RunEventuallyEnds` shows of both engines), and of the delivery of an
event on an open socket.  Nothing is assumed of the user, of other requests, of
connections or reconnections.
Backups have no fairness: a dump tool may run for ever and the code sets no timeout.

## 5. What is proved

All proofs are for every value of the constants that the named assumptions
allow: any number of transfers, keys, tables, workers, pools, backups, targets,
passes, bytes and events, and any limits, policies and passphrases.  Every
invariant of a passing run, and every action property and refinement, is a theorem.
The inductive invariants named below also hold on the instances of section 3 when
they are given to TLC as invariants.

* **Limiter** (`RateLimiterProofs`).  `LimiterInv` says that a pending timer, the
  queue and `draining` agree and that the balance is within a bucket; from it
  follow the types, `NoLostWakeup` and `BurstBounded`.  `ThroughputBounded` needs
  `BudgetInv`: what was let through plus what is left is at most the bucket plus
  what the clock earned.  `TimerMissesLessThanATick` needs `TimerInv`: one tick after the
  timer may go off, the balance and the time since the refill pay for the head, so what
  truncation takes is never more.  It survives `setLimit`, which leaves
  the timer alone, because a new limit fills the bucket - also when the timer is left
  over from a queue that is gone and a chunk then joins an empty one.  Assumption:
  `ChunksFit`, no chunk is larger than the bucket of a limit (otherwise the statement is
  false, section 3).
* **Sync** (`SyncEngineProofs`, `SyncCheckpointProofs`).  The
  types are inductive alone.  `SafeInv` adds that the phases and `running` agree
  and that what a complete scan has not seen is gone or not under the source's
  prefix; a list of orphans of a scan cut short is wrong, and `SafeInv` holds because
  it is never used.  `CheckInv`
  adds that no worker outlives its run (it cannot when saving never throws), that a
  worker's remembered failure count
  is not above the counter, and that what it fetched is the source's unless
  edited.  `TallyInv` is for `StatsAddUp` and `FailuresRemembered`: a file of the run is
  on the list, with one worker or among the failures, never in two of these places, so
  that taking one off the list and adding one to a set change the sizes by one; and the
  list has only keys the scan has passed, so a page adds new ones.  `MirrorInv` is for
  `CompletedMeansMirrored`: in a full run without a failure every key the scan has passed
  is current, on the list or with a worker; unless it is stopped the scan passes every
  key and a worker leaves only an empty list.  A key that a resumed run skips is current
  by `CheckpointSound`, so this rests on `CheckInv`.  Assumptions: the checkpoint can
  be saved (`~DiskMayFail`) for `CheckInv`, `TallyInv` and `MirrorInv`: a failed save
  ends the run under its workers, which then write after a scan and count into the next
  run (section 3).  There is at least one worker
  (`Math.max(1, ...)`, `syncEngine.js:153` and `371`).
* **Refinement** (`SyncEngineProofs`).  `SyncEngine` implements `SyncControl` under
  the mapping of `SyncEngineRefinement`, step by step.
* **Table sync** (`DbSyncProofs`).  `DbInv` says that phases, `running` and the
  configuration agree (`PhaseInv`), that a table is to do, in the hands of one worker,
  failed or synced, never two of these (`TakenOnce`), that a worker leaves tables behind
  only after a stop (`LeftBehind`), and that a worker whose table has not changed
  inserts what is in it into a table that is there (`RowsInv`).  Two workers may share a
  destination because the code only ever creates tables and adds rows; at a keyed one
  a row that is not inserted finds another of its key (`Lands`), so `SyncedIsCopied`
  promises there the row or one of its key.  The
  properties follow, and every step is one of `SyncControl` or leaves `mode` and `armed`
  alone.  Assumption: finitely many workers, at least one (`dbSyncEngine.js:94` and
  `242`).
* **Backup** (`BackupProofs`).  The properties are inductive
  together with the types and `BackupInv`: a backup in progress has no checksum,
  no paths and no pass; a deletion has still to do what it says and, as long as
  every answer was good, the rest is gone; verifications read records with paths.
  The argument goes through four facts about any step (`Steps`): completed
  backups keep paths, checksum and the absence of what is gone (`KeepsCompleted`); a
  status never lies when it is written (`HonestStatus`); what retention or an operator
  deletes was chosen or asked for, and a choice is outlived by completed backups under
  the rules of its pass (`Retires`); a backup completes with what it has written
  (`CompletesWell`).  `RetiredInv` adds that only what was chosen or asked for has lost a
  recorded copy.  For `RetentionSparesNewest`, whatever was chosen is outlived, under the
  loosest rules read so far, by *completed* backups, and some of these may have been
  chosen as well.  But the newest chosen one, of all or of a period, has only unchosen
  ones above it, and these outlive every older one too (`OutlivedByRest`).  What a
  stricter rule lets go, a looser one lets go as well (`LooserRules`), so no order of
  passes and edits of the policy breaks it.
* **Scheduler** (`BackupSchedulerProofs`).  The timers follow the file because every
  handler replaces the timer in the turn in which it writes the file.  That no job
  is started twice in its minute or within its interval rests on `SpacedInv`: after
  a start, the time the timer has still to run reaches the end of the minute, or of
  the interval, however late its callback was.  A tick keeps it because the place
  in the minute goes up by one unless a minute begins (`NextInMinute`).  So the
  minute the code remembers is not needed for what it was written for; it only
  does the harm `scheduler_daily` shows.  With the three invariants every step of the
  scheduler is one of `BackupSchedule` or leaves its variables alone.  This refinement,
  and it alone, has the hypothesis `IntervalsFit`: no interval is longer than a Node
  timer can be.  The validation of jobs does not make sure of it (an interval of 30 days
  is accepted, becomes 1 ms and breaks the promise), so it is a condition on the jobs,
  stated in the theorem, and not an assumption about the program.
* **Console** (`ConsoleProofs`).  `ShownRunIsExplained` and `StopIsAnswered` are inductive
  together with the types and with `DownIsEmpty`: no event is on the socket of a page that
  is not connected, so that an event which is emitted then raises `doubt`.
* **Encryption** (`BackupCryptoProofs`).  `CryptoInv` follows an artifact through its life:
  what is encrypted so far is the dump byte by byte (`WriteInv`), what is stored has one
  known byte or noise in the place where the tag begins (`StoreInv`), and what the reading
  stream has buffered, fed and decrypted is what it was given of the artifact
  (`DecryptInv`).  The first byte of the tag depends on the key, the IV and all that was
  encrypted, so a tag that fits what was read is the tag that was stored, and everything
  but the version byte is as it was.  Assumption: a dump is a sequence over `PlainBytes`;
  AES-GCM and PBKDF2 are taken for what they promise (no collisions).

Only model-checked: `ChunkEventuallySent`, `RunEventuallyEnds` of both engines,
`FrequentJobsComeRound` and `StopSettlesPage`, because the prover does not reason about
fairness and `ENABLED`; and the four violations, which are counterexamples.

## 6. What is left out, and why

* `BackupEngine` has no local target whose path is `/` or `.` (there the recorded path
  is the file name itself, and a rotation would write over the artifact) and at least
  one target.  The arithmetic of dates is not in it: a month's cutoff overflows at the end of a
  longer month (`setMonth`, line 1164) and moves back the day after, and a backup's
  day and month are those of UTC while its week is local; a policy without an active
  rule deletes every backup (in the run: `keepLast` 0, cutoff after both).  Which bytes a dump holds, tool
  arguments and path formatting are abstracted to "whole", "passphrase" and
  "damaged"; what encryption adds is in `BackupCrypto`.  `pg_restore` with exit code 1 is taken
  for a success by the code; the model lets a load succeed or fail.
* S3 is its answers: a listing page, an object, a failure.  Retries inside the
  AWS SDK are part of one answer.
* Cron fields of month and weekday are handled like the day field; local time and its
  changes are not in the calendar.  `DbSync` has no columns or types, and of
  a key only which rows collide.
* The page's forms, log, statistics, history, jobs and backup page only display;
  logging, metrics, notifications and history decide nothing.  `jobManager.js` and
  `dbClusterState.js` are imported by nothing; the command lines of `dbDrivers/` are
  string formatting.
* The list of active jobs (`jobRunner.js`) is only shown: pause, stop and remove
  change an entry and touch no engine; `POST /api/jobs/start` lists a job as running
  even if the engine refuses it.
* Cluster connection, not modelled yet.  What the code does: the shared pool is
  never queried (each status call builds one of its own and, when it succeeds, does
  not end it); a connect that overlaps another awaits `end()` of the same pool and
  may replace a pool that nobody then ends; the page posts to routes that are `GET`.

## 7. Plan

1. The dates of retention: `_getISOWeekKey` and the three cutoffs as operators
   over a bounded calendar, against a reference definition.
2. Proofs: for the components that items 1, 3 and 4 add, and what `SyncEngine`
   still guarantees of its counters and its checkpoint when saving may throw
   (types, stop, orphans and refinement are already proved without that assumption).
3. `ClusterPool`: connect, status and disconnect at their awaits on one pool.
4. A composition of `BackupScheduler` and `BackupEngine`: which backups of a job
   overlap.
