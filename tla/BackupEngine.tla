---------------------------- MODULE BackupEngine ----------------------------
(***************************************************************************)
(* The backup engine (src/backupEngine.js) over its catalog file, its job  *)
(* file and its storage targets: backups, retention, verification,         *)
(* deletion, restore and key rotation of one job, interleaved at their     *)
(* awaits, with failures of tools and targets, damage, and crashes.        *)
(*                                                                         *)
(* Backups are numbered in the order of their startedAt.  An artifact is   *)
(* what its bytes say of the dump (all of it, or cut short) and the        *)
(* passphrase it is encrypted with; equal contents have equal checksums.   *)
(* A retention rule by day, week or month is the period each backup falls  *)
(* in; the clock is not modelled, so that its cutoff may lie between any   *)
(* two backups.  No local target's path is "/" or ".": joined with either, *)
(* an artifact's path stays what it is, and rotation would rewrite the     *)
(* artifact in place instead of beside it.                                 *)
(***************************************************************************)
EXTENDS Naturals, FiniteSets

CONSTANTS
    NumBackups,     \* bound: backups ever started
    NumTargets,     \* storage targets of the job, in the order of its list
    Local,          \* the targets of type local; the others are S3
    Keys,           \* passphrases
    Plain,          \* the job has no passphrase
    InitJobs,       \* policy and passphrase of the job at the beginning
    Policies,       \* values of keepLast an operator may give (0: no rule is active)
    Periods,        \* the day, week or month of each backup, one function for each rule
    NoPolicy,       \* the job has no retentionPolicy
    NoJob,          \* the job has been removed from the job file
    Listed,         \* the format is custom or directory: verify runs pg_restore --list
    Passes,         \* bound: retention passes asked for by operators at a time
    Verifiers,      \* bound: verifications at a time
    Deleters,       \* bound: deletions asked for by operators at a time
    Damaged,        \* contents of an artifact changed by others
    Gone,           \* no artifact there
    NoSum,          \* sha256Checksum: null
    MaxRuns,        \* bound: backups running at a time
    MaxOps,         \* bound: requests of operators
    MaxFaults       \* bound: crashes of the process and artifacts damaged by others

Backups  == 1..NumBackups
Targets  == 1..NumTargets
Contents == [whole : BOOLEAN, key : Keys \cup {Plain}]

ASSUME BoundsAreNumbers ==
    /\ NumBackups \in Nat /\ NumTargets \in Nat \ {0}
    /\ MaxRuns \in Nat /\ MaxOps \in Nat /\ MaxFaults \in Nat
ASSUME ParametersMakeSense ==
    /\ Local \subseteq Targets
    /\ Plain \notin Keys
    /\ InitJobs \subseteq (Policies \cup {NoPolicy}) \X (Keys \cup {Plain})
    /\ Policies \subseteq Nat /\ Policies # {}
    /\ NoPolicy \notin Nat /\ NoJob \notin Nat /\ NoPolicy # NoJob
    /\ Listed \in BOOLEAN
ASSUME PeriodsOfBackups == \A P \in Periods : DOMAIN P = Backups
ASSUME PassesAreNotBackups == Passes \cap Backups = {}
ASSUME MarksAreNotContents ==
    /\ Damaged \notin Contents /\ Gone \notin Contents /\ NoSum \notin Contents
    /\ Damaged # Gone

VARIABLES
    status,     \* catalog: status of the record of a backup ("none": no record)
    paths,      \* catalog: targets of its storagePaths with status ok
    sum,        \* catalog: sha256Checksum
    restored,   \* catalog: lastRestoredAt is set
    policy,     \* job file: retentionPolicy
    jobKey,     \* job file: encryption.passphrase
    store,      \* the artifact of each backup at each target
    phase,      \* _runBackup of each backup: idle, dumping, writing
    dump,       \* its buffer: whether it is whole, the passphrase it began with
    unwritten,  \* targets writeToTargets has not come to
    written,    \* targets it has written
    pass,       \* applyRetention: the passes after each backup and of operators
    verify,     \* verifyBackup calls
    del,        \* DELETE /api/backup/catalog/:backupId requests
    restore,    \* _activeRestores, with the phase of each
    rot,        \* rotateKey
    ops, faults,    \* counters of the bounds
    \* history
    retired,    \* backups a retention pass has chosen to delete
    loosest,    \* the loosest rules by which one was chosen
    asked       \* backups an operator has asked to delete

catalog == <<status, paths, sum, restored>>
jobFile == <<policy, jobKey>>
runs    == <<phase, dump, unwritten, written>>
bounds  == <<ops, faults>>
choices == <<retired, loosest>>
history == <<choices, asked>>
vars    == <<catalog, jobFile, store, runs, pass, verify, del, restore, rot, bounds, history>>

Statuses == {"none", "running", "completed", "verified", "failed",
             "corrupted", "deleted", "delete_failed"}
NoPass   == [chosen |-> {}, left |-> {}, clean |-> TRUE]
NoVerify == [of |-> 0, at |-> "idle"]
NoDelete == [of |-> 0, left |-> {}, clean |-> TRUE]
NoRotation == [at |-> "idle", left |-> {}, done |-> {}, failed |-> FALSE, old |-> Plain, new |-> Plain]

First(T)  == CHOOSE t \in T : \A u \in T : t <= u
Newest(B) == CHOOSE b \in B : \A c \in B : c <= b
Newer(B, b) == {c \in B : c > b}

Init ==
    /\ status = [b \in Backups |-> "none"]
    /\ paths = [b \in Backups |-> {}]
    /\ sum = [b \in Backups |-> NoSum]
    /\ restored = [b \in Backups |-> FALSE]
    /\ \E job \in InitJobs : policy = job[1] /\ jobKey = job[2]
    /\ store = [b \in Backups |-> [t \in Targets |-> Gone]]
    /\ phase = [b \in Backups |-> "idle"]
    /\ dump = [b \in Backups |-> [whole |-> TRUE, key |-> Plain]]
    /\ unwritten = [b \in Backups |-> {}]
    /\ written = [b \in Backups |-> {}]
    /\ pass = [p \in Backups \cup Passes |-> NoPass]
    /\ verify = [v \in Verifiers |-> NoVerify]
    /\ del = [d \in Deleters |-> NoDelete]
    /\ restore = [b \in Backups |-> "idle"]
    /\ rot = NoRotation
    /\ ops = 0 /\ faults = 0
    /\ retired = {} /\ asked = {}
    /\ loosest = [last |-> NumBackups, since |-> [P \in Periods |-> 0]]
-----------------------------------------------------------------------------
(* What the records say. *)
Recorded(b) == status[b] # "none"
Active      == {b \in Backups : phase[b] # "idle"}
Encrypted(b) == dump[b].key # Plain

\* A request of an operator, and an event of the surroundings.
Request == ops < MaxOps /\ ops' = ops + 1 /\ UNCHANGED faults
Fault   == faults < MaxFaults /\ faults' = faults + 1 /\ UNCHANGED ops

SetStatus(b, s) == status' = [status EXCEPT ![b] = s]
-----------------------------------------------------------------------------
(* Retention. *)

\* The rules: keepLast, and those that keep the newest backup of each period
\* since their cutoff (the backups up to since[P] are older than that of P).
KeptLast(E, n) == {b \in E : Cardinality(Newer(E, b)) < n}

KeptByPeriod(E, P, since) ==
    LET recent == {b \in E : b > since}
    IN  {b \in recent : \A c \in Newer(recent, b) : P[c] # P[b]}

Kept(E, keep) ==
    KeptLast(E, keep.last) \cup UNION {KeptByPeriod(E, P, keep.since[P]) : P \in Periods}

\* Fault for the mutation runs: a backup that is still running is counted.
SupersededByRunning(st, keep) ==
    LET eligible == {b \in Backups : st[b] \in {"running", "completed", "verified"}}
    IN  eligible \ Kept(eligible, keep)

\* The backups no rule keeps, given the statuses st.
Superseded(st, keep) ==
    LET eligible == {b \in Backups : st[b] \in {"completed", "verified"}}
    IN  eligible \ Kept(eligible, keep)

Evaluates(keep) == keep \in Nat

\* The loop over the records still chosen: those without a copy become
\* deleted at once, up to the newest with a copy, where the first await is.
Stops(B, pt)   == {b \in B : pt[b] # {}}
Passed(B, pt)  == {b \in B : \A c \in Stops(B, pt) : c < b}
GoOn(p, B, st, pt) ==
    LET rest == B \ Passed(B, pt)
    IN  /\ status' = [b \in Backups |-> IF b \in Passed(B, pt) THEN "deleted" ELSE st[b]]
        /\ pass' = [pass EXCEPT ![p] =
               IF rest = {} THEN NoPass
               ELSE [chosen |-> rest, left |-> pt[Newest(rest)], clean |-> TRUE]]

\* The rules that keep no more than k and l do.
Looser(k, l) ==
    [last  |-> IF l.last < k.last THEN l.last ELSE k.last,
     since |-> [P \in Periods |-> IF l.since[P] > k.since[P] THEN l.since[P] ELSE k.since[P]]]

Chooses(B, keep) ==
    /\ retired' = retired \cup B
    /\ loosest' = IF B = {} THEN loosest ELSE Looser(loosest, keep)

ApplyRetention(p, st, pt) ==
    IF Evaluates(policy)
    THEN \E since \in [Periods -> 0..NumBackups] :
            LET keep == [last |-> policy, since |-> since]
                chosen == Superseded(st, keep)
            IN  GoOn(p, chosen, st, pt) /\ Chooses(chosen, keep)
    ELSE status' = st /\ UNCHANGED <<pass, choices>>

UserRetention(p) ==
    /\ pass[p] = NoPass
    /\ Request
    /\ ApplyRetention(p, status, paths)
    /\ UNCHANGED <<paths, sum, restored, jobFile, store, runs, verify, del, restore, rot, asked>>

\* A target deletes the copy of b, or fails and leaves it; deleting what is
\* not there fails for a local file and succeeds on S3.
Deletes(b, t, ok) ==
    /\ ok => store[b][t] # Gone \/ t \notin Local
    /\ store' = IF ok THEN [store EXCEPT ![b][t] = Gone] ELSE store

\* Fault for the mutation runs: the answers of the targets are ignored.
VerdictIgnoresFailures(clean) == "deleted"

\* What a deletion records, from the answers of all its targets.
Verdict(clean) == IF clean THEN "deleted" ELSE "delete_failed"

PassDeletes(p) ==
    /\ pass[p].chosen # {}
    /\ LET b == Newest(pass[p].chosen)
           t == First(pass[p].left)
           left == pass[p].left \ {t}
       IN  \E ok \in BOOLEAN :
             /\ Deletes(b, t, ok)
             /\ IF left # {}
                THEN /\ pass' = [pass EXCEPT ![p] = [chosen |-> @.chosen, left |-> left,
                                                     clean |-> @.clean /\ ok]]
                     /\ UNCHANGED status
                ELSE GoOn(p, pass[p].chosen \ {b},
                          [status EXCEPT ![b] = Verdict(pass[p].clean /\ ok)], paths)
    /\ UNCHANGED <<paths, sum, restored, jobFile, runs, verify, del, restore, rot, bounds, history>>
-----------------------------------------------------------------------------
(* Backups. *)
Unstarted == {b \in Backups : ~Recorded(b)}

StartBackup(b) ==
    /\ b \in Unstarted /\ b = First(Unstarted)
    /\ Cardinality(Active) < MaxRuns
    /\ SetStatus(b, "running")
    /\ phase' = [phase EXCEPT ![b] = "dumping"]
    /\ dump' = [dump EXCEPT ![b].key = jobKey]
    /\ UNCHANGED <<paths, sum, restored, jobFile, store, unwritten, written, pass, verify, del,
                   restore, rot, bounds, history>>

\* An unsupported dbType or a driver that throws: failed before any await.
StartFails(b) ==
    /\ b \in Unstarted /\ b = First(Unstarted)
    /\ SetStatus(b, "failed")
    /\ dump' = [dump EXCEPT ![b].key = jobKey]
    /\ UNCHANGED <<paths, sum, restored, jobFile, store, phase, unwritten, written, pass, verify,
                   del, restore, rot, bounds, history>>

\* The output of the tool has ended: all of it, or what a tool that is about
\* to exit with an error has written (`end' comes before `close').
DumpEnds(b) ==
    /\ phase[b] = "dumping"
    /\ phase' = [phase EXCEPT ![b] = "writing"]
    /\ \E whole \in BOOLEAN : dump' = [dump EXCEPT ![b].whole = whole]
    /\ unwritten' = [unwritten EXCEPT ![b] = Targets]
    /\ UNCHANGED <<written, catalog, jobFile, store, pass, verify, del, restore, rot, bounds, history>>

\* Fault for the mutation runs: a status the catalog does not know.
DumpFailsAborted(b) ==
    /\ phase[b] = "dumping"
    /\ phase' = [phase EXCEPT ![b] = "idle"]
    /\ SetStatus(b, "aborted")
    /\ UNCHANGED <<paths, sum, restored, jobFile, store, dump, unwritten, written, pass, verify,
                   del, restore, rot, bounds, history>>

\* The tool cannot be started, a compressed stream has not ended when the
\* tool exits with an error, or the encryption fails.
DumpFails(b) ==
    /\ phase[b] = "dumping"
    /\ phase' = [phase EXCEPT ![b] = "idle"]
    /\ SetStatus(b, "failed")
    /\ UNCHANGED <<paths, sum, restored, jobFile, store, dump, unwritten, written, pass, verify,
                   del, restore, rot, bounds, history>>

\* The targets written so far, with t if it succeeds.
Okay(b, t, ok) == IF ok THEN written[b] \cup {t} ELSE written[b]

\* Fault for the mutation runs: the checksum is computed before the encryption.
SumBeforeEncryption(b) == [dump[b] EXCEPT !.key = Plain]

\* The checksum of the buffer that is written.
SumOf(b) == dump[b]

\* What the end of writeToTargets records, and the retention it applies.
Completes(b, okay) ==
    /\ paths' = [paths EXCEPT ![b] = okay]
    /\ sum' = [sum EXCEPT ![b] = SumOf(b)]
    /\ ApplyRetention(b, [status EXCEPT ![b] = "completed"], [paths EXCEPT ![b] = okay])

Writes(b) ==
    /\ phase[b] = "writing"
    /\ LET t == First(unwritten[b])
       IN  \E ok \in BOOLEAN :
             /\ store' = IF ok THEN [store EXCEPT ![b][t] = dump[b]] ELSE store
             /\ unwritten' = [unwritten EXCEPT ![b] = @ \ {t}]
             /\ IF unwritten[b] = {t}
                THEN /\ Completes(b, Okay(b, t, ok))
                     /\ phase' = [phase EXCEPT ![b] = "idle"]
                     /\ written' = [written EXCEPT ![b] = {}]
                ELSE /\ written' = [written EXCEPT ![b] = Okay(b, t, ok)]
                     /\ UNCHANGED <<status, paths, sum, pass, phase, choices>>
    /\ UNCHANGED <<restored, jobFile, dump, verify, del, restore, rot, bounds, asked>>
-----------------------------------------------------------------------------
(* Verification. *)
VerifyStarts(v, b) ==
    /\ verify[v] = NoVerify
    /\ Recorded(b)
    /\ Request
    /\ IF paths[b] = {}
       THEN SetStatus(b, "corrupted") /\ UNCHANGED verify
       ELSE verify' = [verify EXCEPT ![v] = [of |-> b, at |-> "download"]] /\ UNCHANGED status
    /\ UNCHANGED <<paths, sum, restored, jobFile, store, runs, pass, del, restore, rot, history>>

VerifyEnds(v, verdict) ==
    SetStatus(verify[v].of, verdict) /\ verify' = [verify EXCEPT ![v] = NoVerify]

\* What verifyBackup says of contents it could read.
Matches(b, bytes) == bytes # Gone /\ bytes = sum[b]

VerifyDownloads(v) ==
    /\ verify[v].at = "download"
    /\ LET b == verify[v].of
           bytes == store[b][First(paths[b])]
       IN  \/ VerifyEnds(v, "corrupted")                    \* the download fails
           \/ ~Matches(b, bytes) /\ VerifyEnds(v, "corrupted")
           \/ Matches(b, bytes) /\ ~Listed /\ VerifyEnds(v, "verified")
           \/ Matches(b, bytes) /\ Listed
              /\ verify' = [verify EXCEPT ![v].at = "list"] /\ UNCHANGED status
    /\ UNCHANGED <<paths, sum, restored, jobFile, store, runs, pass, del, restore, rot, bounds, history>>

\* pg_restore --list cannot read encrypted bytes, and lists a dump cut short
\* when its table of contents is there.
VerifyLists(v) ==
    /\ verify[v].at = "list"
    /\ \/ VerifyEnds(v, "corrupted")
       \/ ~Encrypted(verify[v].of) /\ VerifyEnds(v, "verified")
    /\ UNCHANGED <<paths, sum, restored, jobFile, store, runs, pass, del, restore, rot, bounds, history>>
-----------------------------------------------------------------------------
(* Deletion of a record's artifacts by an operator. *)
DeleteStarts(d, b) ==
    /\ del[d] = NoDelete
    /\ Recorded(b)
    /\ Request
    /\ IF paths[b] = {}
       THEN SetStatus(b, "deleted") /\ UNCHANGED del
       ELSE del' = [del EXCEPT ![d] = [of |-> b, left |-> paths[b], clean |-> TRUE]]
            /\ UNCHANGED status
    /\ asked' = asked \cup {b}
    /\ UNCHANGED <<paths, sum, restored, jobFile, store, runs, pass, verify, restore, rot, choices>>

DeleteGoesOn(d) ==
    /\ del[d].left # {}
    /\ \E t \in del[d].left, ok \in BOOLEAN :
         /\ Deletes(del[d].of, t, ok)
         /\ IF del[d].left = {t}
            THEN /\ SetStatus(del[d].of, Verdict(del[d].clean /\ ok))
                 /\ del' = [del EXCEPT ![d] = NoDelete]
            ELSE /\ del' = [del EXCEPT ![d] = [of |-> @.of, left |-> @.left \ {t},
                                                   clean |-> @.clean /\ ok]]
                 /\ UNCHANGED status
    /\ UNCHANGED <<paths, sum, restored, jobFile, runs, pass, verify, restore, rot, bounds, history>>
-----------------------------------------------------------------------------
(* Restore: download and decrypt, then the restore tool. *)
RestoreStarts(b) ==
    /\ Recorded(b) /\ restore[b] = "idle"
    /\ Request
    /\ paths[b] # {}        \* otherwise it fails before any await
    /\ restore' = [restore EXCEPT ![b] = "download"]
    /\ UNCHANGED <<catalog, jobFile, store, runs, pass, verify, del, rot, history>>

\* GCM detects damage in an encrypted artifact; a plain one is not checked.
Readable(b, bytes) == bytes # Gone /\ ~(bytes = Damaged /\ Encrypted(b))

RestoreDownloads(b) ==
    /\ restore[b] = "download"
    /\ Readable(b, store[b][First(paths[b])])
    /\ restore' = [restore EXCEPT ![b] = "load"]
    /\ UNCHANGED <<catalog, jobFile, store, runs, pass, verify, del, rot, bounds, history>>

RestoreFails(b) ==
    /\ restore[b] # "idle"
    /\ restore' = [restore EXCEPT ![b] = "idle"]
    /\ UNCHANGED <<catalog, jobFile, store, runs, pass, verify, del, rot, bounds, history>>

RestoreLoads(b) ==
    /\ restore[b] = "load"
    /\ restore' = [restore EXCEPT ![b] = "idle"]
    /\ restored' = [restored EXCEPT ![b] = TRUE]
    /\ UNCHANGED <<status, paths, sum, jobFile, store, runs, pass, verify, del, rot, bounds, history>>
-----------------------------------------------------------------------------
(* Key rotation and edits of the job. *)
Copies == {c \in Backups \X Targets : c[2] \in paths[c[1]]}
Rotatable == {c \in Copies : status[c[1]] \in {"completed", "verified"} /\ Encrypted(c[1])}

\* The new passphrase goes to the job file if the job is still there, and if
\* something was rotated or nothing failed.
NewKey(new, done, failed) ==
    jobKey' = IF policy # NoJob /\ (done # {} \/ ~failed) THEN new ELSE jobKey

RotateStarts(old, new) ==
    /\ rot.at = "idle"
    /\ policy # NoJob
    /\ Request
    /\ IF Rotatable = {}
       THEN NewKey(new, {}, FALSE) /\ UNCHANGED rot
       ELSE /\ rot' = [at |-> "read", left |-> Rotatable, done |-> {}, failed |-> FALSE,
                       old |-> old, new |-> new]
            /\ UNCHANGED jobKey
    /\ UNCHANGED <<catalog, policy, store, runs, pass, verify, del, restore, history>>

\* Records in the order of the catalog, the targets of each in order.
NextCopy(C) == CHOOSE c \in C : \A e \in C : c[1] < e[1] \/ (c[1] = e[1] /\ c[2] <= e[2])
Opens(bytes, k) == bytes \in Contents /\ bytes.key = k

\* The loop goes on after the copy c: rotated, or failed.
RotationGoesOn(c, done, failed) ==
    IF rot.left = {c}
    THEN NewKey(rot.new, done, failed) /\ rot' = NoRotation
    ELSE /\ rot' = [rot EXCEPT !.left = @ \ {c}, !.done = done, !.failed = failed, !.at = "read"]
         /\ UNCHANGED jobKey

\* The copy is read and decrypted, or that fails.
RotationReads ==
    /\ rot.at = "read"
    /\ LET c == NextCopy(rot.left)
       IN  \/ /\ Opens(store[c[1]][c[2]], rot.old)
              /\ rot' = [rot EXCEPT !.at = "write"]
              /\ UNCHANGED jobKey
           \/ RotationGoesOn(c, rot.done, TRUE)
    /\ UNCHANGED <<catalog, policy, store, runs, pass, verify, del, restore, bounds, history>>

\* It is written with the new passphrase: writeToTargets puts the target's
\* own prefix before the path it is given, so that the copy goes elsewhere.
\* What the write answers is not looked at.
Rewritten(c) == store

RotationWrites ==
    /\ rot.at = "write"
    /\ LET c == NextCopy(rot.left)
       IN  /\ store' = Rewritten(c)
           /\ RotationGoesOn(c, rot.done \cup {c}, rot.failed)
    /\ UNCHANGED <<catalog, policy, runs, pass, verify, del, restore, bounds, history>>

EditJob ==
    /\ policy # NoJob
    /\ Request
    /\ \/ policy' \in Policies \cup {NoPolicy, NoJob} /\ UNCHANGED jobKey
       \/ jobKey' \in Keys \cup {Plain} /\ UNCHANGED policy
    /\ UNCHANGED <<catalog, store, runs, pass, verify, del, restore, rot, history>>
-----------------------------------------------------------------------------
(* The surroundings. *)
Damage(b, t) ==
    /\ Fault
    /\ store[b][t] \in Contents
    /\ store' = [store EXCEPT ![b][t] = Damaged]
    /\ UNCHANGED <<catalog, jobFile, runs, pass, verify, del, restore, rot, history>>

\* The process dies and is started again: the files and the targets remain.
Crash ==
    /\ Fault
    /\ phase' = [b \in Backups |-> "idle"]
    /\ unwritten' = [b \in Backups |-> {}]
    /\ written' = [b \in Backups |-> {}]
    /\ pass' = [p \in Backups \cup Passes |-> NoPass]
    /\ verify' = [v \in Verifiers |-> NoVerify]
    /\ del' = [d \in Deleters |-> NoDelete]
    /\ restore' = [b \in Backups |-> "idle"]
    /\ rot' = NoRotation
    /\ UNCHANGED <<catalog, jobFile, store, dump, history>>
-----------------------------------------------------------------------------
Next ==
    \/ \E b \in Backups : StartBackup(b) \/ StartFails(b) \/ DumpEnds(b) \/ DumpFails(b) \/ Writes(b)
    \/ \E p \in Passes : UserRetention(p)
    \/ \E p \in Backups \cup Passes : PassDeletes(p)
    \/ \E v \in Verifiers, b \in Backups : VerifyStarts(v, b)
    \/ \E v \in Verifiers : VerifyDownloads(v) \/ VerifyLists(v)
    \/ \E d \in Deleters, b \in Backups : DeleteStarts(d, b)
    \/ \E d \in Deleters : DeleteGoesOn(d)
    \/ \E b \in Backups : RestoreStarts(b) \/ RestoreDownloads(b) \/ RestoreFails(b) \/ RestoreLoads(b)
    \/ \E old, new \in Keys : RotateStarts(old, new)
    \/ RotationReads \/ RotationWrites
    \/ EditJob
    \/ \E b \in Backups, t \in Targets : Damage(b, t)
    \/ Crash

Spec == Init /\ [][Next]_vars

-----------------------------------------------------------------------------
Rules    == [last : Nat, since : [Periods -> Nat]]
PassType == [chosen : SUBSET Backups, left : SUBSET Targets, clean : BOOLEAN]
VerifyType == [of : Backups \cup {0}, at : {"idle", "download", "list"}]
DeleteType == [of : Backups \cup {0}, left : SUBSET Targets, clean : BOOLEAN]
RotationType == [at : {"idle", "read", "write"}, left : SUBSET (Backups \X Targets),
                 done : SUBSET (Backups \X Targets), failed : BOOLEAN,
                 old : Keys \cup {Plain}, new : Keys \cup {Plain}]

TypeOK ==
    /\ status \in [Backups -> Statuses]
    /\ paths \in [Backups -> SUBSET Targets]
    /\ sum \in [Backups -> Contents \cup {NoSum}]
    /\ restored \in [Backups -> BOOLEAN]
    /\ policy \in Policies \cup {NoPolicy, NoJob}
    /\ jobKey \in Keys \cup {Plain}
    /\ store \in [Backups -> [Targets -> Contents \cup {Damaged, Gone}]]
    /\ phase \in [Backups -> {"idle", "dumping", "writing"}]
    /\ dump \in [Backups -> Contents]
    /\ unwritten \in [Backups -> SUBSET Targets]
    /\ written \in [Backups -> SUBSET Targets]
    /\ pass \in [Backups \cup Passes -> PassType]
    /\ verify \in [Verifiers -> VerifyType]
    /\ del \in [Deleters -> DeleteType]
    /\ restore \in [Backups -> {"idle", "download", "load"}]
    /\ rot \in RotationType
    /\ ops \in 0..MaxOps /\ faults \in 0..MaxFaults
    /\ retired \subseteq Backups /\ loosest \in Rules /\ asked \subseteq Backups
-----------------------------------------------------------------------------
(* Properties. *)
Completed == {b \in Backups : sum[b] # NoSum}

\* The checksum of a record is the checksum of what lies at each of its ok
\* paths, whatever rotations, retention passes and restarts come after,
\* until the copy is deleted or damaged: verification may rely on it.
ChecksumMatches ==
    \A b \in Backups : \A t \in paths[b] :
        /\ sum[b] # NoSum
        /\ store[b][t] \in {sum[b], Gone, Damaged}

\* A record says deleted only when none of its ok paths has a copy left,
\* although several passes and operators may delete the same backup at once
\* and each sees only the answers to its own calls (lines 1183-1206).
DeletedMeansGone ==
    \A b \in Backups : status[b] = "deleted" => \A t \in paths[b] : store[b][t] = Gone

\* The backups C make b dispensable: keepLast of them are newer, and for each
\* rule by day, week or month b is too old or has a newer one in its period.
Outlived(C, b, keep) ==
    /\ Cardinality(Newer(C, b)) >= keep.last
    /\ \A P \in Periods :
          b > keep.since[P] => \E c \in Newer(C, b) : P[c] = P[b]

\* Backups that have completed, that no retention pass has ever chosen and
\* whose ok paths all have their copy, unless an operator asked to delete
\* them.  One whose writes all failed is completed too, and counts for the
\* rules (lines 543-566 and 1109).
Spared ==
    {c \in Completed \ retired :
        c \in asked \/ \A t \in paths[c] : store[c][t] # Gone}

\* All retention passes together take no more than their rules allow: what
\* one has chosen is outlived, by the loosest rules any of them read, by
\* backups that none has taken.  Passes overlap, choose at different times
\* by different policies, stop in a crash and meet again what they had begun
\* to delete; meanwhile backups complete out of their order, are verified,
\* fail, and are deleted by operators (applyRetention, lines 1097-1209).
RetentionSparesNewest == \A b \in retired : Outlived(Spared, b, loosest)

-----------------------------------------------------------------------------
(* What makes the properties inductive. *)

\* A backup in progress has no checksum and no paths yet, and has written
\* what it says; one without a checksum never looks completed, and its
\* retention pass has not begun.
RunInv ==
    \A b \in Backups :
        /\ status[b] = "none" => phase[b] = "idle" /\ sum[b] = NoSum
        /\ phase[b] # "idle" => sum[b] = NoSum
        /\ sum[b] = NoSum => paths[b] = {} /\ status[b] \notin {"completed", "verified"}
        /\ sum[b] = NoSum => pass[b] = NoPass
        /\ phase[b] # "writing" => written[b] = {}
        /\ phase[b] = "writing" => unwritten[b] # {}
        /\ \A t \in written[b] : store[b][t] \in {dump[b], Damaged}

\* A deletion has left what it has not come to, and while every answer was
\* good the rest is gone.
DeletesFrom(b, left, clean) ==
    /\ left \subseteq paths[b]
    /\ clean => \A t \in paths[b] \ left : store[b][t] = Gone

DeletionInv ==
    /\ \A p \in Backups \cup Passes :
          LET q == pass[p]
          IN  q.chosen # {} => q.left # {} /\ DeletesFrom(Newest(q.chosen), q.left, q.clean)
    /\ \A d \in Deleters :
          del[d].left # {} => del[d].of \in Backups /\ DeletesFrom(del[d].of, del[d].left, del[d].clean)

VerifyInv ==
    \A v \in Verifiers :
        verify[v].at # "idle" => verify[v].of \in Backups /\ paths[verify[v].of] # {}

\* What is being deleted was chosen by a pass or asked for; what was not has
\* all its copies.
RetiredInv ==
    /\ retired \subseteq Completed
    /\ \A p \in Backups \cup Passes : pass[p].chosen \subseteq retired
    /\ \A d \in Deleters : del[d].left # {} => del[d].of \in asked
    /\ \A c \in Completed \ (retired \cup asked) : \A t \in paths[c] : store[c][t] # Gone

RotationInv == rot.at # "idle" => rot.left # {}

\* Runs, deletions, verifications and rotations in progress agree with the
\* catalog and with what lies at the targets; the properties rest on it.
BackupInv == RunInv /\ DeletionInv /\ VerifyInv /\ RotationInv /\ RetiredInv
-----------------------------------------------------------------------------
(* What the documents say and the code does not do. *)

\* Requirement 1.4 and design.md, "pg_dump process exits non-zero": a dump
\* cut short does not become a completed backup.
CompletedDumpIsWhole ==
    \A b \in Backups : status[b] = "completed" => sum[b].whole

\* Requirement 13.7: rotation re-encrypts the artifacts with the new key.
RotatedCopiesCarryNewKey ==
    \A c \in rot.done : store[c[1]][c[2]] \in Contents => store[c[1]][c[2]].key = rot.new
=============================================================================
