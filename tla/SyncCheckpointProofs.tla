------------------------ MODULE SyncCheckpointProofs ------------------------
(***************************************************************************)
(* While the checkpoint can be saved: no worker outlives its run, the      *)
(* checkpoint never lists a file that would still have to be copied, the   *)
(* counters follow the files, and a completed run has mirrored the source. *)
(* (The assumption cannot be dropped: a failed save ends the run under its *)
(* workers.)                                                               *)
(***************************************************************************)
EXTENDS SyncEngineProofs

Inv == TypeInv /\ SafeInv /\ CheckInv

-----------------------------------------------------------------------------
(* What makes a key stay current. *)

(***************************************************************************)
(* A write of what the source has makes the key current.                   *)
(***************************************************************************)
LEMMA WriteIsCurrent ==
    ASSUME NEW k \in Keys, NEW t \in Task, CanCopy(t),
           src'[k] = t.got, dst'[k] = Stored(t.got, Large(t.listed))
    PROVE  Current(k)'
  BY TaskWrites DEF Current

-----------------------------------------------------------------------------
(* The steps that begin and end a run. *)

LEMMA ItemKeys == \A i \in Item : i.key \in Keys /\ i.key \in Nat
<1>1. \A k \in SrcScope : k \in Keys
  BY SyncAssumption
<1>2. \A k \in Keys : k \in Nat
  BY SyncAssumption DEF Keys
<1>3. QED
  BY <1>1, <1>2 DEF Item

LEMMA AllDrained == Inv /\ phase # "copy" => \A r \in Slots : Drained(r)
  BY DEF Inv, CheckInv, NoZombies

LEMMA DrainedTasks ==
    ASSUME TypeInv, NEW r \in Slots, Drained(r), NEW w \in Workers
    PROVE  busy[r][w] \notin Task
  BY SyncValuesAssumption DEF Drained

LEMMA BeginCheck ==
    ASSUME Inv, NEW c \in Configs, ~running, BeginSync(c)
    PROVE  CheckInv'
<1>1. \A r \in Slots : Drained(r)
  BY AllDrained DEF Inv, SafeInv, PhaseInv
<1>2. /\ busy' = busy /\ src' = src /\ dst' = dst /\ cp' = cp
      /\ changed' = IF cp = NoCheckpoint THEN {} ELSE changed
      /\ cur' \in Slots
      /\ completed' = [completed EXCEPT ![cur'] = IF cp = NoCheckpoint THEN {} ELSE cp]
  BY <1>1 DEF BeginSync
<1>3. \A r \in Slots : Drained(r)'
  BY <1>1, <1>2 DEF Drained
<1>4. NoZombies' /\ TasksInv'
  BY <1>1, <1>2, <1>3, DrainedTasks DEF NoZombies, TasksInv, Inv
<1>5. Trusted' \subseteq (IF cp = NoCheckpoint THEN {} ELSE cp)
  BY <1>2, <1>3 DEF Trusted, Live, Inv, TypeInv, TypeOK
<1>6. CheckpointSound'
  BY <1>2, <1>5 DEF CheckpointSound, Trusted, Current, Inv, CheckInv
<1>7. QED
  BY <1>4, <1>6 DEF CheckInv

(***************************************************************************)
(* A run ends with all its workers gone.                                   *)
(***************************************************************************)
LEMMA EndCheck ==
    ASSUME Inv, \A r \in Slots : Drained(r), NEW reason, RunEnds(reason),
           PoolEnds, RemoveCheckpoint(reason) \/ UNCHANGED cp,
           UNCHANGED bucketVars
    PROVE  CheckInv'
<1>1. /\ UNCHANGED <<src, dst, changed, busy>> /\ ~running'
      /\ cp' = NoCheckpoint \/ cp' = cp
  BY DEF RunEnds, PoolEnds, RemoveCheckpoint, bucketVars
<1>2. \A r \in Slots : Drained(r)'
  BY <1>1 DEF Drained
<1>3. NoZombies' /\ TasksInv'
  BY <1>1, <1>2, DrainedTasks DEF NoZombies, TasksInv, Inv
<1>4. Trusted' \subseteq Trusted
  BY <1>1, <1>2 DEF Trusted, Live
<1>5. CheckpointSound'
  BY <1>1, <1>4 DEF CheckpointSound, Current, Inv, CheckInv
<1>6. QED
  BY <1>3, <1>5 DEF CheckInv

(***************************************************************************)
(* The steps of a run that move neither objects, workers nor checkpoints.  *)
(***************************************************************************)
LEMMA CheckUnchanged ==
    ASSUME Inv, UNCHANGED <<src, dst, changed, running, cur, busy, completed, cp>>,
           stats'.failed = stats.failed,
           UNCHANGED <<phase, IsDry>> \/ phase # "copy"
    PROVE  CheckInv'
<1>1. Trusted' = Trusted /\ \A r \in Slots : Drained(r)' = Drained(r)
  BY DEF Trusted, Live, Drained
<1>2. NoZombies' /\ TasksInv'
  BY <1>1 DEF Inv, CheckInv, NoZombies, TasksInv
<1>3. CheckpointSound'
  BY <1>1 DEF Inv, CheckInv, CheckpointSound, Current
<1>4. QED
  BY <1>2, <1>3 DEF CheckInv

-----------------------------------------------------------------------------
(* The copy workers. *)

LEMMA TrustedKeys == TypeInv => Trusted \subseteq SrcScope /\ Trusted \subseteq Keys
<1>1. ASSUME TypeInv, NEW k \in Trusted PROVE k \in SrcScope
  <2>1. CASE cp # NoCheckpoint /\ k \in cp
    BY <1>1, <2>1 DEF TypeInv, TypeOK
  <2>2. CASE \E r \in Slots : k \in completed[r]
    BY <1>1, <2>2 DEF TypeInv, TypeOK
  <2>3. QED
    BY <2>1, <2>2 DEF Trusted
<1>2. QED
  BY <1>1, SyncAssumption

(***************************************************************************)
(* A worker that is not gone is of the run going on.                       *)
(***************************************************************************)
LEMMA WorkerOfRun ==
    ASSUME Inv, NEW r \in Slots, NEW w \in Workers, busy[r][w] # Exited
    PROVE  r = cur /\ phase = "copy" /\ running /\ ~IsDry /\ Live(r)
<1>1. ~Drained(r)
  BY DEF Drained
<1>2. QED
  BY <1>1 DEF Inv, CheckInv, NoZombies, SafeInv, PhaseInv, Live

LEMMA TakeCheck ==
    ASSUME Inv, NEW r \in Slots, NEW w \in Workers, TakeFile(r, w)
    PROVE  CheckInv'
<1>1. /\ busy[r][w] = Ready
      /\ UNCHANGED <<src, dst, changed, cp, running, config, kind, phase, cur, stats, completed>>
  BY DEF TakeFile, bucketVars, stateVars, runVars
<1>2. r = cur /\ phase = "copy" /\ running /\ ~IsDry
  BY <1>1, WorkerOfRun, SyncValuesAssumption
<1>3. PICK b : /\ busy' = [busy EXCEPT ![r][w] = b]
               /\ b = Exited \/ (b.before = stats.failed /\ b.got = src[b.key])
  BY DEF TakeFile
<1>4. \A s \in Slots, v \in Workers :
        busy'[s][v] = IF s = r /\ v = w THEN b ELSE busy[s][v]
  BY <1>3 DEF Inv, TypeInv, TypeOK
<1>5. \A s \in Slots : s # r => Drained(s)' = Drained(s)
  BY <1>4 DEF Drained
<1>6. NoZombies'
  BY <1>1, <1>2, <1>5 DEF Inv, CheckInv, NoZombies, IsDry
<1>7. TasksInv'
  BY <1>1, <1>3, <1>4, SyncValuesAssumption DEF Inv, CheckInv, TasksInv, TypeInv, TypeOK
<1>8. Trusted' \subseteq Trusted
  BY <1>1, <1>2, <1>5 DEF Trusted, Live
<1>9. CheckpointSound'
  BY <1>1, <1>8 DEF Inv, CheckInv, CheckpointSound, Current
<1>10. QED
  BY <1>6, <1>7, <1>9 DEF CheckInv

(***************************************************************************)
(* A copy that ends writes nothing, or what the source has unless it was   *)
(* edited, and adds its file to the checkpoint only if it succeeded.       *)
(***************************************************************************)
LEMMA CopyCheck ==
    ASSUME Inv, NEW r \in Slots, NEW w \in Workers,
           CopySucceeds(r, w) \/ CopyFails(r, w)
    PROVE  CheckInv'
<1> DEFINE t == busy[r][w]
           write == CanCopy(t) /\ dst' = [dst EXCEPT ![t.key] = Stored(t.got, Large(t.listed))]
<1>1. /\ t \in Task /\ busy' = [busy EXCEPT ![r][w] = Ready]
      /\ UNCHANGED <<src, changed, running, config, kind, phase, cur>>
      /\ write \/ UNCHANGED dst
  BY DEF CopySucceeds, CopyFails, runVars
<1>2. r = cur /\ phase = "copy" /\ running /\ ~IsDry /\ Live(r)
  BY <1>1, WorkerOfRun, SyncValuesAssumption
<1>3. t.before <= stats.failed /\ (t.got = src[t.key] \/ t.key \in changed)
  BY <1>1 DEF Inv, CheckInv, TasksInv
<1>4. t.before \in Nat /\ t.key \in Keys /\ stats.failed \in Nat
  BY <1>1, SyncAssumption DEF Task, Inv, TypeInv, TypeOK
<1>5. stats'.failed \in Nat /\ stats'.failed >= stats.failed
  BY <1>4 DEF CopySucceeds, CopyFails, Inv, TypeInv, TypeOK
<1>6. \A s \in Slots, v \in Workers :
        busy'[s][v] = IF s = r /\ v = w THEN Ready ELSE busy[s][v]
  BY <1>1 DEF Inv, TypeInv, TypeOK
<1>7. \A s \in Slots : s # r => Drained(s)' = Drained(s)
  BY <1>6 DEF Drained
<1>8. NoZombies'
  BY <1>1, <1>2, <1>7 DEF Inv, CheckInv, NoZombies, IsDry
<1>9. TasksInv'
  <2>1. ASSUME NEW s \in Slots, NEW v \in Workers, busy'[s][v] \in Task
        PROVE  /\ busy'[s][v].before <= stats'.failed
               /\ busy'[s][v].got = src[busy'[s][v].key] \/ busy'[s][v].key \in changed
    <3>1. busy'[s][v] = busy[s][v]
      BY <1>6, <2>1, SyncValuesAssumption
    <3>2. busy[s][v].before <= stats.failed /\ busy[s][v].before \in Nat
      BY <2>1, <3>1 DEF Task, Inv, CheckInv, TasksInv
    <3>3. QED
      BY <1>4, <1>5, <2>1, <3>1, <3>2 DEF Inv, CheckInv, TasksInv
  <2>2. QED
    BY <1>1, <2>1 DEF TasksInv
<1>10. \A k \in Keys \ {t.key} : dst'[k] = dst[k]
  BY <1>1 DEF Inv, TypeInv, TypeOK
<1>11. ASSUME write, NEW k \in Keys, k = t.key PROVE k \in changed \/ Current(k)'
  <2>1. dst'[k] = Stored(t.got, Large(t.listed))
    BY <1>11 DEF Inv, TypeInv, TypeOK
  <2>2. CASE t.got = src[k]
    BY <1>1, <1>11, <2>1, <2>2, WriteIsCurrent
  <2>3. QED
    BY <1>3, <1>11, <2>2
<1>12. Trusted \subseteq Keys
  BY TrustedKeys DEF Inv
<1>13. CASE CopySucceeds(r, w)
  <2>1. Settles(r, t, stats.failed) /\ write
    BY <1>13 DEF CopySucceeds
  <2>2. \A s \in Slots : completed'[s] \subseteq completed[s] \cup (IF s = r THEN {t.key} ELSE {})
    <3>1. completed' = completed \/ completed' = [completed EXCEPT ![r] = @ \cup {t.key}]
      BY <2>1 DEF Settles
    <3>2. completed \in [Slots -> SUBSET SrcScope]
      BY DEF Inv, TypeInv, TypeOK
    <3> HIDE DEF t
    <3>3. QED
      BY <3>1, <3>2
  <2>3. cp' = cp \/ cp' = completed'[r]
    BY <2>1 DEF Settles
  <2>4. completed[r] \subseteq Trusted
    BY <1>2 DEF Trusted
  <2>5. \A s \in Slots : Live(s)' => Live(s)
    BY <1>1, <1>2, <1>7 DEF Live
  <2>6. Trusted' \subseteq Trusted \cup {t.key}
    BY <2>2, <2>3, <2>4, <2>5 DEF Trusted
  <2>7. ASSUME NEW k \in Trusted' PROVE k \in changed' \/ Current(k)'
    <3>1. CASE k = t.key
      BY <1>1, <1>4, <1>11, <2>1, <3>1
    <3>2. CASE k # t.key
      <4>1. k \in Trusted /\ k \in Keys
        BY <1>12, <2>6, <3>2
      <4>2. QED
        BY <1>1, <1>10, <3>2, <4>1 DEF Inv, CheckInv, CheckpointSound, Current
    <3>3. QED
      BY <3>1, <3>2
  <2>8. QED
    BY <1>8, <1>9, <2>7 DEF CheckInv, CheckpointSound
<1>14. CASE CopyFails(r, w)
  <2>1. Settles(r, t, stats.failed + 1)
    BY <1>14 DEF CopyFails
  <2>2. ~CountsAsDone(r, t, stats.failed + 1)
    BY <1>3, <1>4 DEF CountsAsDone
  <2>3. completed' = completed /\ cp' = cp
    BY <2>1, <2>2 DEF Settles
  <2>4. \A s \in Slots : Live(s)' => Live(s)
    BY <1>1, <1>2, <1>7 DEF Live
  <2>5. Trusted' \subseteq Trusted
    BY <2>3, <2>4 DEF Trusted
  <2>6. \A k \in Trusted : k \in Keys
    BY <1>12
  <2>7. \A k \in Trusted : k \in changed' \/ dst'[k] = dst[k] \/ Current(k)'
    BY <1>1, <1>10, <1>11, <2>6
  <2>8. CheckpointSound'
    BY <1>1, <2>5, <2>7 DEF Inv, CheckInv, CheckpointSound, Current
  <2>9. QED
    BY <1>8, <1>9, <2>8 DEF CheckInv
<1>15. QED
  BY <1>13, <1>14

-----------------------------------------------------------------------------
(* The other steps that are more than bookkeeping. *)

(***************************************************************************)
(* The workers of the copy phase start.                                    *)
(***************************************************************************)
LEMMA StartWorkersCheck ==
    ASSUME Inv, phase # "copy", NEW r \in Slots, cur' = r, phase' = "copy", running',
           UNCHANGED <<src, dst, changed, cp>>,
           \/ busy' = busy
           \/ busy' = [busy EXCEPT ![r] = [w \in Workers |-> Ready]] /\ ~IsDry',
           \/ running /\ cur = r /\ completed' = completed
           \/ completed' = [completed EXCEPT ![r] = {}]
    PROVE  CheckInv'
<1>1. \A s \in Slots : Drained(s)
  BY AllDrained
<1>2. \A s \in Slots : s # r => busy'[s] = busy[s] /\ Drained(s)'
  BY <1>1 DEF Drained, Inv, TypeInv, TypeOK
<1>3. NoZombies'
  BY <1>1, <1>2 DEF NoZombies, Drained
<1>4. \A s \in Slots, w \in Workers : busy'[s][w] \in {Ready, Exited}
  BY <1>1 DEF Drained, Inv, TypeInv, TypeOK
<1>5. TasksInv'
  BY <1>4, SyncValuesAssumption DEF TasksInv
<1>6. Trusted' \subseteq Trusted
  <2>1. \A s \in Slots : Live(s)' => s = r
    BY <1>2 DEF Live
  <2>2. completed'[r] = {} \/ (completed'[r] = completed[r] /\ Live(r))
    BY DEF Live, Inv, TypeInv, TypeOK
  <2>3. QED
    BY <2>1, <2>2 DEF Trusted
<1>7. CheckpointSound'
  BY <1>6 DEF Inv, CheckInv, CheckpointSound, Current
<1>8. QED
  BY <1>3, <1>5, <1>7 DEF CheckInv

LEMMA OrphanCheck ==
    ASSUME Inv, NEW d \in Keys, OrphanDone(d)
    PROVE  CheckInv'
<1>1. /\ UNCHANGED <<src, changed, cp, running, stats, config, kind, phase, cur, busy, completed>>
      /\ d \in deleting
      /\ dst' = [dst EXCEPT ![d] = Absent] \/ UNCHANGED dst
  BY DEF OrphanDone, stateVars, poolVars
<1>2. GoneOrEdited(d)
  BY <1>1 DEF Inv, SafeInv, OrphanInv
<1>3. NoZombies' /\ TasksInv'
  BY <1>1 DEF Inv, CheckInv, NoZombies, TasksInv, Drained, IsDry
<1>4. Trusted' = Trusted
  BY <1>1 DEF Trusted, Live, Drained
<1>5. ASSUME NEW k \in Trusted PROVE k \in changed \/ Current(k)'
  <2>1. CASE k = d
    BY <1>1, <1>2, <2>1, TrustedKeys DEF GoneOrEdited, Current, Inv
  <2>2. CASE k # d
    <3>1. k \in Keys
      BY TrustedKeys DEF Inv
    <3>2. dst'[k] = dst[k]
      BY <1>1, <2>2, <3>1 DEF Inv, TypeInv, TypeOK
    <3>3. QED
      BY <1>1, <3>2 DEF Inv, CheckInv, CheckpointSound, Current
  <2>3. QED
    BY <2>1, <2>2
<1>6. QED
  BY <1>1, <1>3, <1>4, <1>5 DEF CheckInv, CheckpointSound

(***************************************************************************)
(* After a restart only the file is left, and what was in flight has       *)
(* written what the source has, or has deleted an orphan.                  *)
(***************************************************************************)
LEMMA RestartCheck ==
    ASSUME Inv, Restart
    PROVE  CheckInv'
<1>1. /\ UNCHANGED <<src, changed, cp>> /\ ~running'
      /\ busy' = [r \in Slots |-> [w \in Workers |-> Exited]]
  BY DEF Restart
<1>2. \A r \in Slots : Drained(r)'
  BY <1>1 DEF Drained
<1>3. NoZombies' /\ TasksInv'
  BY <1>1, <1>2, SyncValuesAssumption DEF NoZombies, TasksInv
<1>4. Trusted' \subseteq Trusted
  BY <1>1, <1>2 DEF Trusted, Live
<1>5. ASSUME NEW k \in Trusted PROVE k \in changed \/ Current(k)'
  <2>1. k \in Keys /\ (k \in changed \/ Current(k))
    BY TrustedKeys DEF Inv, CheckInv, CheckpointSound
  <2>2. CASE dst'[k] = dst[k]
    BY <1>1, <2>1, <2>2 DEF Current
  <2>3. CASE k \in deleting /\ dst'[k] = Absent
    BY <1>1, <2>3, TrustedKeys DEF Inv, SafeInv, OrphanInv, GoneOrEdited, Current
  <2>4. CASE \E r \in Slots, w \in Workers :
               /\ busy[r][w] \in Task /\ CanCopy(busy[r][w])
               /\ busy[r][w].key = k
               /\ dst'[k] = Stored(busy[r][w].got, Large(busy[r][w].listed))
    <3>1. PICK r \in Slots, w \in Workers :
               /\ busy[r][w] \in Task /\ CanCopy(busy[r][w])
               /\ busy[r][w].key = k
               /\ dst'[k] = Stored(busy[r][w].got, Large(busy[r][w].listed))
      BY <2>4
    <3>2. busy[r][w].got = src[k] \/ k \in changed
      BY <3>1 DEF Inv, CheckInv, TasksInv
    <3>3. QED
      BY <1>1, <2>1, <3>1, <3>2, WriteIsCurrent
  <2>5. QED
    BY <2>1, <2>2, <2>3, <2>4, RestartWrites DEF Inv
<1>6. QED
  BY <1>1, <1>3, <1>4, <1>5 DEF CheckInv, CheckpointSound

LEMMA EditCheck ==
    ASSUME Inv, NEW d \in Keys, NEW o \in Objects \cup {Absent}, EditSource(d, o)
    PROVE  CheckInv'
<1>1. /\ UNCHANGED <<dst, cp, running, stats, config, kind, phase, cur, busy, completed>>
      /\ src' = [src EXCEPT ![d] = o] /\ changed' = changed \cup {d}
  BY DEF EditSource, stateVars, runVars, poolVars
<1>2. \A k \in Keys : k \in changed' \/ (src'[k] = src[k] /\ k \notin changed)
  BY <1>1 DEF Inv, TypeInv, TypeOK
<1>3. NoZombies'
  BY <1>1 DEF Inv, CheckInv, NoZombies, Drained, IsDry
<1>4. TasksInv'
  <2>1. ASSUME NEW r \in Slots, NEW w \in Workers, busy[r][w] \in Task
        PROVE  /\ busy[r][w].before <= stats.failed
               /\ busy[r][w].got = src'[busy[r][w].key] \/ busy[r][w].key \in changed'
    <3>1. busy[r][w].key \in Keys
      BY <2>1, SyncAssumption DEF Task
    <3>2. QED
      BY <1>2, <2>1, <3>1 DEF Inv, CheckInv, TasksInv
  <2>2. QED
    BY <1>1, <2>1 DEF TasksInv
<1>5. Trusted' = Trusted
  BY <1>1 DEF Trusted, Live, Drained
<1>6. ASSUME NEW k \in Trusted PROVE k \in changed' \/ Current(k)'
  <2>1. k \in Keys /\ (k \in changed \/ Current(k))
    BY TrustedKeys DEF Inv, CheckInv, CheckpointSound
  <2>2. QED
    BY <1>1, <1>2, <2>1 DEF Current
<1>7. QED
  BY <1>3, <1>4, <1>5, <1>6 DEF CheckInv, CheckpointSound

-----------------------------------------------------------------------------
(* Every step. *)

LEMMA CheckStep ==
    ASSUME Inv, ~DiskMayFail, [Next]_vars
    PROVE  CheckInv'
<1>1. ASSUME NEW c \in Configs, UserStart(c) PROVE CheckInv'
  BY <1>1, BeginCheck DEF UserStart
<1>2. CASE TimerFires
  <2>1. timer \in Configs
    BY <1>2 DEF TimerFires, Inv, TypeInv, TypeOK
  <2>2. CASE running
    BY <1>2, <2>2, CheckUnchanged
       DEF TimerFires, IsDry, bucketVars, stateVars, runVars, poolVars, envVars
  <2>3. CASE ~running
    <3>1. BeginSync(timer)
      BY <1>2, <2>3 DEF TimerFires
    <3>2. QED
      BY <2>1, <2>3, <3>1, BeginCheck
  <2>4. QED
    BY <2>2, <2>3
<1>3. CASE UserRetry
  <2>1. PICK r \in Slots :
          /\ cur' = r
          /\ busy' = [busy EXCEPT ![r] = [w \in Workers |-> Ready]]
          /\ completed' = [completed EXCEPT ![r] = {}]
    BY <1>3 DEF UserRetry
  <2>2. /\ phase # "copy" /\ phase' = "copy" /\ running' /\ ~IsDry'
        /\ UNCHANGED <<src, dst, changed, cp>>
    BY <1>3 DEF UserRetry, IsDry, bucketVars, Inv, SafeInv, PhaseInv
  <2>3. QED
    BY <2>1, <2>2, StartWorkersCheck
<1>4. CASE ListDst \/ ScanPage
  <2>1. /\ phase # "copy" /\ stats'.failed = stats.failed
        /\ UNCHANGED <<src, dst, changed, running, cur, busy, completed, cp>>
    BY <1>4 DEF ListDst, ScanPage, bucketVars, stateVars, poolVars, Inv, TypeInv, TypeOK
  <2>2. QED
    BY <2>1, CheckUnchanged
<1>5. CASE ListFails
  <2>1. /\ RunEnds("fatal_error") /\ PoolEnds /\ UNCHANGED bucketVars /\ UNCHANGED cp
        /\ \A r \in Slots : Drained(r)
    BY <1>5, AllDrained DEF ListFails
  <2>2. QED
    BY <2>1, EndCheck
<1>6. CASE EndScan
  <2>1. /\ phase # "copy" /\ phase' = "copy" /\ running /\ running' /\ cur' = cur
        /\ cur \in Slots /\ completed' = completed
        /\ UNCHANGED <<src, dst, changed, cp>>
        /\ \/ busy' = busy
           \/ busy' = [busy EXCEPT ![cur] = [w \in Workers |-> Ready]] /\ ~IsDry'
    BY <1>6 DEF EndScan, IsDry, bucketVars, stateVars, Inv, SafeInv, PhaseInv, TypeInv, TypeOK
  <2>2. QED
    BY <2>1, StartWorkersCheck
<1>7. ASSUME NEW r \in Slots, NEW w \in Workers, TakeFile(r, w) PROVE CheckInv'
  BY <1>7, TakeCheck
<1>8. ASSUME NEW r \in Slots, NEW w \in Workers, CopySucceeds(r, w) \/ CopyFails(r, w)
      PROVE  CheckInv'
  BY <1>8, CopyCheck
<1>9. ~\E r \in Slots, w \in Workers : SaveFails(r, w)
  BY DEF SaveFails
<1>10. CASE EndCopy
  <2>1. \A r \in Slots : Drained(r)
    BY <1>10 DEF EndCopy, Inv, CheckInv, NoZombies
  <2>2. CASE doomed # {} /\ MayDelete
    <3>1. /\ UNCHANGED <<src, dst, changed, running, cur, busy, completed, cp, stats>>
          /\ phase' = "delete"
      BY <1>10, <2>2 DEF EndCopy, bucketVars, poolVars
    <3>2. NoZombies' /\ TasksInv'
      BY <2>1, <3>1, DrainedTasks DEF NoZombies, TasksInv, Drained, Inv
    <3>3. Trusted' = Trusted
      BY <3>1 DEF Trusted, Live, Drained
    <3>4. QED
      BY <3>1, <3>2, <3>3 DEF Inv, CheckInv, CheckpointSound, Current
  <2>3. CASE ~(doomed # {} /\ MayDelete)
    BY <1>10, <2>1, <2>3, EndCheck DEF EndCopy
  <2>4. QED
    BY <2>2, <2>3
<1>11. CASE DryCopy
  <2>1. \A r \in Slots : Drained(r)
    BY <1>11 DEF DryCopy, Inv, CheckInv, NoZombies
  <2>2. QED
    BY <1>11, <2>1, EndCheck DEF DryCopy
<1>12. CASE EndDelete
  <2>1. \A r \in Slots : Drained(r)
    BY <1>12, AllDrained DEF EndDelete
  <2>2. QED
    BY <1>12, <2>1, EndCheck DEF EndDelete
<1>13. ASSUME NEW k \in Keys, TakeOrphan(k) PROVE CheckInv'
  BY <1>13, CheckUnchanged DEF TakeOrphan, bucketVars, stateVars, poolVars
<1>14. ASSUME NEW k \in Keys, OrphanDone(k) PROVE CheckInv'
  BY <1>14, OrphanCheck
<1>15. CASE UserStop \/ Shutdown
  BY <1>15, CheckUnchanged
     DEF UserStop, Shutdown, IsDry, bucketVars, runVars, poolVars
<1>16. CASE UserRemovesCheckpoint
  <2>1. /\ cp' = NoCheckpoint
        /\ UNCHANGED <<src, dst, changed, running, stats, config, kind, phase, cur,
                       busy, completed>>
    BY <1>16 DEF UserRemovesCheckpoint, bucketVars, stateVars, runVars, poolVars
  <2>2. NoZombies' /\ TasksInv'
    BY <2>1 DEF Inv, CheckInv, NoZombies, TasksInv, Drained, IsDry
  <2>3. Trusted' \subseteq Trusted
    BY <2>1 DEF Trusted, Live, Drained
  <2>4. QED
    BY <2>1, <2>2, <2>3 DEF Inv, CheckInv, CheckpointSound, Current
<1>17. CASE Restart
  BY <1>17, RestartCheck
<1>18. ASSUME NEW k \in Keys, NEW o \in Objects \cup {Absent}, EditSource(k, o)
       PROVE  CheckInv'
  BY <1>18, EditCheck
<1>19. CASE UNCHANGED vars
  BY <1>19, CheckUnchanged DEF vars, IsDry, bucketVars, stateVars, runVars, poolVars
<1>20. QED
  BY <1>1, <1>2, <1>3, <1>4, <1>5, <1>6, <1>7, <1>8, <1>9, <1>10, <1>11, <1>12,
     <1>13, <1>14, <1>15, <1>16, <1>17, <1>18, <1>19 DEF Next, Engine, Failure, User

LEMMA CheckInit == Init => CheckInv
<1> SUFFICES ASSUME Init PROVE CheckInv
  OBVIOUS
<1>1. \A r \in Slots : Drained(r)
  BY DEF Init, EmptyPools, Drained
<1>2. NoZombies /\ TasksInv
  BY <1>1, SyncValuesAssumption DEF Init, EmptyPools, NoZombies, TasksInv
<1>3. Trusted = {}
  BY <1>1 DEF Init, Trusted, Live
<1>4. QED
  BY <1>2, <1>3 DEF CheckInv, CheckpointSound

LEMMA InvAlways ==
    ASSUME ~DiskMayFail
    PROVE  Spec => []Inv
<1>1. Init => Inv
  BY TypeInit, SafeInit, CheckInit DEF Inv
<1>2. Inv /\ [Next]_vars => Inv'
  BY TypeStep, SafeStep, CheckStep DEF Inv
<1>3. QED
  BY <1>1, <1>2, PTL DEF Spec

-----------------------------------------------------------------------------
(* The files of a run and its counters. *)

LEMMA NoneCopying ==
    ASSUME TypeInv, NEW r \in Slots, Drained(r)
    PROVE  Copying(r) = {}
  BY DrainedTasks DEF Copying

(***************************************************************************)
(* Steps that touch neither files nor counters.                            *)
(***************************************************************************)
LEMMA TallyUnchanged ==
    ASSUME TallyInv, UNCHANGED <<cur, busy, todo, lastFailed, stats>>,
           UNCHANGED <<phase, scanned>> \/ (phase = "copy" /\ phase' = "delete")
    PROVE  TallyInv'
<1>1. Copying(cur)' = Copying(cur)
  BY DEF Copying
<1>2. InOnePlace'
  BY <1>1 DEF TallyInv, InOnePlace, ItemOf
<1>3. ScanInv'
  BY DEF TallyInv, ScanInv
<1>4. StatsAddUp' /\ FailuresRemembered'
  BY <1>1 DEF TallyInv, StatsAddUp, FailuresRemembered
<1>5. QED
  BY <1>1, <1>2, <1>3, <1>4 DEF TallyInv

(***************************************************************************)
(* A state without workers and without a list of files.                    *)
(***************************************************************************)
LEMMA TallyEmpty ==
    ASSUME TypeInv', Drained(cur)', todo'[cur'] = {}, FailuresRemembered',
           \/ phase' \in {"idle", "wedged"}
           \/ phase' = "list" /\ stats' = ZeroStats /\ lastFailed' = {}
    PROVE  TallyInv'
<1>1. Copying(cur)' = {}
  BY SyncValuesAssumption DEF Copying, Drained
<1>2. Cardinality({}) = 0 /\ IsFiniteSet({})
  BY FS_EmptySet
<1>3. InOnePlace'
  BY <1>1 DEF InOnePlace
<1>4. ScanInv'
  BY <1>2 DEF ScanInv, ZeroStats
<1>5. QED
  BY <1>1, <1>2, <1>3, <1>4 DEF TallyInv, StatsAddUp

LEMMA BeginTally ==
    ASSUME Inv, Inv', NEW c \in Configs, ~running, BeginSync(c)
    PROVE  TallyInv'
<1>1. PICK r \in Slots : Drained(r) /\ cur' = r /\ todo' = [todo EXCEPT ![r] = {}]
  BY DEF BeginSync
<1>2. /\ busy' = busy /\ stats' = ZeroStats /\ lastFailed' = {}
      /\ phase' \in {"list", "wedged"}
  BY DEF BeginSync, ResetStats
<1>3. Drained(cur)' /\ todo'[cur'] = {}
  BY <1>1, <1>2 DEF Drained, Inv, TypeInv, TypeOK
<1>4. FailuresRemembered'
  BY <1>2, FS_EmptySet, SyncAssumption DEF FailuresRemembered, ZeroStats
<1>5. QED
  BY <1>2, <1>3, <1>4, TallyEmpty DEF Inv

(***************************************************************************)
(* A run ends: its failures stay, and their number.                        *)
(***************************************************************************)
LEMMA EndTally ==
    ASSUME Inv, Inv', TallyInv, Drained(cur), NEW reason, RunEnds(reason), PoolEnds,
           lastFailed' = lastFailed, stats'.failed = stats.failed
    PROVE  TallyInv'
<1>1. /\ cur' = cur /\ busy' = busy /\ phase' = "idle"
      /\ todo' = [todo EXCEPT ![cur] = {}]
  BY DEF RunEnds, PoolEnds
<1>2. Drained(cur)' /\ todo'[cur'] = {}
  BY <1>1 DEF Drained, Inv, TypeInv, TypeOK
<1>3. FailuresRemembered'
  BY DEF TallyInv, FailuresRemembered
<1>4. QED
  BY <1>1, <1>2, <1>3, TallyEmpty DEF Inv

(***************************************************************************)
(* The workers of the copy phase start with the whole list before them.    *)
(***************************************************************************)
LEMMA StartTally ==
    ASSUME Inv, Inv', phase' = "copy", Drained(cur'), cur' \in Slots,
           \/ busy' = busy
           \/ busy' = [busy EXCEPT ![cur'] = [w \in Workers |-> Ready]],
           todo'[cur'] \cap lastFailed' = {}, FailuresRemembered',
           stats'.synced = 0, stats'.failed = 0,
           stats'.total = stats'.skipped + Cardinality(todo'[cur'])
    PROVE  TallyInv'
<1>1. Copying(cur)' = {}
  <2>1. \A w \in Workers : busy'[cur'][w] \in {Ready, Exited}
    BY DEF Drained, Inv, TypeInv, TypeOK
  <2>2. QED
    BY <2>1, SyncValuesAssumption DEF Copying
<1>2. Cardinality({}) = 0 /\ IsFiniteSet({})
  BY FS_EmptySet
<1>3. InOnePlace'
  BY <1>1 DEF InOnePlace
<1>4. ScanInv'
  BY DEF ScanInv
<1>5. Cardinality(todo'[cur']) \in Nat /\ stats'.skipped \in Nat
  BY FS_CardinalityType DEF Inv, TypeInv, TypeOK, Finite
<1>6. StatsAddUp'
  BY <1>1, <1>2, <1>5 DEF StatsAddUp
<1>7. QED
  BY <1>1, <1>2, <1>3, <1>4, <1>6 DEF TallyInv

LEMMA RetryTally ==
    ASSUME Inv, Inv', TallyInv, UserRetry
    PROVE  TallyInv'
<1>1. PICK r \in Slots :
        /\ Drained(r) /\ cur' = r /\ todo' = [todo EXCEPT ![r] = lastFailed]
        /\ busy' = [busy EXCEPT ![r] = [w \in Workers |-> Ready]]
  BY DEF UserRetry
<1>2. /\ phase' = "copy" /\ lastFailed' = {}
      /\ stats' = [ZeroStats EXCEPT !.total = Cardinality(lastFailed)]
  BY DEF UserRetry, ResetStats
<1>3. todo'[cur'] = lastFailed
  BY <1>1 DEF Inv, TypeInv, TypeOK
<1>4. /\ stats'.total = Cardinality(lastFailed)
      /\ stats'.synced = 0 /\ stats'.failed = 0 /\ stats'.skipped = 0
  BY <1>2 DEF ZeroStats
<1>5. Cardinality(lastFailed) \in Nat
  BY FS_CardinalityType DEF Inv, TypeInv, Finite
<1>6. FailuresRemembered'
  BY <1>2, <1>4, FS_EmptySet, SyncAssumption DEF FailuresRemembered
<1>7. QED
  BY <1>1, <1>2, <1>3, <1>4, <1>5, <1>6, StartTally

(***************************************************************************)
(* A page adds to the list what it does not skip, and nothing twice: its   *)
(* keys come after all those of the pages before.                          *)
(***************************************************************************)
LEMMA ScanTally ==
    ASSUME Inv, TallyInv, ScanPage
    PROVE  TallyInv'
<1>1. PICK last : last = IF scanned + PageSize < NumKeys THEN scanned + PageSize ELSE NumKeys
  OBVIOUS
<1>2. PICK page : page = {k \in (scanned + 1)..last : k \in SrcScope /\ src[k] # Absent}
  OBVIOUS
<1>3. PICK copy : copy = ToCopy(page)
  OBVIOUS
<1>4. PICK add : add = {[key |-> k, obj |-> src[k]] : k \in copy}
  OBVIOUS
<1>5. /\ phase = "scan" /\ phase' = "scan" /\ scanned' = last /\ scanned < NumKeys
      /\ todo' = [todo EXCEPT ![cur] = @ \cup add]
      /\ stats' = [stats EXCEPT !.total = @ + Cardinality(page),
                               !.skipped = @ + Cardinality(page \ copy)]
      /\ UNCHANGED <<lastFailed, busy, cur>>
  BY <1>1, <1>2, <1>3, <1>4 DEF ScanPage, Skipped
<1>6. last \in 0..NumKeys /\ scanned <= last /\ scanned \in Nat /\ NumKeys \in Nat
  BY <1>1, <1>5, SyncAssumption DEF Inv, TypeInv, TypeOK
<1>7. page \subseteq Keys /\ copy \subseteq page
  BY <1>2, <1>3, <1>6 DEF Keys, ToCopy
<1>8. /\ IsFiniteSet(page) /\ IsFiniteSet(copy) /\ IsFiniteSet(page \ copy)
      /\ Cardinality(page) \in Nat /\ Cardinality(copy) \in Nat
      /\ Cardinality(page \ copy) \in Nat
      /\ IsFiniteSet(add) /\ Cardinality(add) = Cardinality(copy)
  BY <1>4, <1>7, PageIsFinite
<1>9. Cardinality(page) = Cardinality(copy) + Cardinality(page \ copy)
  <2>1. copy \cup (page \ copy) = page /\ copy \cap (page \ copy) = {}
    BY <1>7
  <2>2. Cardinality(copy \cup (page \ copy)) =
          Cardinality(copy) + Cardinality(page \ copy) - Cardinality(copy \cap (page \ copy))
    BY <1>8, FS_Union
  <2>3. Cardinality(copy \cap (page \ copy)) = 0
    BY <2>1, FS_EmptySet
  <2>4. Cardinality(page) = Cardinality(copy) + Cardinality(page \ copy) - 0
    BY <2>1, <2>2, <2>3
  <2>5. QED
    BY ONLY <1>8, <2>4
<1>10. PICK old : old = todo[cur]
  OBVIOUS
<1>11. /\ IsFiniteSet(old) /\ old \subseteq Item /\ Cardinality(old) \in Nat
       /\ \A i \in old : i.key <= scanned
  BY <1>5, <1>10, FS_CardinalityType DEF TallyInv, ScanInv, Inv, TypeInv, TypeOK, Finite
<1>12. \A i \in add : i.key > scanned /\ i.key <= last
  BY <1>2, <1>4, <1>6, <1>7
<1>13. old \cap add = {}
  <2>1. ASSUME NEW i \in old, i \in add PROVE FALSE
    <3>1. i.key \in Nat
      BY <1>11, ItemKeys
    <3>2. QED
      BY <1>6, <1>11, <1>12, <2>1, <3>1
  <2>2. QED
    BY <2>1
<1>14. Cardinality(old \cup add) = Cardinality(old) + Cardinality(copy)
  <2>1. Cardinality(old \cup add) =
          Cardinality(old) + Cardinality(add) - Cardinality(old \cap add)
    BY <1>8, <1>11, FS_Union
  <2>2. QED
    BY <1>8, <1>11, <1>13, <2>1, FS_EmptySet
<1>15. todo'[cur'] = old \cup add
  BY <1>5, <1>10 DEF Inv, TypeInv, TypeOK
<1>16. /\ stats.total = stats.skipped + Cardinality(old) /\ lastFailed = {}
       /\ stats.failed = 0 /\ stats.synced = 0
  BY <1>5, <1>10 DEF TallyInv, ScanInv
<1>17. /\ stats.total \in Nat /\ stats.skipped \in Nat
       /\ stats'.total = stats.total + Cardinality(page)
       /\ stats'.skipped = stats.skipped + Cardinality(page \ copy)
       /\ stats'.failed = stats.failed /\ stats'.synced = stats.synced
  BY <1>5 DEF Inv, TypeInv, TypeOK
<1>18. stats'.total = stats'.skipped + Cardinality(todo'[cur'])
  BY <1>8, <1>9, <1>11, <1>14, <1>15, <1>16, <1>17
<1>19. Copying(cur) = {} /\ Copying(cur)' = Copying(cur)
  <2>1. Drained(cur)
    BY <1>5, AllDrained DEF Inv, TypeInv, TypeOK
  <2>2. QED
    BY <1>5, <2>1, NoneCopying DEF Copying, Inv, TypeInv, TypeOK
<1>20. \A i \in todo'[cur'] : i.key <= scanned'
  <2>1. ASSUME NEW i \in old PROVE i.key <= last
    <3>1. i.key \in Nat /\ i.key <= scanned
      BY <1>11, ItemKeys
    <3>2. QED
      BY <1>6, <3>1
  <2>2. QED
    BY <1>5, <1>12, <1>15, <2>1
<1>21. InOnePlace'
  BY <1>5, <1>16, <1>19 DEF InOnePlace
<1>22. ScanInv'
  BY <1>5, <1>16, <1>17, <1>18, <1>20 DEF ScanInv
<1>23. StatsAddUp' /\ FailuresRemembered'
  BY <1>5, <1>17 DEF StatsAddUp, FailuresRemembered, TallyInv
<1>24. QED
  BY <1>19, <1>21, <1>22, <1>23, FS_EmptySet DEF TallyInv

(***************************************************************************)
(* A worker moves a file from the list into its hands.                     *)
(***************************************************************************)
LEMMA TakeTally ==
    ASSUME Inv, Inv', TallyInv, NEW r \in Slots, NEW w \in Workers, TakeFile(r, w)
    PROVE  TallyInv'
<1>1. /\ busy[r][w] = Ready
      /\ UNCHANGED <<lastFailed, stats, cur, phase, scanned>>
  BY DEF TakeFile, stateVars, runVars
<1>2. r = cur /\ phase = "copy"
  BY <1>1, WorkerOfRun, SyncValuesAssumption
<1>3. w \notin Copying(cur)
  BY <1>1, <1>2, SyncValuesAssumption DEF Copying
<1>4. ScanInv' /\ FailuresRemembered'
  BY <1>1, <1>2 DEF TallyInv, ScanInv, FailuresRemembered
<1>5. CASE busy' = [busy EXCEPT ![r][w] = Exited] /\ UNCHANGED todo
  <2>1. \A v \in Workers : busy'[cur][v] = IF v = w THEN Exited ELSE busy[cur][v]
    BY <1>2, <1>5 DEF Inv, TypeInv, TypeOK
  <2>2. Copying(cur)' = Copying(cur)
    BY <1>1, <1>3, <2>1, SyncValuesAssumption DEF Copying
  <2>3. \A v \in Copying(cur) : busy'[cur][v] = busy[cur][v]
    BY <1>3, <2>1 DEF Copying
  <2>4. InOnePlace'
    BY <1>1, <1>5, <2>2, <2>3 DEF TallyInv, InOnePlace, ItemOf
  <2>5. StatsAddUp'
    BY <1>1, <1>5, <2>2 DEF TallyInv, StatsAddUp
  <2>6. QED
    BY <1>4, <2>2, <2>4, <2>5 DEF TallyInv
<1>6. CASE \E i \in todo[r] :
             /\ busy' = [busy EXCEPT ![r][w] =
                   [key |-> i.key, listed |-> i.obj, got |-> src[i.key],
                    before |-> stats.failed]]
             /\ todo' = [todo EXCEPT ![r] = @ \ {i}]
  <2>1. PICK i \in todo[r] :
             /\ busy' = [busy EXCEPT ![r][w] =
                   [key |-> i.key, listed |-> i.obj, got |-> src[i.key],
                    before |-> stats.failed]]
             /\ todo' = [todo EXCEPT ![r] = @ \ {i}]
    BY <1>6
  <2>2. PICK t : t = [key |-> i.key, listed |-> i.obj, got |-> src[i.key],
                      before |-> stats.failed]
    OBVIOUS
  <2>3. i \in Item /\ todo'[cur] = todo[cur] \ {i}
    BY <1>2, <2>1 DEF Inv, TypeInv, TypeOK
  <2>4. \A v \in Workers : busy'[cur][v] = IF v = w THEN t ELSE busy[cur][v]
    BY <1>2, <2>1, <2>2 DEF Inv, TypeInv, TypeOK
  <2>5. t \in Task
    BY <2>2, <2>3, SyncAssumption DEF Item, Task, Inv, TypeInv, TypeOK
  <2>6. ItemOf(t) = i
    BY <2>2, <2>3 DEF ItemOf, Item
  <2>7. Copying(cur)' = Copying(cur) \cup {w}
    BY <1>1, <1>3, <2>4, <2>5 DEF Copying
  <2>8. /\ busy'[cur][w] = t
        /\ \A v \in Copying(cur) : v # w /\ busy'[cur][v] = busy[cur][v]
    BY <1>3, <2>4 DEF Copying
  <2>9. /\ todo[cur] \cap lastFailed = {} /\ i \in todo[cur]
        /\ \A v \in Copying(cur) :
              /\ ItemOf(busy[cur][v]) \notin todo[cur] \cup lastFailed
              /\ \A u \in Copying(cur) :
                    ItemOf(busy[cur][u]) = ItemOf(busy[cur][v]) => u = v
    BY <1>2, <2>1 DEF TallyInv, InOnePlace
  <2>10. \A v \in Copying(cur)' :
           ItemOf(busy'[cur][v]) = IF v = w THEN i ELSE ItemOf(busy[cur][v])
    BY <2>6, <2>7, <2>8
  <2>11. /\ todo'[cur] \cap lastFailed = {}
         /\ \A v \in Copying(cur)' :
               /\ ItemOf(busy'[cur][v]) \notin todo'[cur] \cup lastFailed
               /\ \A u \in Copying(cur)' :
                     ItemOf(busy'[cur][u]) = ItemOf(busy'[cur][v]) => u = v
    BY <2>3, <2>7, <2>8, <2>9, <2>10
  <2>12. InOnePlace'
    BY <1>1, <2>11 DEF InOnePlace, ItemOf
  <2>13. /\ IsFiniteSet(todo[cur]) /\ IsFiniteSet(Copying(cur))
         /\ Cardinality(todo[cur]) \in Nat /\ Cardinality(Copying(cur)) \in Nat
    BY FS_CardinalityType DEF Inv, TypeInv, TypeOK, Finite, TallyInv
  <2>14. Cardinality(todo'[cur]) = Cardinality(todo[cur]) - 1
    BY <2>3, <2>9, <2>13, FS_RemoveElement
  <2>15. /\ IsFiniteSet(Copying(cur)')
         /\ Cardinality(Copying(cur)') = Cardinality(Copying(cur)) + 1
    BY <1>3, <2>7, <2>13, FS_AddElement
  <2>16. /\ stats.synced \in Nat /\ stats.failed \in Nat /\ stats.skipped \in Nat
         /\ stats.total = stats.synced + stats.failed + stats.skipped
                             + Cardinality(todo[cur]) + Cardinality(Copying(cur))
    BY <1>2 DEF TallyInv, StatsAddUp, Inv, TypeInv, TypeOK
  <2>17. StatsAddUp'
    BY <1>1, <2>13, <2>14, <2>15, <2>16 DEF StatsAddUp
  <2>18. QED
    BY <1>4, <2>12, <2>15, <2>17 DEF TallyInv
<1>7. QED
  BY <1>5, <1>6 DEF TakeFile

(***************************************************************************)
(* A worker puts its file down, copied or among the failures.              *)
(***************************************************************************)
LEMMA CopyTally ==
    ASSUME Inv, Inv', TallyInv, NEW r \in Slots, NEW w \in Workers,
           CopySucceeds(r, w) \/ CopyFails(r, w)
    PROVE  TallyInv'
<1>1. PICK t : t = busy[r][w]
  OBVIOUS
<1>2. /\ t \in Task /\ busy' = [busy EXCEPT ![r][w] = Ready]
      /\ UNCHANGED <<todo, cur, phase, scanned>>
  BY <1>1 DEF CopySucceeds, CopyFails, runVars
<1>3. r = cur /\ phase = "copy" /\ phase' = "copy"
  BY <1>1, <1>2, WorkerOfRun, SyncValuesAssumption
<1>4. \A v \in Workers : busy'[cur][v] = IF v = w THEN Ready ELSE busy[cur][v]
  BY <1>2, <1>3 DEF Inv, TypeInv, TypeOK
<1>5. w \in Copying(cur) /\ Copying(cur)' = Copying(cur) \ {w}
  BY <1>1, <1>2, <1>3, <1>4, SyncValuesAssumption DEF Copying
<1>6. \A v \in Copying(cur)' : v # w /\ busy'[cur][v] = busy[cur][v]
  BY <1>4, <1>5 DEF Copying
<1>7. /\ todo[cur] \cap lastFailed = {} /\ ItemOf(t) \notin todo[cur] \cup lastFailed
      /\ \A v \in Copying(cur) :
            /\ ItemOf(busy[cur][v]) \notin todo[cur] \cup lastFailed
            /\ v # w => ItemOf(busy[cur][v]) # ItemOf(t)
            /\ \A u \in Copying(cur) :
                  ItemOf(busy[cur][u]) = ItemOf(busy[cur][v]) => u = v
  BY <1>1, <1>3, <1>5 DEF TallyInv, InOnePlace
<1>8. lastFailed' = lastFailed \/ lastFailed' = lastFailed \cup {ItemOf(t)}
  BY <1>1 DEF CopySucceeds, CopyFails
<1>9. InOnePlace'
  <2>1. /\ todo[cur] \cap lastFailed' = {}
        /\ \A v \in Copying(cur)' :
              /\ ItemOf(busy'[cur][v]) \notin todo[cur] \cup lastFailed'
              /\ \A u \in Copying(cur)' :
                    ItemOf(busy'[cur][u]) = ItemOf(busy'[cur][v]) => u = v
    BY <1>5, <1>6, <1>7, <1>8
  <2>2. QED
    BY <1>2, <2>1 DEF InOnePlace, ItemOf
<1>10. ScanInv'
  BY <1>3 DEF ScanInv
<1>11. /\ IsFiniteSet(Copying(cur)) /\ Cardinality(Copying(cur)) \in Nat
       /\ Cardinality(todo[cur]) \in Nat
       /\ IsFiniteSet(lastFailed) /\ Cardinality(lastFailed) \in Nat
  BY FS_CardinalityType DEF Inv, TypeInv, TypeOK, Finite, TallyInv
<1>12. /\ IsFiniteSet(Copying(cur)')
       /\ Cardinality(Copying(cur)') = Cardinality(Copying(cur)) - 1
  BY <1>5, <1>11, FS_RemoveElement
<1>13. stats \in [total : Nat, synced : Nat, failed : Nat, skipped : Nat]
  BY DEF Inv, TypeInv, TypeOK
<1>14. stats.total = stats.synced + stats.failed + stats.skipped
                       + Cardinality(todo[cur]) + Cardinality(Copying(cur))
  BY <1>3 DEF TallyInv, StatsAddUp
<1>15. /\ stats'.total = stats.total /\ stats'.skipped = stats.skipped
       /\ \/ stats'.synced = stats.synced + 1 /\ stats'.failed = stats.failed
          \/ stats'.synced = stats.synced /\ stats'.failed = stats.failed + 1
  BY <1>13 DEF CopySucceeds, CopyFails
<1>16. StatsAddUp'
  <2>1. stats'.synced + stats'.failed = stats.synced + stats.failed + 1
    BY <1>13, <1>15
  <2>2. /\ stats.synced \in Nat /\ stats.failed \in Nat /\ stats.skipped \in Nat
        /\ stats'.synced \in Nat /\ stats'.failed \in Nat
    BY <1>13, <1>15
  <2>3. stats'.total = stats'.synced + stats'.failed + stats'.skipped
                        + Cardinality(todo[cur]) + Cardinality(Copying(cur)')
    BY <1>11, <1>12, <1>14, <1>15, <2>1, <2>2
  <2>4. QED
    BY <1>2, <2>3 DEF StatsAddUp
<1>17. FailuresRemembered'
  <2>1. Cardinality(lastFailed) =
          IF stats.failed <= FailedCap THEN stats.failed ELSE FailedCap
    BY DEF TallyInv, FailuresRemembered
  <2>2. stats.failed \in Nat /\ FailedCap \in Nat
    BY <1>13, SyncAssumption
  <2>3. CASE CopySucceeds(r, w)
    BY <2>1, <2>3, <1>13 DEF CopySucceeds, FailuresRemembered
  <2>4. CASE CopyFails(r, w)
    <3>1. stats'.failed = stats.failed + 1
      BY <2>4, <1>13 DEF CopyFails
    <3>2. lastFailed' = IF Cardinality(lastFailed) < FailedCap
                          THEN lastFailed \cup {ItemOf(t)} ELSE lastFailed
      BY <2>4, <1>1 DEF CopyFails
    <3>3. Cardinality(lastFailed \cup {ItemOf(t)}) = Cardinality(lastFailed) + 1
      BY <1>7, <1>11, FS_AddElement
    <3>4. Cardinality(lastFailed') =
            IF stats.failed + 1 <= FailedCap THEN stats.failed + 1 ELSE FailedCap
      BY <2>1, <2>2, <3>2, <3>3
    <3>5. QED
      BY <3>1, <3>4 DEF FailuresRemembered
  <2>5. QED
    BY <2>3, <2>4
<1>18. QED
  BY <1>9, <1>10, <1>12, <1>16, <1>17 DEF TallyInv

LEMMA TallyStep ==
    ASSUME Inv, Inv', TallyInv, ~DiskMayFail, [Next]_vars
    PROVE  TallyInv'
<1>1. ASSUME NEW c \in Configs, UserStart(c) PROVE TallyInv'
  BY <1>1, BeginTally DEF UserStart
<1>2. CASE TimerFires
  <2>1. timer \in Configs
    BY <1>2 DEF TimerFires, Inv, TypeInv, TypeOK
  <2>2. CASE running
    BY <1>2, <2>2, TallyUnchanged DEF TimerFires, stateVars, runVars, poolVars
  <2>3. CASE ~running
    <3>1. BeginSync(timer)
      BY <1>2, <2>3 DEF TimerFires
    <3>2. QED
      BY <2>1, <2>3, <3>1, BeginTally
  <2>4. QED
    BY <2>2, <2>3
<1>3. CASE UserRetry
  BY <1>3, RetryTally
<1>4. CASE ListDst
  <2>1. /\ phase = "list" /\ phase' = "scan" /\ scanned' = 0
        /\ UNCHANGED <<cur, busy, todo, lastFailed, stats>>
    BY <1>4 DEF ListDst, stateVars, poolVars
  <2>2. Copying(cur)' = Copying(cur)
    BY <2>1 DEF Copying
  <2>3. InOnePlace'
    BY <2>1, <2>2 DEF TallyInv, InOnePlace, ItemOf
  <2>4. ScanInv'
    BY <2>1 DEF TallyInv, ScanInv
  <2>5. StatsAddUp' /\ FailuresRemembered'
    BY <2>1 DEF TallyInv, StatsAddUp, FailuresRemembered
  <2>6. QED
    BY <2>2, <2>3, <2>4, <2>5 DEF TallyInv
<1>5. CASE ScanPage
  BY <1>5, ScanTally
<1>6. CASE EndScan
  <2>1. /\ phase = "scan" /\ phase' = "copy" /\ UNCHANGED <<cur, todo, lastFailed, stats>>
        /\ \/ busy' = busy
           \/ busy' = [busy EXCEPT ![cur] = [w \in Workers |-> Ready]]
    BY <1>6 DEF EndScan, stateVars
  <2>2. cur \in Slots /\ Drained(cur)
    BY <2>1, AllDrained DEF Inv, TypeInv, TypeOK
  <2>3. /\ todo[cur] \cap lastFailed = {} /\ stats.synced = 0 /\ stats.failed = 0
        /\ stats.total = stats.skipped + Cardinality(todo[cur])
    BY <2>1 DEF TallyInv, InOnePlace, ScanInv
  <2>4. FailuresRemembered'
    BY <2>1 DEF TallyInv, FailuresRemembered
  <2>5. QED
    BY <2>1, <2>2, <2>3, <2>4, StartTally
<1>7. ASSUME NEW r \in Slots, NEW w \in Workers, TakeFile(r, w) PROVE TallyInv'
  BY <1>7, TakeTally
<1>8. ASSUME NEW r \in Slots, NEW w \in Workers, CopySucceeds(r, w) \/ CopyFails(r, w)
      PROVE  TallyInv'
  BY <1>8, CopyTally
<1>9. ~\E r \in Slots, w \in Workers : SaveFails(r, w)
  BY DEF SaveFails
<1>10. CASE ListFails
  <2>1. cur \in Slots /\ Drained(cur)
    BY <1>10, AllDrained DEF ListFails, Inv, TypeInv, TypeOK
  <2>2. QED
    BY <1>10, <2>1, EndTally DEF ListFails
<1>11. CASE EndCopy
  <2>1. CASE doomed # {} /\ MayDelete
    BY <1>11, <2>1, TallyUnchanged DEF EndCopy, poolVars
  <2>2. CASE ~(doomed # {} /\ MayDelete)
    BY <1>11, <2>2, EndTally DEF EndCopy
  <2>3. QED
    BY <2>1, <2>2
<1>12. CASE DryCopy
  <2>1. cur \in Slots /\ Drained(cur)
    BY <1>12 DEF DryCopy, Inv, CheckInv, NoZombies, TypeInv, TypeOK
  <2>2. stats'.failed = stats.failed
    BY <1>12 DEF DryCopy, Inv, TypeInv, TypeOK
  <2>3. QED
    BY <1>12, <2>1, <2>2, EndTally DEF DryCopy
<1>13. CASE EndDelete
  <2>1. cur \in Slots /\ Drained(cur)
    BY <1>13, AllDrained DEF EndDelete, Inv, TypeInv, TypeOK
  <2>2. QED
    BY <1>13, <2>1, EndTally DEF EndDelete
<1>14. ASSUME NEW k \in Keys, TakeOrphan(k) \/ OrphanDone(k) PROVE TallyInv'
  BY <1>14, TallyUnchanged DEF TakeOrphan, OrphanDone, stateVars, poolVars
<1>15. CASE UserStop \/ Shutdown \/ UserRemovesCheckpoint
  BY <1>15, TallyUnchanged
     DEF UserStop, Shutdown, UserRemovesCheckpoint, stateVars, runVars, poolVars
<1>16. CASE Restart
  <2>1. /\ stats' = ZeroStats /\ lastFailed' = {} /\ phase' = "idle" /\ cur' = cur
        /\ todo' = [r \in Slots |-> {}]
        /\ busy' = [r \in Slots |-> [w \in Workers |-> Exited]]
    BY <1>16 DEF Restart
  <2>2. cur \in Slots
    BY DEF Inv, TypeInv, TypeOK
  <2>3. Drained(cur)' /\ todo'[cur'] = {}
    BY <2>1, <2>2 DEF Drained
  <2>4. FailuresRemembered'
    BY <2>1, FS_EmptySet, SyncAssumption DEF FailuresRemembered, ZeroStats
  <2>5. QED
    BY <2>1, <2>3, <2>4, TallyEmpty DEF Inv
<1>17. ASSUME NEW k \in Keys, NEW o \in Objects \cup {Absent}, EditSource(k, o)
       PROVE  TallyInv'
  BY <1>17, TallyUnchanged DEF EditSource, stateVars, runVars, poolVars
<1>18. CASE UNCHANGED vars
  BY <1>18, TallyUnchanged DEF vars, stateVars, runVars, poolVars
<1>19. QED
  BY <1>1, <1>2, <1>3, <1>4, <1>5, <1>6, <1>7, <1>8, <1>9, <1>10, <1>11, <1>12,
     <1>13, <1>14, <1>15, <1>16, <1>17, <1>18 DEF Next, Engine, Failure, User

LEMMA TallyInit == Init => TallyInv
<1> SUFFICES ASSUME Init PROVE TallyInv
  OBVIOUS
<1>1. /\ cur \in Slots /\ todo[cur] = {} /\ stats = ZeroStats /\ lastFailed = {}
      /\ phase = "idle" /\ \A w \in Workers : busy[cur][w] = Exited
  BY SyncAssumption DEF Init, EmptyPools
<1>2. Copying(cur) = {}
  BY <1>1, SyncValuesAssumption DEF Copying
<1>3. FailuresRemembered
  BY <1>1, FS_EmptySet, SyncAssumption DEF FailuresRemembered, ZeroStats
<1>4. InOnePlace /\ ScanInv /\ StatsAddUp
  BY <1>1, <1>2 DEF InOnePlace, ScanInv, StatsAddUp
<1>5. QED
  BY <1>2, <1>3, <1>4, FS_EmptySet DEF TallyInv

LEMMA TallyAlways ==
    ASSUME ~DiskMayFail
    PROVE  Spec => []TallyInv
<1>1. Init => TallyInv
  BY TallyInit
<1>2. Inv /\ Inv' /\ TallyInv /\ [Next]_vars => TallyInv'
  BY TallyStep
<1>3. QED
  BY <1>1, <1>2, InvAlways, PTL DEF Spec

-----------------------------------------------------------------------------
(* What a run has passed. *)

LEMMA MirrorUnchanged ==
    ASSUME MirrorInv, stopRequested => stopRequested', stats'.failed = stats.failed,
           UNCHANGED <<src, dst, changed, kind, config, phase, cur, dstListed, scanned,
                       todo, busy>>
    PROVE  MirrorInv'
<1>1. Copying(cur)' = Copying(cur) /\ IsDry' = IsDry
  BY DEF Copying, IsDry
<1>2. PassedInv'
  BY <1>1 DEF MirrorInv, PassedInv, Current, Pending
<1>3. NothingLeftInv'
  BY <1>1 DEF MirrorInv, NothingLeftInv, NoneLeft
<1>4. QED
  BY <1>2, <1>3 DEF MirrorInv, DstListing

LEMMA MirrorOutside == phase' \in {"idle", "list", "wedged"} => MirrorInv'
  BY DEF MirrorInv, PassedInv, NothingLeftInv

LEMMA EndMirror == ASSUME NEW reason, RunEnds(reason) PROVE MirrorInv'
  BY MirrorOutside DEF RunEnds

LEMMA BeginMirror == ASSUME NEW c \in Configs, BeginSync(c) PROVE MirrorInv'
  BY MirrorOutside DEF BeginSync

(***************************************************************************)
(* A key that is not on the list of files has no object, is recorded as    *)
(* done, or has what it should at the destination.                         *)
(***************************************************************************)
LEMMA ScanMirror ==
    ASSUME Inv, MirrorInv, ScanPage
    PROVE  MirrorInv'
<1> DEFINE last == IF scanned + PageSize < NumKeys THEN scanned + PageSize ELSE NumKeys
           page == {k \in (scanned + 1)..last : k \in SrcScope /\ src[k] # Absent}
<1>1. /\ phase = "scan" /\ phase' = "scan" /\ scanned' = last /\ dstListed = DstListing
      /\ todo' = [todo EXCEPT ![cur] =
                    @ \cup {[key |-> k, obj |-> src[k]] : k \in ToCopy(page)}]
      /\ stats' = [stats EXCEPT !.total = @ + Cardinality(page),
                                !.skipped = @ + Cardinality(Skipped(page))]
      /\ UNCHANGED <<src, dst, changed, kind, config, cur, dstListed, busy, stopRequested>>
  BY DEF ScanPage, bucketVars, MirrorInv
<1>2. scanned \in Nat /\ last \in Nat /\ cur \in Slots /\ todo \in [Slots -> SUBSET Item]
  BY SyncAssumption DEF Inv, TypeInv, TypeOK
<1>3. stats'.failed = stats.failed /\ IsDry' = IsDry /\ Copying(cur)' = Copying(cur)
  BY <1>1 DEF Inv, TypeInv, TypeOK, IsDry, Copying
<1>4. todo'[cur] = todo[cur] \cup {[key |-> k, obj |-> src[k]] : k \in ToCopy(page)}
  BY <1>1, <1>2
<1>5. ASSUME NEW k \in (SrcScope \cap Included) \ changed, k <= last, PassedInv,
             kind = "sync", ~IsDry, stats.failed = 0
      PROVE  Current(k)' \/ Pending(k)'
  <2>1. k \in Keys /\ k \in Nat
    BY SyncAssumption DEF Keys
  <2>2. CASE k <= scanned
    <3>1. Current(k) \/ Pending(k)
      BY <1>1, <1>5, <2>2 DEF PassedInv
    <3>2. QED
      BY <1>1, <1>3, <1>4, <3>1 DEF Current, Pending
  <2>3. CASE ~(k <= scanned) /\ src[k] = Absent
    BY <1>1, <2>3 DEF Current
  <2>4. CASE ~(k <= scanned) /\ src[k] # Absent /\ k \in completed[cur]
    <3>1. running
      BY <1>1 DEF Inv, SafeInv, PhaseInv
    <3>2. k \in Trusted
      BY <1>2, <2>4, <3>1 DEF Trusted, Live
    <3>3. QED
      BY <1>1, <1>5, <3>2 DEF Inv, CheckInv, CheckpointSound, Current
  <2>5. CASE ~(k <= scanned) /\ src[k] # Absent /\ k \notin completed[cur]
    <3>1. k \in page
      BY <1>2, <1>5, <2>1, <2>5
    <3>2. CASE NeedsCopy(src[k], dstListed[k])
      <4>1. k \in ToCopy(page)
        BY <2>5, <3>1, <3>2 DEF ToCopy
      <4>2. [key |-> k, obj |-> src[k]] \in todo'[cur]
        BY <1>4, <4>1
      <4>3. QED
        BY <1>1, <4>2 DEF Pending
    <3>3. CASE ~NeedsCopy(src[k], dstListed[k])
      BY <1>1, <2>1, <3>3 DEF Current, NeedsCopy, DstListing
    <3>4. QED
      BY <3>2, <3>3
  <2>6. QED
    BY <2>2, <2>3, <2>4, <2>5
<1>6. PassedInv'
  BY <1>1, <1>3, <1>5 DEF MirrorInv, PassedInv
<1>7. NothingLeftInv'
  BY <1>1 DEF NothingLeftInv
<1>8. QED
  BY <1>1, <1>6, <1>7 DEF MirrorInv, DstListing

(***************************************************************************)
(* The copy phase of a sync begins.                                        *)
(***************************************************************************)
LEMMA EndScanMirror ==
    ASSUME Inv, MirrorInv, EndScan
    PROVE  MirrorInv'
<1>1. /\ phase = "scan" /\ phase' = "copy" /\ (~stopRequested => scanned = NumKeys)
      /\ UNCHANGED <<src, dst, changed, kind, config, cur, scanned, todo, stopRequested, stats>>
      /\ busy' = IF IsDry THEN busy ELSE [busy EXCEPT ![cur] = [w \in Workers |-> Ready]]
  BY DEF EndScan, bucketVars, stateVars
<1>2. IsDry' = IsDry /\ cur \in Slots
  BY <1>1 DEF IsDry, Inv, TypeInv, TypeOK
<1>3. Copying(cur) = {}
  BY <1>1, <1>2, AllDrained, NoneCopying DEF Inv
<1>4. ASSUME NEW k, Current(k) \/ Pending(k) PROVE Current(k)' \/ Pending(k)'
  BY <1>1, <1>3, <1>4 DEF Current, Pending
<1>5. PassedInv'
  BY <1>1, <1>2, <1>4 DEF MirrorInv, PassedInv
<1>6. ~IsDry => \A w \in Workers : busy'[cur][w] = Ready
  BY <1>1, <1>2 DEF Inv, TypeInv, TypeOK
<1>7. NothingLeftInv'
  BY <1>1, <1>2, <1>6, SyncValuesAssumption DEF NothingLeftInv
<1>8. QED
  BY <1>1, <1>5, <1>7 DEF MirrorInv

LEMMA RetryMirror ==
    ASSUME Inv, UserRetry
    PROVE  MirrorInv'
<1>1. PICK r \in Slots :
        cur' = r /\ busy' = [busy EXCEPT ![r] = [w \in Workers |-> Ready]]
  BY DEF UserRetry
<1>2. phase' = "copy" /\ kind' = "retry"
  BY DEF UserRetry
<1>3. \A w \in Workers : busy'[cur'][w] = Ready
  BY <1>1 DEF Inv, TypeInv, TypeOK
<1>4. QED
  BY <1>2, <1>3, SyncValuesAssumption DEF MirrorInv, PassedInv, NothingLeftInv

(***************************************************************************)
(* A worker that takes a file keeps its key pending; one that leaves has   *)
(* found the list empty, or was stopped.                                   *)
(***************************************************************************)
LEMMA TakeMirror ==
    ASSUME Inv, MirrorInv, NEW r \in Slots, NEW w \in Workers, TakeFile(r, w)
    PROVE  MirrorInv'
<1>1. /\ busy[r][w] = Ready
      /\ UNCHANGED <<src, dst, changed, kind, config, phase, cur, dstListed, scanned,
                     stopRequested, stats>>
  BY DEF TakeFile, bucketVars, stateVars, runVars
<1>2. r = cur /\ phase = "copy" /\ ~IsDry /\ IsDry' = IsDry
  BY <1>1, WorkerOfRun, SyncValuesAssumption DEF IsDry
<1>3. CASE UNCHANGED todo /\ (stopRequested \/ NoneLeft(r)) /\ busy' = [busy EXCEPT ![r][w] = Exited]
  <2>1. \A v \in Workers : busy'[cur][v] = IF v = w THEN Exited ELSE busy[cur][v]
    BY <1>2, <1>3 DEF Inv, TypeInv, TypeOK
  <2>2. Copying(cur)' = Copying(cur) /\ \A v \in Copying(cur) : busy'[cur][v] = busy[cur][v]
    BY <1>1, <1>2, <2>1, SyncValuesAssumption DEF Copying
  <2>3. PassedInv'
    BY <1>1, <1>2, <1>3, <2>2 DEF MirrorInv, PassedInv, Current, Pending
  <2>4. NothingLeftInv'
    BY <1>1, <1>2, <1>3 DEF MirrorInv, NothingLeftInv, NoneLeft
  <2>5. QED
    BY <1>1, <1>2, <2>3, <2>4 DEF MirrorInv
<1>4. CASE \E i \in todo[r] :
              /\ busy' = [busy EXCEPT ![r][w] =
                    [key |-> i.key, listed |-> i.obj, got |-> src[i.key],
                     before |-> stats.failed]]
              /\ todo' = [todo EXCEPT ![r] = @ \ {i}]
  <2>1. PICK i \in todo[r] :
              /\ busy' = [busy EXCEPT ![r][w] =
                    [key |-> i.key, listed |-> i.obj, got |-> src[i.key],
                     before |-> stats.failed]]
              /\ todo' = [todo EXCEPT ![r] = @ \ {i}]
    BY <1>4
  <2> DEFINE t == [key |-> i.key, listed |-> i.obj, got |-> src[i.key], before |-> stats.failed]
  <2>2. i \in Item
    BY <2>1 DEF Inv, TypeInv, TypeOK
  <2>3. t \in Task
    BY <2>2, SyncAssumption DEF Item, Task, Inv, TypeInv, TypeOK
  <2>4. t.key = i.key
    OBVIOUS
  <2> HIDE DEF t
  <2>5. \A v \in Workers : busy'[cur][v] = IF v = w THEN t ELSE busy[cur][v]
    BY <1>2, <2>1 DEF t, Inv, TypeInv, TypeOK
  <2>6. todo'[cur] = todo[cur] \ {i}
    BY <1>2, <2>1 DEF Inv, TypeInv, TypeOK
  <2>7. /\ w \in Copying(cur)' /\ w \notin Copying(cur) /\ busy'[cur][w].key = i.key
        /\ \A v \in Copying(cur) : v \in Copying(cur)' /\ busy'[cur][v] = busy[cur][v]
    BY <1>1, <1>2, <2>3, <2>4, <2>5, SyncValuesAssumption DEF Copying
  <2>8. ASSUME NEW k, Pending(k) PROVE Pending(k)'
    BY <1>1, <2>6, <2>7, <2>8 DEF Pending
  <2>9. PassedInv'
    BY <1>1, <1>2, <2>8 DEF MirrorInv, PassedInv, Current
  <2>10. \A v \in Workers : busy'[cur][v] = Exited => busy[cur][v] = Exited
    BY <2>3, <2>5, SyncValuesAssumption
  <2>11. todo[cur] = {} => todo'[cur] = {}
    BY <2>6
  <2>12. NothingLeftInv'
    BY <1>1, <1>2, <2>10, <2>11 DEF MirrorInv, NothingLeftInv, NoneLeft
  <2>13. QED
    BY <1>1, <1>2, <2>9, <2>12 DEF MirrorInv
<1>5. QED
  BY <1>3, <1>4 DEF TakeFile

(***************************************************************************)
(* A copy that succeeds makes its key current, one that fails is counted.  *)
(***************************************************************************)
LEMMA CopyMirror ==
    ASSUME Inv, MirrorInv, NEW r \in Slots, NEW w \in Workers,
           CopySucceeds(r, w) \/ CopyFails(r, w)
    PROVE  MirrorInv'
<1> DEFINE t == busy[r][w]
<1>1. /\ t \in Task /\ busy' = [busy EXCEPT ![r][w] = Ready]
      /\ UNCHANGED <<src, changed, kind, config, phase, cur, dstListed, scanned,
                     stopRequested, todo>>
  BY DEF CopySucceeds, CopyFails, runVars
<1>2. r = cur /\ phase = "copy" /\ ~IsDry /\ IsDry' = IsDry
  BY <1>1, WorkerOfRun, SyncValuesAssumption DEF IsDry
<1>3. stats.failed \in Nat /\ t.key \in Keys
  BY <1>1, SyncAssumption DEF Task, Inv, TypeInv, TypeOK
<1>4. \A v \in Workers : busy'[cur][v] = IF v = w THEN Ready ELSE busy[cur][v]
  BY <1>1, <1>2 DEF Inv, TypeInv, TypeOK
<1>5. \A v \in Workers : busy'[cur][v] = Exited => busy[cur][v] = Exited
  BY <1>4, SyncValuesAssumption
<1>6. NothingLeftInv'
  BY <1>1, <1>2, <1>5 DEF MirrorInv, NothingLeftInv, NoneLeft
<1>7. CASE CopyFails(r, w)
  <2>1. stats'.failed = stats.failed + 1
    BY <1>7 DEF CopyFails, Inv, TypeInv, TypeOK
  <2>2. PassedInv'
    BY <1>3, <2>1 DEF PassedInv
  <2>3. QED
    BY <1>1, <1>2, <1>6, <2>2 DEF MirrorInv
<1>8. CASE CopySucceeds(r, w)
  <2>1. /\ CanCopy(t) /\ dst' = [dst EXCEPT ![t.key] = Stored(t.got, Large(t.listed))]
        /\ stats'.failed = stats.failed
    BY <1>8 DEF CopySucceeds, Inv, TypeInv, TypeOK
  <2>2. ASSUME NEW k \in (SrcScope \cap Included) \ changed, Current(k) \/ Pending(k)
        PROVE  Current(k)' \/ Pending(k)'
    <3>1. k \in Keys
      BY SyncAssumption
    <3>2. CASE k = t.key
      <4>1. t.got = src[k]
        BY <1>1, <3>2 DEF Inv, CheckInv, TasksInv
      <4>2. dst'[k] = Stored(t.got, Large(t.listed)) /\ src'[k] = t.got
        BY <1>1, <2>1, <3>1, <3>2, <4>1 DEF Inv, TypeInv, TypeOK
      <4>3. QED
        BY <1>1, <2>1, <3>1, <4>2, WriteIsCurrent
    <3>3. CASE k # t.key
      <4>1. dst'[k] = dst[k] /\ src'[k] = src[k]
        BY <1>1, <2>1, <3>1, <3>3 DEF Inv, TypeInv, TypeOK
      <4>2. Current(k) => Current(k)'
        BY <4>1 DEF Current
      <4>3. ASSUME NEW v \in Copying(cur), busy[cur][v].key = k
            PROVE  v \in Copying(cur)' /\ busy'[cur'][v].key = k
        <5>1. v # w
          BY <1>2, <3>3, <4>3
        <5>2. QED
          BY <1>1, <1>4, <4>3, <5>1 DEF Copying
      <4>4. Pending(k) => Pending(k)'
        BY <1>1, <4>3 DEF Pending
      <4>5. QED
        BY <2>2, <4>2, <4>4
    <3>4. QED
      BY <3>2, <3>3
  <2>3. PassedInv'
    BY <1>1, <1>2, <2>1, <2>2 DEF MirrorInv, PassedInv
  <2>4. QED
    BY <1>1, <1>2, <1>6, <2>3 DEF MirrorInv
<1>9. QED
  BY <1>7, <1>8

(***************************************************************************)
(* The deletion of an orphan leaves the other keys alone, and the source   *)
(* has none under its own.                                                 *)
(***************************************************************************)
LEMMA OrphanMirror ==
    ASSUME Inv, MirrorInv, NEW d \in Keys, OrphanDone(d)
    PROVE  MirrorInv'
<1>1. /\ UNCHANGED <<src, changed, kind, config, phase, cur, dstListed, scanned, todo,
                     busy, stopRequested, stats>>
      /\ d \in deleting
      /\ dst' = [dst EXCEPT ![d] = Absent] \/ UNCHANGED dst
  BY DEF OrphanDone, stateVars, poolVars
<1>2. GoneOrEdited(d) /\ phase = "delete"
  BY <1>1 DEF Inv, SafeInv, OrphanInv, PhaseInv
<1>3. Copying(cur)' = Copying(cur) /\ IsDry' = IsDry
  BY <1>1 DEF Copying, IsDry
<1>4. ASSUME NEW k \in (SrcScope \cap Included) \ changed, Current(k) \/ Pending(k)
      PROVE  Current(k)' \/ Pending(k)'
  <2>1. k \in Keys
    BY SyncAssumption
  <2>2. CASE k = d
    BY <1>1, <1>2, <2>2 DEF GoneOrEdited, Current
  <2>3. CASE k # d
    <3>1. dst'[k] = dst[k]
      BY <1>1, <2>1, <2>3 DEF Inv, TypeInv, TypeOK
    <3>2. QED
      BY <1>1, <1>3, <1>4, <3>1 DEF Current, Pending
  <2>4. QED
    BY <2>2, <2>3
<1>5. PassedInv'
  BY <1>1, <1>3, <1>4 DEF MirrorInv, PassedInv
<1>6. NothingLeftInv'
  BY <1>1, <1>3 DEF MirrorInv, NothingLeftInv, NoneLeft
<1>7. QED
  BY <1>1, <1>2, <1>5, <1>6 DEF MirrorInv

LEMMA EditMirror ==
    ASSUME Inv, MirrorInv, NEW d \in Keys, NEW o \in Objects \cup {Absent}, EditSource(d, o)
    PROVE  MirrorInv'
<1>1. /\ UNCHANGED <<dst, kind, config, phase, cur, dstListed, scanned, todo, busy,
                     stopRequested, stats>>
      /\ src' = [src EXCEPT ![d] = o] /\ changed' = changed \cup {d}
  BY DEF EditSource, stateVars, runVars, poolVars
<1>2. \A k \in Keys \ changed' : src'[k] = src[k]
  BY <1>1 DEF Inv, TypeInv, TypeOK
<1>3. Copying(cur)' = Copying(cur) /\ IsDry' = IsDry
  BY <1>1 DEF Copying, IsDry
<1>4. \A k \in (SrcScope \cap Included) \ changed' : k \in Keys /\ k \in (SrcScope \cap Included) \ changed
  BY <1>1, SyncAssumption
<1>5. PassedInv'
  BY <1>1, <1>2, <1>3, <1>4 DEF MirrorInv, PassedInv, Current, Pending
<1>6. NothingLeftInv'
  BY <1>1, <1>3 DEF MirrorInv, NothingLeftInv, NoneLeft
<1>7. QED
  BY <1>1, <1>5, <1>6 DEF MirrorInv, DstListing

(***************************************************************************)
(* All workers have left: the delete phase begins with nothing on the list.*)
(***************************************************************************)
LEMMA EndCopyMirror ==
    ASSUME Inv, MirrorInv, EndCopy, doomed # {}, MayDelete
    PROVE  MirrorInv'
<1>1. /\ phase = "copy" /\ phase' = "delete" /\ ~IsDry /\ Drained(cur) /\ ~stopRequested
      /\ UNCHANGED <<src, dst, changed, kind, config, cur, scanned, todo, busy,
                     stopRequested, stats>>
  BY DEF EndCopy, MayDelete, bucketVars, poolVars
<1>2. Copying(cur)' = Copying(cur) /\ IsDry' = IsDry
  BY <1>1 DEF Copying, IsDry
<1>3. \E w \in Workers : busy[cur][w] = Exited
  BY <1>1, SyncAssumption DEF Drained
<1>4. PassedInv'
  BY <1>1, <1>2 DEF MirrorInv, PassedInv, Current, Pending
<1>5. NothingLeftInv'
  BY <1>1, <1>3 DEF MirrorInv, NothingLeftInv, NoneLeft
<1>6. QED
  BY <1>1, <1>4, <1>5 DEF MirrorInv

LEMMA MirrorStep ==
    ASSUME Inv, MirrorInv, ~DiskMayFail, [Next]_vars
    PROVE  MirrorInv'
<1>1. ASSUME NEW c \in Configs, UserStart(c) PROVE MirrorInv'
  BY <1>1, BeginMirror DEF UserStart
<1>2. CASE TimerFires
  <2>1. timer \in Configs
    BY <1>2 DEF TimerFires, Inv, TypeInv, TypeOK
  <2>2. CASE running
    BY <1>2, <2>2, MirrorUnchanged DEF TimerFires, bucketVars, stateVars, runVars, poolVars
  <2>3. CASE ~running
    BY <1>2, <2>1, <2>3, BeginMirror DEF TimerFires
  <2>4. QED
    BY <2>2, <2>3
<1>3. CASE UserRetry
  BY <1>3, RetryMirror
<1>4. CASE ListDst
  <2>1. phase' = "scan" /\ scanned' = 0 /\ dstListed' = DstListing /\ dst' = dst
    BY <1>4 DEF ListDst, bucketVars
  <2>2. \A k \in Included : ~(k <= 0)
    BY SyncAssumption DEF Keys
  <2>3. QED
    BY <2>1, <2>2 DEF MirrorInv, PassedInv, NothingLeftInv, DstListing
<1>5. CASE ScanPage
  BY <1>5, ScanMirror
<1>6. CASE EndScan
  BY <1>6, EndScanMirror
<1>7. ASSUME NEW r \in Slots, NEW w \in Workers, TakeFile(r, w) PROVE MirrorInv'
  BY <1>7, TakeMirror
<1>8. ASSUME NEW r \in Slots, NEW w \in Workers, CopySucceeds(r, w) \/ CopyFails(r, w)
      PROVE  MirrorInv'
  BY <1>8, CopyMirror
<1>9. ~\E r \in Slots, w \in Workers : SaveFails(r, w)
  BY DEF SaveFails
<1>10. CASE ListFails \/ DryCopy \/ EndDelete
  BY <1>10, EndMirror DEF ListFails, DryCopy, EndDelete
<1>11. CASE EndCopy
  BY <1>11, EndMirror, EndCopyMirror DEF EndCopy
<1>12. ASSUME NEW k \in Keys, TakeOrphan(k) PROVE MirrorInv'
  BY <1>12, MirrorUnchanged DEF TakeOrphan, bucketVars, stateVars, poolVars
<1>13. ASSUME NEW k \in Keys, OrphanDone(k) PROVE MirrorInv'
  BY <1>13, OrphanMirror
<1>14. CASE UserStop \/ Shutdown \/ UserRemovesCheckpoint
  <2>1. CASE UserStop \/ Shutdown
    <3>1. /\ UNCHANGED <<src, dst, changed, kind, config, phase, cur, dstListed, scanned,
                         todo, busy, stats>>
          /\ stopRequested' = (stopRequested \/ running)
      BY <2>1 DEF UserStop, Shutdown, bucketVars, runVars, poolVars
    <3>2. QED
      BY <3>1, MirrorUnchanged
  <2>2. CASE UserRemovesCheckpoint
    BY <2>2, MirrorUnchanged
       DEF UserRemovesCheckpoint, bucketVars, stateVars, runVars, poolVars
  <2>3. QED
    BY <1>14, <2>1, <2>2
<1>15. CASE Restart
  BY <1>15, MirrorOutside DEF Restart
<1>16. ASSUME NEW k \in Keys, NEW o \in Objects \cup {Absent}, EditSource(k, o)
       PROVE  MirrorInv'
  BY <1>16, EditMirror
<1>17. CASE UNCHANGED vars
  BY <1>17, MirrorUnchanged DEF vars, bucketVars, stateVars, runVars, poolVars
<1>18. QED
  BY <1>1, <1>2, <1>3, <1>4, <1>5, <1>6, <1>7, <1>8, <1>9, <1>10, <1>11, <1>12,
     <1>13, <1>14, <1>15, <1>16, <1>17 DEF Next, Engine, Failure, User

(***************************************************************************)
(* The steps that end a run.                                               *)
(***************************************************************************)
LEMMA EndingSteps ==
    ASSUME Inv, ~DiskMayFail, Next, running, ~running', lastReason' = "completed", ~IsDry
    PROVE  /\ EndCopy \/ EndDelete
           /\ ~stopRequested
<1>1. RunEnds(Outcome) => ~stopRequested
  BY DEF RunEnds, Outcome
<1>2. CASE EndCopy
  BY <1>1, <1>2 DEF EndCopy
<1>3. CASE EndDelete
  BY <1>1, <1>3 DEF EndDelete
<1>4. ~DryCopy /\ ~ListFails /\ ~Restart /\ ~UserRetry /\ ~TimerFires
  BY DEF DryCopy, ListFails, RunEnds, Restart, UserRetry, TimerFires, BeginSync, stateVars
<1>5. ~ListDst /\ ~ScanPage /\ ~EndScan
  BY DEF ListDst, ScanPage, EndScan, stateVars
<1>6. ~\E r \in Slots, w \in Workers :
          TakeFile(r, w) \/ CopySucceeds(r, w) \/ CopyFails(r, w) \/ SaveFails(r, w)
  <2>1. ASSUME NEW r \in Slots, NEW w \in Workers
        PROVE  /\ ~TakeFile(r, w) /\ ~CopySucceeds(r, w)
               /\ ~CopyFails(r, w) /\ ~SaveFails(r, w)
    <3>1. ~TakeFile(r, w)
      BY DEF TakeFile, stateVars
    <3>2. ~CopySucceeds(r, w)
      BY DEF CopySucceeds
    <3>3. ~CopyFails(r, w)
      BY DEF CopyFails
    <3>4. ~SaveFails(r, w)
      BY DEF SaveFails
    <3>5. QED
      BY <3>1, <3>2, <3>3, <3>4
  <2>2. QED
    BY <2>1
<1>7. ~\E k \in Keys : TakeOrphan(k) \/ OrphanDone(k)
  BY DEF TakeOrphan, OrphanDone, stateVars
<1>8. ~UserStop /\ ~UserRemovesCheckpoint /\ ~Shutdown
  BY DEF UserStop, UserRemovesCheckpoint, Shutdown, stateVars
<1>9. ~\E c \in Configs : UserStart(c)
  BY DEF UserStart
<1>10. ~\E k \in Keys, o \in Objects \cup {Absent} : EditSource(k, o)
  BY DEF EditSource, stateVars
<1>11. QED
  BY <1>2, <1>3, <1>4, <1>5, <1>6, <1>7, <1>8, <1>9, <1>10
     DEF Next, Engine, Failure, User

LEMMA CompletedStep ==
    ASSUME Inv, MirrorInv, ~DiskMayFail, Next, running, ~running',
           lastReason' = "completed", kind = "sync", ~IsDry, stats.failed = 0,
           NEW k \in (SrcScope \cap Included) \ changed
    PROVE  Current(k)
<1>1. (EndCopy \/ EndDelete) /\ ~stopRequested
  BY EndingSteps
<1>2. cur \in Slots
  BY DEF Inv, TypeInv, TypeOK
<1>3. phase \in {"copy", "delete"} /\ Drained(cur)
  BY <1>1, <1>2, AllDrained DEF EndCopy, EndDelete
<1>4. \E w \in Workers : busy[cur][w] = Exited
  BY <1>3, SyncAssumption DEF Drained
<1>5. scanned = NumKeys /\ todo[cur] = {}
  BY <1>1, <1>3, <1>4 DEF MirrorInv, NothingLeftInv, NoneLeft
<1>6. Copying(cur) = {}
  BY <1>2, <1>3, NoneCopying DEF Inv
<1>7. k <= scanned
  BY <1>2, <1>5, SyncAssumption DEF Keys
<1>8. QED
  BY <1>3, <1>5, <1>6, <1>7 DEF MirrorInv, PassedInv, Pending

-----------------------------------------------------------------------------
(* Theorems. *)

(***************************************************************************)
(* As long as the checkpoint can be written, no file that still has to be  *)
(* copied is ever recorded as done, whatever fails, is stopped, retried or *)
(* restarted: runOnce in src/syncEngine.js and src/checkpoint.js.          *)
(***************************************************************************)
THEOREM CheckpointIsSound ==
    ASSUME ~DiskMayFail
    PROVE  Spec => []CheckpointSound
<1>1. Inv => CheckpointSound
  BY DEF Inv, CheckInv
<1>2. QED
  BY <1>1, InvAlways, PTL

(***************************************************************************)
(* As long as the checkpoint can be written, every object that was listed  *)
(* is counted once: as synced, failed or skipped, or it waits or is being  *)
(* copied.  runOnce and retryFailed in src/syncEngine.js.                  *)
(***************************************************************************)
THEOREM CountersAddUp ==
    ASSUME ~DiskMayFail
    PROVE  Spec => []StatsAddUp
<1>1. TallyInv => StatsAddUp
  BY DEF TallyInv
<1>2. QED
  BY <1>1, TallyAlways, PTL

(***************************************************************************)
(* As long as the checkpoint can be written, the list of failures that a   *)
(* retry works on holds each failed file once, up to its cap.              *)
(***************************************************************************)
THEOREM FailuresAreRemembered ==
    ASSUME ~DiskMayFail
    PROVE  Spec => []FailuresRemembered
<1>1. TallyInv => FailuresRemembered
  BY DEF TallyInv
<1>2. QED
  BY <1>1, TallyAlways, PTL

(***************************************************************************)
(* As long as the checkpoint can be written, a sync that is reported as    *)
(* completed without a failed file has mirrored every key of its filter    *)
(* that nobody edited, a resumed run included: runOnce and startSync in    *)
(* src/syncEngine.js.                                                      *)
(***************************************************************************)
THEOREM CompletedIsMirrored ==
    ASSUME ~DiskMayFail
    PROVE  Spec => CompletedMeansMirrored
<1>1. Init => MirrorInv
  BY DEF Init, MirrorInv, PassedInv, NothingLeftInv
<1>2. Inv /\ MirrorInv /\ [Next]_vars => MirrorInv'
  BY MirrorStep
<1>3. Inv /\ MirrorInv /\ [Next]_vars =>
         [ running /\ ~running' /\ lastReason' = "completed"
             /\ kind = "sync" /\ ~IsDry /\ stats.failed = 0
           => \A k \in (SrcScope \cap Included) \ changed : Current(k) ]_vars
  BY CompletedStep
<1>4. QED
  BY <1>1, <1>2, <1>3, InvAlways, PTL DEF Spec, CompletedMeansMirrored
=============================================================================
