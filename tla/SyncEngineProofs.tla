-------------------------- MODULE SyncEngineProofs --------------------------
(***************************************************************************)
(* Theorems about the sync engine, for every number of keys, workers and   *)
(* configurations.  The argument goes in three layers: types, then the     *)
(* run's own bookkeeping (SafeInv: what is listed, doomed and being        *)
(* deleted, and what a stop has done), then the checkpoint (CheckInv),     *)
(* which needs that no worker outlives its run.                            *)
(***************************************************************************)
EXTENDS SyncEngineRefinement, FiniteSetTheorems, TLAPS

-----------------------------------------------------------------------------
(* Objects. *)

(***************************************************************************)
(* What the destination lists after a copy is one of its objects.          *)
(***************************************************************************)
LEMMA StoredType ==
    ASSUME NEW o \in Objects, NEW l \in BOOLEAN
    PROVE  Stored(o, l) \in DstObjects /\ Stored(o, l) # Absent
<1>1. Stored(o, l) \in DstObjects
  BY DEF DstObjects
<1>2. QED
  BY <1>1, SyncValuesAssumption

(***************************************************************************)
(* A copied object needs no copy: a sync does not copy it again and again. *)
(***************************************************************************)
LEMMA StoredNeedsNoCopy ==
    ASSUME NEW o \in Objects, NEW l \in BOOLEAN
    PROVE  ~NeedsCopy(o, Stored(o, l))
<1>1. o \in [body : Nat, size : Nat, etag : {"none", "plain", "multipart"}]
  BY SyncAssumption
<1>2. Stored(o, l).size = o.size /\ Stored(o, l).body = o.body
  BY <1>1 DEF Stored
<1>3. Stored(o, l) # Absent
  BY StoredType
<1>4. QED
  BY <1>2, <1>3 DEF NeedsCopy

(***************************************************************************)
(* A task in flight that can be carried out writes a destination object.   *)
(***************************************************************************)
LEMMA TaskWrites ==
    ASSUME NEW t \in Task, CanCopy(t)
    PROVE  /\ t.key \in SrcScope /\ t.key \in Keys /\ t.got \in Objects
           /\ Stored(t.got, Large(t.listed)) \in DstObjects
           /\ Stored(t.got, Large(t.listed)) # Absent
           /\ ~NeedsCopy(t.got, Stored(t.got, Large(t.listed)))
<1>1. t.key \in SrcScope /\ t.key \in Keys /\ t.got \in Objects
  BY SyncAssumption DEF Task, CanCopy
<1>2. Large(t.listed) \in BOOLEAN
  BY DEF Large
<1>3. QED
  BY <1>1, <1>2, StoredType, StoredNeedsNoCopy

-----------------------------------------------------------------------------
(* Types. *)

Finite == IsFiniteSet(lastFailed) /\ \A r \in Slots : IsFiniteSet(todo[r])

TypeInv == TypeOK /\ Finite

LEMMA TypeInit == Init => TypeInv
<1> SUFFICES ASSUME Init PROVE TypeInv
  OBVIOUS
<1>1. cur \in Slots
  BY SyncAssumption DEF Init
<1>2. ZeroStats \in [total : Nat, synced : Nat, failed : Nat, skipped : Nat]
  BY DEF ZeroStats
<1>3. src \in [Keys -> Objects \cup {Absent}] /\ dst \in [Keys -> DstObjects \cup {Absent}]
  BY SyncValuesAssumption DEF Init
<1>4. 0 \in 0..NumKeys /\ 0 \in 0..MaxEdits
  BY SyncAssumption
<1>5. TypeOK
  BY <1>1, <1>2, <1>3, <1>4 DEF Init, TypeOK, NothingListed, EmptyPools
<1>6. Finite
  BY FS_EmptySet DEF Init, EmptyPools, Finite
<1>7. QED
  BY <1>5, <1>6 DEF TypeInv

(***************************************************************************)
(* A page of the listing, and so what it adds to the list of files, is     *)
(* finite.                                                                 *)
(***************************************************************************)
LEMMA PageIsFinite ==
    ASSUME NEW S \in SUBSET Keys
    PROVE  /\ IsFiniteSet(S) /\ Cardinality(S) \in Nat
           /\ IsFiniteSet({[key |-> k, obj |-> src[k]] : k \in S})
           /\ Cardinality({[key |-> k, obj |-> src[k]] : k \in S}) = Cardinality(S)
<1>1. IsFiniteSet(Keys)
  BY FS_Interval, SyncAssumption DEF Keys
<1>2. IsFiniteSet(S) /\ Cardinality(S) \in Nat
  BY <1>1, FS_Subset, FS_CardinalityType
<1> DEFINE T == {[key |-> k, obj |-> src[k]] : k \in S}
           f == [k \in S |-> [key |-> k, obj |-> src[k]]]
<1>3. f \in Surjection(S, T)
  BY DEF Surjection
<1>4. f \in Injection(S, T)
  BY DEF Injection, IsInjective
<1>5. IsFiniteSet(T) /\ Cardinality(T) = Cardinality(S)
  <2> HIDE DEF T, f
  <2>1. QED
    BY <1>2, <1>3, <1>4, FS_Surjection
<1>6. QED
  BY <1>2, <1>5

(***************************************************************************)
(* The types of what changes together when a run begins, ends or a copy    *)
(* settles.                                                                *)
(***************************************************************************)
LEMMA BeginType ==
    ASSUME TypeInv, NEW c \in Configs, BeginSync(c), timer' \in Configs \cup {NoConfig},
           intent' \in {"none", "stopped", "repeat"}
    PROVE  TypeInv'
<1>1. ZeroStats \in [total : Nat, synced : Nat, failed : Nat, skipped : Nat]
  BY DEF ZeroStats
<1>2. PICK r \in Slots :
         /\ cur' = r
         /\ todo' = [todo EXCEPT ![r] = {}]
         /\ dirty' = [dirty EXCEPT ![r] = 0]
         /\ completed' = [completed EXCEPT ![r] = IF cp = NoCheckpoint THEN {} ELSE cp]
  BY DEF BeginSync
<1>3. /\ todo' \in [Slots -> SUBSET Item] /\ dirty' \in [Slots -> Nat]
      /\ completed' \in [Slots -> SUBSET SrcScope] /\ cur' \in Slots
  BY <1>2 DEF TypeInv, TypeOK
<1>4. changed' \subseteq Keys /\ phase' \in {"idle", "list", "scan", "copy", "delete", "wedged"}
  BY DEF BeginSync, TypeInv, TypeOK
<1>5. Finite'
  BY <1>2, FS_EmptySet DEF BeginSync, ResetStats, TypeInv, TypeOK, Finite
<1>6. TypeOK'
  BY <1>1, <1>3, <1>4 DEF BeginSync, ResetStats, TypeInv, TypeOK
<1>7. QED
  BY <1>5, <1>6 DEF TypeInv

LEMMA RunEndsType ==
    ASSUME TypeInv, NEW reason \in {"completed", "user_stopped", "fatal_error"},
           RunEnds(reason)
    PROVE  /\ running' \in BOOLEAN /\ stopRequested' \in BOOLEAN
           /\ timer' \in Configs \cup {NoConfig} /\ config' \in Configs \cup {NoConfig}
           /\ lastReason' \in {"none", "completed", "user_stopped", "fatal_error"}
           /\ kind' \in {"sync", "retry"}
           /\ phase' \in {"idle", "list", "scan", "copy", "delete", "wedged"}
           /\ cur' \in Slots
           /\ dstListed' \in [Keys -> DstObjects \cup {Absent}]
           /\ scanned' \in 0..NumKeys
           /\ seen' \subseteq Keys /\ doomed' \subseteq DstScope /\ deleting' \subseteq DstScope
           /\ \A k \in Keys \ DstScope : dstListed'[k] = Absent
<1>1. 0 \in 0..NumKeys
  BY SyncAssumption
<1>2. QED
  BY <1>1 DEF RunEnds, NothingListed, TypeInv, TypeOK

LEMMA PoolEndsType ==
    ASSUME TypeInv, PoolEnds
    PROVE  /\ todo' \in [Slots -> SUBSET Item]
           /\ busy' \in [Slots -> [Workers -> Task \cup {Ready, Exited}]]
           /\ completed' \in [Slots -> SUBSET SrcScope]
           /\ dirty' \in [Slots -> Nat]
           /\ \A r \in Slots : IsFiniteSet(todo'[r])
  BY FS_EmptySet DEF PoolEnds, TypeInv, TypeOK, Finite

LEMMA RemoveCheckpointType ==
    ASSUME TypeInv, NEW reason, RemoveCheckpoint(reason)
    PROVE  cp' = NoCheckpoint \/ cp' \in SUBSET SrcScope
  BY DEF RemoveCheckpoint, TypeInv, TypeOK

LEMMA OutcomeType == Outcome \in {"completed", "user_stopped", "fatal_error"}
  BY DEF Outcome

LEMMA SettlesType ==
    ASSUME TypeInv, NEW r \in Slots, NEW t \in Task, NEW n \in Nat, Settles(r, t, n)
    PROVE  /\ completed' \in [Slots -> SUBSET SrcScope]
           /\ dirty' \in [Slots -> Nat]
           /\ cp' = NoCheckpoint \/ cp' \in SUBSET SrcScope
<1>1. t.key \in SrcScope
  BY DEF Task
<1>2. completed' \in [Slots -> SUBSET SrcScope]
  BY <1>1 DEF Settles, TypeInv, TypeOK
<1>3. dirty' \in [Slots -> Nat]
  BY DEF Settles, TypeInv, TypeOK
<1>4. cp' = NoCheckpoint \/ cp' \in SUBSET SrcScope
  BY <1>2 DEF Settles, TypeInv, TypeOK
<1>5. QED
  BY <1>2, <1>3, <1>4

(***************************************************************************)
(* What a restart may find in the destination: what was there, or the      *)
(* effect of a copy or a delete that was in flight.                        *)
(***************************************************************************)
LEMMA RestartWrites ==
    ASSUME TypeInv, Restart
    PROVE  /\ dst' = [k \in Keys |-> dst'[k]]
           /\ \A k \in Keys :
                \/ dst'[k] = dst[k]
                \/ k \in deleting /\ dst'[k] = Absent
                \/ \E r \in Slots, w \in Workers :
                     /\ busy[r][w] \in Task /\ CanCopy(busy[r][w])
                     /\ busy[r][w].key = k
                     /\ dst'[k] = Stored(busy[r][w].got, Large(busy[r][w].listed))
           /\ \A k \in Keys : dst'[k] \in DstObjects \cup {Absent}
<1> DEFINE Tasks == {t \in {busy[r][w] : r \in Slots, w \in Workers} : t \in Task /\ CanCopy(t)}
<1>1. PICK E \in SUBSET InFlight : dst' = [k \in Keys |-> WrittenBy(E, k)]
  BY DEF Restart
<1>2. ASSUME NEW k \in Keys
      PROVE  /\ \/ dst'[k] = dst[k]
                \/ k \in deleting /\ dst'[k] = Absent
                \/ \E r \in Slots, w \in Workers :
                     /\ busy[r][w] \in Task /\ CanCopy(busy[r][w])
                     /\ busy[r][w].key = k
                     /\ dst'[k] = Stored(busy[r][w].got, Large(busy[r][w].listed))
             /\ dst'[k] \in DstObjects \cup {Absent}
  <2>1. CASE ~\E e \in E : e.key = k
    BY <1>1, <2>1 DEF TypeInv, TypeOK, WrittenBy
  <2>2. CASE \E e \in E : e.key = k
    <3>1. PICK e \in E : e.key = k /\ dst'[k] = e.obj
      <4>1. dst'[k] = (CHOOSE e \in E : e.key = k).obj
        BY <1>1, <2>2 DEF WrittenBy
      <4>2. QED
        BY <2>2, <4>1
    <3>2. CASE \E t \in Tasks : e = [key |-> t.key, obj |-> Stored(t.got, Large(t.listed))]
      <4>1. PICK t \in Tasks : e = [key |-> t.key, obj |-> Stored(t.got, Large(t.listed))]
        BY <3>2
      <4>2. PICK r \in Slots, w \in Workers : t = busy[r][w]
        OBVIOUS
      <4>3. t \in Task /\ CanCopy(t)
        OBVIOUS
      <4>4. t.key = k /\ dst'[k] = Stored(t.got, Large(t.listed))
        BY <3>1, <4>1
      <4>5. dst'[k] \in DstObjects
        BY <4>3, <4>4, TaskWrites
      <4>6. QED
        BY <4>2, <4>3, <4>4, <4>5
    <3>3. CASE \E d \in deleting : e = [key |-> d, obj |-> Absent]
      BY <3>1, <3>3
    <3>4. e \in InFlight
      BY <1>1
    <3>5. QED
      BY <3>2, <3>3, <3>4 DEF InFlight
  <2>3. QED
    BY <2>1, <2>2
<1>3. dst' = [k \in Keys |-> dst'[k]]
  BY <1>1
<1>4. QED
  BY <1>2, <1>3

(***************************************************************************)
(* Every step keeps the types.                                             *)
(***************************************************************************)
LEMMA TypeStep == TypeInv /\ [Next]_vars => TypeInv'
<1> SUFFICES ASSUME TypeInv, [Next]_vars
             PROVE  TypeInv'
  OBVIOUS
<1> USE DEF TypeInv
<1>1. ASSUME NEW c \in Configs, UserStart(c) PROVE TypeInv'
  <2>1. timer' \in Configs \cup {NoConfig} /\ intent' \in {"none", "stopped", "repeat"}
    BY <1>1 DEF UserStart, TypeOK
  <2>2. QED
    BY <1>1, <2>1, BeginType DEF UserStart
<1>2. CASE TimerFires
  <2>1. CASE running
    BY <1>2, <2>1 DEF TimerFires, TypeOK, Finite, bucketVars, stateVars, runVars,
       poolVars, envVars
  <2>2. CASE ~running
    <3>1. timer \in Configs /\ BeginSync(timer) /\ timer' = NoConfig /\ intent' = intent
      BY <1>2, <2>2 DEF TimerFires, TypeOK
    <3>2. QED
      BY <3>1, BeginType DEF TypeOK
  <2>3. QED
    BY <2>1, <2>2 DEF TypeOK
<1>3. CASE UserRetry
  <2>1. PICK r \in Slots :
         /\ cur' = r
         /\ todo' = [todo EXCEPT ![r] = lastFailed]
         /\ busy' = [busy EXCEPT ![r] = [w \in Workers |-> Ready]]
         /\ completed' = [completed EXCEPT ![r] = {}]
         /\ dirty' = [dirty EXCEPT ![r] = 0]
    BY <1>3 DEF UserRetry
  <2>2. /\ todo' \in [Slots -> SUBSET Item] /\ dirty' \in [Slots -> Nat]
        /\ completed' \in [Slots -> SUBSET SrcScope] /\ cur' \in Slots
        /\ busy' \in [Slots -> [Workers -> Task \cup {Ready, Exited}]]
    BY <2>1 DEF TypeOK
  <2>3. Cardinality(lastFailed) \in Nat
    BY FS_CardinalityType DEF Finite
  <2>4. stats' \in [total : Nat, synced : Nat, failed : Nat, skipped : Nat]
    BY <1>3, <2>3 DEF UserRetry, ResetStats, ZeroStats
  <2>5. Finite'
    BY <1>3, <2>1, FS_EmptySet DEF UserRetry, ResetStats, Finite, TypeOK
  <2>6. TypeOK'
    BY <1>3, <2>2, <2>4 DEF UserRetry, ResetStats, TypeOK, bucketVars
  <2>7. QED
    BY <2>5, <2>6
<1>4. CASE ListDst
  <2>1. 0 \in 0..NumKeys
    BY SyncAssumption
  <2>2. QED
    BY <1>4, <2>1 DEF ListDst, DstListing, TypeOK, Finite, bucketVars, stateVars, poolVars, envVars
<1>5. CASE ListFails
  BY <1>5, RunEndsType, PoolEndsType
     DEF ListFails, RunEnds, TypeOK, Finite, bucketVars, envVars
<1>6. CASE ScanPage
  <2> DEFINE last == IF scanned + PageSize < NumKeys THEN scanned + PageSize ELSE NumKeys
             page == {k \in (scanned + 1)..last : k \in SrcScope /\ src[k] # Absent}
             add  == {[key |-> k, obj |-> src[k]] : k \in ToCopy(page)}
  <2>1. last \in 0..NumKeys /\ page \subseteq Keys
    BY SyncAssumption DEF TypeOK, Keys
  <2>2. ToCopy(page) \subseteq page /\ Skipped(page) \subseteq page
    BY DEF ToCopy, Skipped
  <2>3. Cardinality(page) \in Nat /\ Cardinality(Skipped(page)) \in Nat /\ IsFiniteSet(add)
    BY <2>1, <2>2, PageIsFinite
  <2>4. \A k \in page : src[k] \in Objects
    BY <2>1 DEF TypeOK
  <2>5. add \subseteq Item
    <3>1. \A k \in ToCopy(page) : [key |-> k, obj |-> src[k]] \in [key : SrcScope, obj : Objects]
      BY <2>1, <2>2, <2>4
    <3>2. QED
      BY <3>1 DEF Item
  <2>6. /\ scanned' = last
        /\ seen' = seen \cup page
        /\ todo' = [todo EXCEPT ![cur] = @ \cup add]
        /\ stats' = [stats EXCEPT !.total = @ + Cardinality(page),
                                 !.skipped = @ + Cardinality(Skipped(page))]
        /\ UNCHANGED <<bucketVars, cp, running, stopRequested, config, lastFailed,
                       timer, lastReason, busy, completed, dirty, envVars, kind,
                       phase, cur, dstListed, doomed, deleting>>
    BY <1>6 DEF ScanPage
  <2> HIDE DEF last, page, add
  <2>7. todo' \in [Slots -> SUBSET Item] /\ \A r \in Slots : IsFiniteSet(todo'[r])
    BY <2>3, <2>5, <2>6, FS_Union DEF TypeOK, Finite
  <2>8. stats' \in [total : Nat, synced : Nat, failed : Nat, skipped : Nat]
    <3> DEFINE p == Cardinality(page)
               q == Cardinality(Skipped(page))
    <3>1. stats.total + p \in Nat /\ stats.skipped + q \in Nat
      BY <2>3 DEF TypeOK
    <3>2. stats' = [stats EXCEPT !.total = @ + p, !.skipped = @ + q]
      BY <2>6
    <3> HIDE DEF p, q
    <3>3. QED
      BY <3>1, <3>2 DEF TypeOK
  <2>9. TypeOK'
    BY <2>1, <2>6, <2>7, <2>8 DEF TypeOK, bucketVars, envVars
  <2>10. QED
    BY <2>6, <2>7, <2>9 DEF Finite
<1>7. CASE EndScan
  BY <1>7 DEF EndScan, NothingListed, TypeOK, Finite, bucketVars, stateVars, envVars
<1>8. ASSUME NEW r \in Slots, NEW w \in Workers, TakeFile(r, w) PROVE TypeInv'
  <2>1. /\ UNCHANGED <<bucketVars, cp, stateVars, timer, lastReason, runVars,
                       completed, dirty, envVars>>
        /\ \/ busy' = [busy EXCEPT ![r][w] = Exited] /\ UNCHANGED todo
           \/ \E i \in todo[r] :
               /\ busy' = [busy EXCEPT ![r][w] =
                     [key |-> i.key, listed |-> i.obj, got |-> src[i.key],
                      before |-> stats.failed]]
               /\ todo' = [todo EXCEPT ![r] = @ \ {i}]
    BY <1>8 DEF TakeFile
  <2>2. CASE busy' = [busy EXCEPT ![r][w] = Exited] /\ UNCHANGED todo
    BY <2>1, <2>2 DEF TypeOK, Finite, bucketVars, stateVars, runVars, envVars
  <2>3. ASSUME NEW i \in todo[r],
               busy' = [busy EXCEPT ![r][w] =
                     [key |-> i.key, listed |-> i.obj, got |-> src[i.key],
                      before |-> stats.failed]],
               todo' = [todo EXCEPT ![r] = @ \ {i}]
        PROVE  TypeInv'
    <3>1. i.key \in SrcScope /\ i.key \in Keys /\ i.obj \in Objects /\ stats.failed \in Nat
      BY SyncAssumption DEF TypeOK, Item
    <3>2. [key |-> i.key, listed |-> i.obj, got |-> src[i.key],
           before |-> stats.failed] \in Task
      BY <3>1 DEF TypeOK, Task
    <3>3. busy' \in [Slots -> [Workers -> Task \cup {Ready, Exited}]]
      BY <2>3, <3>2 DEF TypeOK
    <3>4. todo' \in [Slots -> SUBSET Item] /\ \A s \in Slots : IsFiniteSet(todo'[s])
      BY <2>3, FS_Subset DEF TypeOK, Finite
    <3>5. QED
      BY <2>1, <3>3, <3>4 DEF TypeOK, Finite, bucketVars, stateVars, runVars, envVars
  <2>4. QED
    BY <2>1, <2>2, <2>3
<1>9. ASSUME NEW r \in Slots, NEW w \in Workers, CopySucceeds(r, w) PROVE TypeInv'
  <2> DEFINE t == busy[r][w]
  <2>1. t \in Task /\ CanCopy(t) /\ stats.failed \in Nat
    BY <1>9 DEF CopySucceeds, TypeOK
  <2>2. Settles(r, t, stats.failed)
    BY <1>9 DEF CopySucceeds
  <2>3. dst' \in [Keys -> DstObjects \cup {Absent}]
    BY <1>9, <2>1, TaskWrites DEF CopySucceeds, TypeOK
  <2>4. stats' \in [total : Nat, synced : Nat, failed : Nat, skipped : Nat]
    BY <1>9 DEF CopySucceeds, TypeOK
  <2>5. busy' \in [Slots -> [Workers -> Task \cup {Ready, Exited}]]
    BY <1>9 DEF CopySucceeds, TypeOK
  <2>6. TypeOK'
    BY <1>9, <2>1, <2>2, <2>3, <2>4, <2>5, SettlesType
       DEF CopySucceeds, TypeOK, envVars, runVars
  <2>7. QED
    BY <1>9, <2>6 DEF CopySucceeds, Finite
<1>10. ASSUME NEW r \in Slots, NEW w \in Workers, CopyFails(r, w) PROVE TypeInv'
  <2> DEFINE t == busy[r][w]
  <2>1. t \in Task /\ stats.failed + 1 \in Nat
    BY <1>10 DEF CopyFails, TypeOK
  <2>2. Settles(r, t, stats.failed + 1)
    BY <1>10 DEF CopyFails
  <2>3. dst' \in [Keys -> DstObjects \cup {Absent}]
    BY <1>10, <2>1, TaskWrites DEF CopyFails, TypeOK
  <2>4. stats' \in [total : Nat, synced : Nat, failed : Nat, skipped : Nat]
    BY <1>10 DEF CopyFails, TypeOK
  <2>5. busy' \in [Slots -> [Workers -> Task \cup {Ready, Exited}]]
    BY <1>10 DEF CopyFails, TypeOK
  <2>6. ItemOf(t) \in Item
    BY <2>1 DEF ItemOf, Item, Task
  <2>7. lastFailed' \subseteq Item /\ IsFiniteSet(lastFailed')
    BY <1>10, <2>6, FS_AddElement DEF CopyFails, TypeOK, Finite
  <2>8. TypeOK'
    BY <1>10, <2>1, <2>2, <2>3, <2>4, <2>5, <2>7, SettlesType
       DEF CopyFails, TypeOK, envVars, runVars
  <2>9. QED
    BY <1>10, <2>7, <2>8 DEF CopyFails, Finite
<1>11. ASSUME NEW r \in Slots, NEW w \in Workers, SaveFails(r, w) PROVE TypeInv'
  <2> DEFINE t == busy[r][w]
  <2>1. t \in Task /\ CanCopy(t)
    BY <1>11 DEF SaveFails
  <2>2. dst' \in [Keys -> DstObjects \cup {Absent}]
    BY <1>11, <2>1, TaskWrites DEF SaveFails, TypeOK
  <2>3. stats' \in [total : Nat, synced : Nat, failed : Nat, skipped : Nat]
    BY <1>11 DEF SaveFails, TypeOK
  <2>4. busy' \in [Slots -> [Workers -> Task \cup {Ready, Exited}]]
    BY <1>11 DEF SaveFails, TypeOK
  <2>5. completed' \in [Slots -> SUBSET SrcScope] /\ dirty' \in [Slots -> Nat]
    BY <1>11, <2>1, TaskWrites DEF SaveFails, TypeOK
  <2>6. UNCHANGED <<src, changed, edits, cp, lastFailed, todo, shuttingDown, intent>>
    BY <1>11 DEF SaveFails, envVars
  <2>7. CASE r = cur /\ phase = "copy"
    <3>1. RunEnds("fatal_error")
      BY <1>11, <2>7 DEF SaveFails
    <3>2. TypeOK'
      BY <2>2, <2>3, <2>4, <2>5, <2>6, <3>1, RunEndsType DEF TypeOK
    <3>3. QED
      BY <2>6, <3>2 DEF Finite
  <2>8. CASE ~(r = cur /\ phase = "copy")
    <3>1. UNCHANGED <<running, stopRequested, config, lastReason, timer, runVars>>
      BY <1>11, <2>8 DEF SaveFails
    <3>2. TypeOK'
      BY <2>2, <2>3, <2>4, <2>5, <2>6, <3>1 DEF TypeOK, runVars
    <3>3. QED
      BY <2>6, <3>2 DEF Finite
  <2>9. QED
    BY <2>7, <2>8
<1>12. CASE EndCopy
  <2>1. UNCHANGED <<bucketVars, stats, lastFailed, envVars>>
    BY <1>12 DEF EndCopy
  <2>2. CASE doomed # {} /\ MayDelete
    BY <1>12, <2>1, <2>2 DEF EndCopy, TypeOK, Finite, bucketVars, poolVars, envVars
  <2>3. CASE ~(doomed # {} /\ MayDelete)
    <3>1. RunEnds(Outcome) /\ RemoveCheckpoint(Outcome) /\ PoolEnds
      BY <1>12, <2>3 DEF EndCopy
    <3>2. QED
      BY <2>1, <3>1, OutcomeType, RunEndsType, RemoveCheckpointType, PoolEndsType
         DEF TypeOK, Finite, bucketVars, envVars
  <2>4. QED
    BY <2>2, <2>3
<1>13. CASE DryCopy
  <2>1. /\ RunEnds(Outcome) /\ RemoveCheckpoint(Outcome) /\ PoolEnds
        /\ UNCHANGED <<bucketVars, lastFailed, envVars>>
    BY <1>13 DEF DryCopy
  <2>2. Cardinality(todo[cur]) \in Nat
    BY FS_CardinalityType DEF TypeOK, Finite
  <2>3. stats' \in [total : Nat, synced : Nat, failed : Nat, skipped : Nat]
    BY <1>13, <2>2 DEF DryCopy, TypeOK
  <2>4. QED
    BY <2>1, <2>3, OutcomeType, RunEndsType, RemoveCheckpointType, PoolEndsType
       DEF TypeOK, Finite, bucketVars, envVars
<1>14. ASSUME NEW k \in Keys, TakeOrphan(k) PROVE TypeInv'
  BY <1>14 DEF TakeOrphan, TypeOK, Finite, bucketVars, stateVars, poolVars, envVars
<1>15. ASSUME NEW k \in Keys, OrphanDone(k) PROVE TypeInv'
  BY <1>15 DEF OrphanDone, TypeOK, Finite, stateVars, poolVars, envVars
<1>16. CASE EndDelete
  <2>1. /\ RunEnds(Outcome) /\ RemoveCheckpoint(Outcome) /\ PoolEnds
        /\ UNCHANGED <<bucketVars, stats, lastFailed, envVars>>
    BY <1>16 DEF EndDelete
  <2>2. QED
    BY <2>1, OutcomeType, RunEndsType, RemoveCheckpointType, PoolEndsType
       DEF TypeOK, Finite, bucketVars, envVars
<1>17. CASE UserStop
  BY <1>17 DEF UserStop, TypeOK, Finite, bucketVars, runVars, poolVars
<1>18. CASE UserRemovesCheckpoint
  BY <1>18 DEF UserRemovesCheckpoint, TypeOK, Finite, bucketVars, stateVars,
     runVars, poolVars, envVars
<1>19. CASE Shutdown
  BY <1>19 DEF Shutdown, TypeOK, Finite, bucketVars, runVars, poolVars
<1>20. CASE Restart
  <2>1. dst' \in [Keys -> DstObjects \cup {Absent}]
    BY <1>20, RestartWrites DEF Restart, TypeOK
  <2>2. ZeroStats \in [total : Nat, synced : Nat, failed : Nat, skipped : Nat]
    BY DEF ZeroStats
  <2>3. 0 \in 0..NumKeys
    BY SyncAssumption
  <2>4. TypeOK'
    BY <1>20, <2>1, <2>2, <2>3 DEF Restart, NothingListed, TypeOK
  <2>5. Finite'
    BY <1>20, FS_EmptySet DEF Restart, Finite
  <2>6. QED
    BY <2>4, <2>5
<1>21. ASSUME NEW k \in Keys, NEW o \in Objects \cup {Absent}, EditSource(k, o)
       PROVE  TypeInv'
  <2>1. edits' \in 0..MaxEdits
    BY <1>21, SyncAssumption DEF EditSource, TypeOK
  <2>2. QED
    BY <1>21, <2>1 DEF EditSource, TypeOK, Finite, stateVars, runVars, poolVars, envVars
<1>22. CASE UNCHANGED vars
  BY <1>22 DEF vars, TypeOK, Finite, bucketVars, stateVars, runVars, poolVars, envVars
<1>23. QED
  BY <1>1, <1>2, <1>3, <1>4, <1>5, <1>6, <1>7, <1>8, <1>9, <1>10, <1>11, <1>12,
     <1>13, <1>14, <1>15, <1>16, <1>17, <1>18, <1>19, <1>20, <1>21, <1>22
     DEF Next, Engine, Failure, User

(***************************************************************************)
(* Every variable of the engine keeps its type.                            *)
(***************************************************************************)
THEOREM TypeCorrect == Spec => []TypeOK
<1>1. TypeInv => TypeOK
  BY DEF TypeInv
<1>2. QED
  BY TypeInit, TypeStep, <1>1, PTL DEF Spec

-----------------------------------------------------------------------------
(***************************************************************************)
(* The engine deletes only orphans, and a stop is final: both follow from  *)
(* SafeInv, which every step preserves.  Nothing is assumed of the disk: this *)
(* holds even when workers outlive their run.                              *)
(***************************************************************************)

-----------------------------------------------------------------------------
(* The steps that begin and end a run. *)

LEMMA BeginSafe ==
    ASSUME TypeInv, SafeInv, NEW c \in Configs, ~running, BeginSync(c),
           intent' # "stopped"
    PROVE  SafeInv'
<1>1. phase = "idle" /\ doomed = {} /\ deleting = {}
  BY DEF SafeInv, PhaseInv
<1>2. running' /\ phase' \in {"list", "wedged"} /\ doomed' = {} /\ deleting' = {}
  BY <1>1 DEF BeginSync
<1>3. QED
  BY <1>2 DEF SafeInv, PhaseInv, OrphanInv, StopIsFinal

LEMMA EndSafe ==
    ASSUME TypeInv, SafeInv, running, UNCHANGED intent,
           NEW reason \in {"user_stopped", "fatal_error", "completed"},
           reason = "completed" => ~stopRequested,
           RunEnds(reason)
    PROVE  SafeInv'
<1>1. ~running' /\ phase' = "idle" /\ doomed' = {} /\ deleting' = {}
  BY DEF RunEnds
<1>2. PhaseInv' /\ OrphanInv'
  BY <1>1 DEF PhaseInv, OrphanInv
<1>3. ASSUME intent' = "stopped" PROVE timer' = NoConfig
  <2>1. stopRequested /\ timer = NoConfig
    BY <1>3 DEF SafeInv, StopIsFinal
  <2>2. QED
    BY <2>1 DEF RunEnds, ArmsTimer
<1>4. QED
  BY <1>1, <1>2, <1>3 DEF SafeInv, StopIsFinal

LEMMA OutcomeReason ==
    /\ Outcome \in {"user_stopped", "fatal_error", "completed"}
    /\ Outcome = "completed" => ~stopRequested
  BY DEF Outcome

(***************************************************************************)
(* What the scan and the copy workers leave alone is all that SafeInv is   *)
(* about.                                                                  *)
(***************************************************************************)
LEMMA SafeUnchanged ==
    ASSUME SafeInv,
           UNCHANGED <<src, changed, running, stopRequested, timer, phase,
                       scanned, seen, doomed, deleting, intent>>
    PROVE  SafeInv'
  BY DEF SafeInv, PhaseInv, OrphanInv, StopIsFinal, GoneOrEdited

-----------------------------------------------------------------------------
(* Every step. *)

LEMMA SafeStep ==
    ASSUME TypeInv, SafeInv, [Next]_vars
    PROVE  SafeInv'
<1>1. ASSUME NEW c \in Configs, UserStart(c) PROVE SafeInv'
  <2>1. ~running /\ BeginSync(c) /\ intent' # "stopped"
    BY <1>1 DEF UserStart
  <2>2. QED
    BY <2>1, BeginSafe
<1>2. CASE TimerFires
  <2>1. timer # NoConfig /\ timer' = NoConfig /\ timer \in Configs
    BY <1>2 DEF TimerFires, TypeInv, TypeOK
  <2>2. intent # "stopped"
    BY <2>1 DEF SafeInv, StopIsFinal
  <2>3. CASE running
    <3>1. UNCHANGED <<bucketVars, stateVars, runVars, envVars>>
      BY <1>2, <2>3 DEF TimerFires
    <3>2. QED
      BY <2>2, <3>1 DEF SafeInv, PhaseInv, OrphanInv, StopIsFinal, GoneOrEdited,
         bucketVars, stateVars, runVars, envVars
  <2>4. CASE ~running
    <3>1. BeginSync(timer) /\ intent' # "stopped"
      BY <1>2, <2>2, <2>4 DEF TimerFires
    <3>2. QED
      BY <2>1, <2>4, <3>1, BeginSafe
  <2>5. QED
    BY <2>3, <2>4
<1>3. CASE UserRetry
  <2>1. phase = "idle" /\ deleting = {}
    BY <1>3 DEF UserRetry, SafeInv, PhaseInv
  <2>2. /\ running' /\ phase' = "copy" /\ doomed' = {} /\ deleting' = {}
        /\ intent' # "stopped"
    BY <1>3, <2>1 DEF UserRetry
  <2>3. QED
    BY <2>2 DEF SafeInv, PhaseInv, OrphanInv, StopIsFinal
<1>4. CASE ListDst
  <2>1. /\ phase = "list" /\ phase' = "scan" /\ scanned' = 0
        /\ UNCHANGED <<src, changed, running, stopRequested, timer, doomed,
                       deleting, intent>>
    BY <1>4 DEF ListDst, bucketVars, stateVars, envVars
  <2>2. \A k \in Keys : ~(k <= 0)
    BY SyncAssumption DEF Keys
  <2>3. QED
    BY <2>1, <2>2 DEF SafeInv, PhaseInv, OrphanInv, StopIsFinal, GoneOrEdited
<1>5. CASE ListFails
  <2>1. RunEnds("fatal_error") /\ running /\ UNCHANGED intent
    BY <1>5 DEF ListFails, SafeInv, PhaseInv, envVars
  <2>2. QED
    BY <2>1, EndSafe
<1>6. CASE ScanPage
  <2> DEFINE last == IF scanned + PageSize < NumKeys THEN scanned + PageSize ELSE NumKeys
             page == {k \in (scanned + 1)..last : k \in SrcScope /\ src[k] # Absent}
  <2>1. /\ phase = "scan" /\ scanned' = last /\ seen' = seen \cup page
        /\ UNCHANGED <<src, changed, running, stopRequested, timer, phase, doomed,
                       deleting, intent>>
    BY <1>6 DEF ScanPage, bucketVars, envVars
  <2>2. ASSUME NEW k \in Keys, k <= scanned'
        PROVE  k \in seen' \/ GoneOrEdited(k)'
    <3>1. CASE k <= scanned
      BY <2>1, <3>1 DEF SafeInv, OrphanInv, GoneOrEdited
    <3>2. CASE ~(k <= scanned)
      <4>1. k \in (scanned + 1)..last
        BY <2>1, <2>2, <3>2, SyncAssumption DEF Keys, TypeInv, TypeOK
      <4>2. QED
        BY <2>1, <4>1 DEF GoneOrEdited
    <3>3. QED
      BY <3>1, <3>2
  <2>3. QED
    BY <2>1, <2>2 DEF SafeInv, PhaseInv, OrphanInv, StopIsFinal, GoneOrEdited
<1>7. CASE EndScan
  <2>1. /\ phase = "scan" /\ phase' = "copy" /\ (stopRequested \/ scanned = NumKeys)
        /\ \A k \in doomed' : k \in Keys /\ k \notin seen
        /\ UNCHANGED <<src, changed, running, stopRequested, timer, scanned, seen,
                       deleting, intent>>
    BY <1>7 DEF EndScan, bucketVars, stateVars, envVars
  <2>2. ASSUME ~stopRequested, NEW k \in doomed' PROVE GoneOrEdited(k)'
    <3>1. k \in Keys /\ k <= scanned /\ k \notin seen
      BY <2>1, <2>2 DEF Keys
    <3>2. QED
      BY <2>1, <3>1 DEF SafeInv, OrphanInv, GoneOrEdited
  <2>3. QED
    BY <2>1, <2>2 DEF SafeInv, PhaseInv, OrphanInv, StopIsFinal, GoneOrEdited
<1>8. ASSUME NEW r \in Slots, NEW w \in Workers,
             TakeFile(r, w) \/ CopySucceeds(r, w) \/ CopyFails(r, w)
      PROVE  SafeInv'
  BY <1>8, SafeUnchanged
     DEF TakeFile, CopySucceeds, CopyFails, bucketVars, stateVars, runVars, envVars
<1>9. ASSUME NEW r \in Slots, NEW w \in Workers, SaveFails(r, w) PROVE SafeInv'
  <2>1. UNCHANGED <<src, changed, intent>>
    BY <1>9 DEF SaveFails, envVars
  <2>2. CASE r = cur /\ phase = "copy"
    <3>1. RunEnds("fatal_error") /\ running
      BY <1>9, <2>2 DEF SaveFails, SafeInv, PhaseInv
    <3>2. QED
      BY <2>1, <3>1, EndSafe
  <2>3. CASE ~(r = cur /\ phase = "copy")
    BY <1>9, <2>1, <2>3, SafeUnchanged DEF SaveFails, runVars
  <2>4. QED
    BY <2>2, <2>3
<1>10. CASE EndCopy
  <2>1. phase = "copy" /\ running /\ UNCHANGED <<src, changed, intent>>
    BY <1>10 DEF EndCopy, SafeInv, PhaseInv, bucketVars, envVars
  <2>2. CASE doomed # {} /\ MayDelete
    <3>1. /\ phase' = "delete" /\ ~stopRequested
          /\ UNCHANGED <<running, stopRequested, timer, scanned, seen, doomed, deleting>>
      BY <1>10, <2>2 DEF EndCopy, MayDelete
    <3>2. QED
      BY <2>1, <3>1 DEF SafeInv, PhaseInv, OrphanInv, StopIsFinal, GoneOrEdited
  <2>3. CASE ~(doomed # {} /\ MayDelete)
    <3>1. RunEnds(Outcome)
      BY <1>10, <2>3 DEF EndCopy
    <3>2. QED
      BY <2>1, <3>1, EndSafe, OutcomeReason
  <2>4. QED
    BY <2>2, <2>3
<1>11. CASE DryCopy \/ EndDelete
  <2>1. running /\ UNCHANGED intent /\ RunEnds(Outcome)
    BY <1>11 DEF DryCopy, EndDelete, SafeInv, PhaseInv, envVars
  <2>2. QED
    BY <2>1, EndSafe, OutcomeReason
<1>12. ASSUME NEW k \in Keys, TakeOrphan(k) PROVE SafeInv'
  <2>1. /\ phase = "delete" /\ ~stopRequested /\ k \in doomed
        /\ doomed' = doomed \ {k} /\ deleting' = deleting \cup {k}
        /\ UNCHANGED <<src, changed, running, stopRequested, timer, phase, scanned,
                       seen, intent>>
    BY <1>12 DEF TakeOrphan, MayDelete, bucketVars, stateVars, envVars
  <2>2. QED
    BY <2>1 DEF SafeInv, PhaseInv, OrphanInv, StopIsFinal, GoneOrEdited
<1>13. ASSUME NEW k \in Keys, OrphanDone(k) PROVE SafeInv'
  <2>1. /\ deleting' = deleting \ {k}
        /\ UNCHANGED <<src, changed, running, stopRequested, timer, phase, scanned,
                       seen, doomed, intent>>
    BY <1>13 DEF OrphanDone, stateVars, envVars
  <2>2. QED
    BY <2>1 DEF SafeInv, PhaseInv, OrphanInv, StopIsFinal, GoneOrEdited
<1>14. CASE UserStop \/ Shutdown
  <2>1. /\ stopRequested' = (stopRequested \/ running)
        /\ (timer' = timer /\ intent' = intent) \/ timer' = NoConfig
        /\ UNCHANGED <<src, changed, running, phase, scanned, seen, doomed, deleting>>
    BY <1>14 DEF UserStop, Shutdown, bucketVars, runVars
  <2>2. StopIsFinal'
    BY <2>1 DEF SafeInv, StopIsFinal
  <2>3. QED
    BY <2>1, <2>2 DEF SafeInv, PhaseInv, OrphanInv, GoneOrEdited
<1>15. CASE UserRemovesCheckpoint
  BY <1>15, SafeUnchanged
     DEF UserRemovesCheckpoint, bucketVars, stateVars, runVars, envVars
<1>16. CASE Restart
  BY <1>16 DEF Restart, SafeInv, PhaseInv, OrphanInv, StopIsFinal
<1>17. ASSUME NEW k \in Keys, NEW o \in Objects \cup {Absent}, EditSource(k, o)
       PROVE  SafeInv'
  <2>1. /\ \A j \in Keys : GoneOrEdited(j) => GoneOrEdited(j)'
        /\ UNCHANGED <<running, stopRequested, timer, phase, scanned, seen, doomed,
                       deleting, intent>>
    BY <1>17 DEF EditSource, GoneOrEdited, TypeInv, TypeOK, stateVars, runVars, envVars
  <2>2. doomed \subseteq Keys /\ deleting \subseteq Keys
    BY SyncAssumption DEF TypeInv, TypeOK
  <2>3. QED
    BY <2>1, <2>2 DEF SafeInv, PhaseInv, OrphanInv, StopIsFinal
<1>18. CASE UNCHANGED vars
  BY <1>18, SafeUnchanged DEF vars, bucketVars, stateVars, runVars, envVars
<1>19. QED
  BY <1>1, <1>2, <1>3, <1>4, <1>5, <1>6, <1>7, <1>8, <1>9, <1>10, <1>11, <1>12,
     <1>13, <1>14, <1>15, <1>16, <1>17, <1>18 DEF Next, Engine, Failure, User

LEMMA SafeInit == Init => SafeInv
  BY DEF Init, SafeInv, PhaseInv, OrphanInv, StopIsFinal

LEMMA SafeAlways == Spec => [](TypeInv /\ SafeInv)
<1>1. Init => TypeInv /\ SafeInv
  BY TypeInit, SafeInit
<1>2. TypeInv /\ SafeInv /\ [Next]_vars => TypeInv' /\ SafeInv'
  BY TypeStep, SafeStep
<1>3. QED
  BY <1>1, <1>2, PTL DEF Spec

-----------------------------------------------------------------------------
(* Theorems. *)

(***************************************************************************)
(* After POST /api/stop no timer is armed and the run in progress is on    *)
(* its way out, until the user starts something: src/syncEngine.js         *)
(* stopSync, the repeat timer and the end of startSync.                    *)
(***************************************************************************)
THEOREM StopFinal == Spec => []StopIsFinal
<1>1. TypeInv /\ SafeInv => StopIsFinal
  BY DEF SafeInv
<1>2. QED
  BY <1>1, SafeAlways, PTL

(***************************************************************************)
(* An object that a step makes disappear from the destination has none     *)
(* under its key in the source, or was edited there: the orphan listing    *)
(* and the delete phase of runOnce in src/syncEngine.js.                   *)
(***************************************************************************)
LEMMA DeleteStep ==
    ASSUME TypeInv, SafeInv, [Next]_vars, NEW k \in Keys, dst[k] # Absent, dst'[k] = Absent
    PROVE  k \in DstScope /\ GoneOrEdited(k)
<1>1. SUFFICES k \in deleting
  BY DEF SafeInv, OrphanInv, TypeInv, TypeOK
<1>2. dst' # dst
  OBVIOUS
<1>3. CASE \E r \in Slots, w \in Workers :
              CopySucceeds(r, w) \/ CopyFails(r, w) \/ SaveFails(r, w)
  <2>1. PICK r \in Slots, w \in Workers :
           CopySucceeds(r, w) \/ CopyFails(r, w) \/ SaveFails(r, w)
    BY <1>3
  <2> DEFINE t == busy[r][w]
  <2>2. /\ t \in Task /\ CanCopy(t)
        /\ dst' = [dst EXCEPT ![t.key] = Stored(t.got, Large(t.listed))]
    BY <1>2, <2>1 DEF CopySucceeds, CopyFails, SaveFails
  <2>3. Stored(t.got, Large(t.listed)) # Absent
    BY <2>2, TaskWrites
  <2>4. QED
    BY <2>2, <2>3 DEF TypeInv, TypeOK
<1>4. CASE \E d \in Keys : OrphanDone(d)
  BY <1>4 DEF OrphanDone, TypeInv, TypeOK
<1>5. CASE Restart
  <2>1. dst'[k] # dst[k]
    OBVIOUS
  <2>2. \A r \in Slots, w \in Workers : busy[r][w] \in Task /\ CanCopy(busy[r][w])
           => dst'[k] # Stored(busy[r][w].got, Large(busy[r][w].listed))
    BY TaskWrites
  <2>3. QED
    BY <1>5, <2>1, <2>2, RestartWrites
<1>6. CASE UNCHANGED dst
  BY <1>2, <1>6
<1>7. QED
  <2>1. CASE Engine
    BY <2>1, <1>3, <1>4, <1>6 DEF Engine, ListDst, ScanPage, EndScan, TakeFile,
       EndCopy, DryCopy, TakeOrphan, EndDelete, bucketVars
  <2>2. CASE Failure
    BY <2>2, <1>3, <1>5, <1>6 DEF Failure, ListFails, bucketVars
  <2>3. CASE TimerFires
    BY <2>3, <1>6 DEF TimerFires, BeginSync, bucketVars
  <2>4. CASE User
    BY <2>4, <1>6 DEF User, UserStart, UserRetry, UserStop, UserRemovesCheckpoint,
       Shutdown, EditSource, BeginSync, bucketVars
  <2>5. CASE UNCHANGED vars
    BY <2>5, <1>6 DEF vars, bucketVars
  <2>6. QED
    BY <2>1, <2>2, <2>3, <2>4, <2>5 DEF Next

(***************************************************************************)
(* Whatever fails, is stopped or restarted, only orphans are deleted.      *)
(***************************************************************************)
THEOREM DeletesOnlyOrphans == Spec => OnlyOrphansDeleted
<1>1. TypeInv /\ SafeInv /\ [Next]_vars
        => [\A k \in Keys : dst[k] # Absent /\ dst'[k] = Absent
                 => k \in DstScope
                      /\ (k \notin SrcScope \/ src[k] = Absent \/ k \in changed)]_vars
  BY DeleteStep DEF GoneOrEdited
<1>2. QED
  BY <1>1, SafeAlways, PTL DEF Spec, OnlyOrphansDeleted

-----------------------------------------------------------------------------
(***************************************************************************)
(* The engine implements its abstract run control, whatever becomes of the *)
(* disk.                                                                   *)
(***************************************************************************)

(***************************************************************************)
(* The end of a run is an end in the control, and only a run that was not  *)
(* stopped arms the timer.                                                 *)
(***************************************************************************)
LEMMA EndMaps ==
    ASSUME running, stopRequested \in BOOLEAN,
           NEW reason, reason = "completed" => ~stopRequested, RunEnds(reason)
    PROVE  Control!Next
<1>1. ~running' /\ modeBar' = "idle"
  BY DEF RunEnds, modeBar
<1>2. CASE stopRequested
  <2>1. modeBar = "stopping" /\ timer' = timer
    BY <1>2 DEF modeBar, RunEnds, ArmsTimer
  <2>2. Control!Stopped
    BY <1>1, <2>1 DEF Control!Stopped
  <2>3. QED
    BY <2>2 DEF Control!Next
<1>3. CASE ~stopRequested
  <2>1. modeBar = "running"
    BY <1>3 DEF modeBar
  <2>2. timer' = timer \/ timer' # NoConfig
    BY SyncAssumption DEF RunEnds, ArmsTimer
  <2>3. (timer' # NoConfig) = (timer # NoConfig) \/ (timer' # NoConfig) = TRUE
    BY <2>2
  <2>4. Control!Finish
    BY <1>1, <2>1, <2>3 DEF Control!Finish
  <2>5. QED
    BY <2>4 DEF Control!Next
<1>4. QED
  BY <1>2, <1>3

LEMMA BeginMaps ==
    ASSUME ~running, NEW c \in Configs, BeginSync(c)
    PROVE  modeBar = "idle" /\ modeBar' = "running"
  BY DEF BeginSync, ResetStats, modeBar

LEMMA StutterMaps ==
    ASSUME UNCHANGED <<running, stopRequested, timer>>
    PROVE  UNCHANGED Control!controlVars
  BY DEF modeBar, Control!controlVars

LEMMA ControlStep ==
    ASSUME TypeInv, SafeInv, [Next]_vars
    PROVE  [Control!Next]_Control!controlVars
<1> USE DEF Control!Next
<1>1. ASSUME NEW c \in Configs, UserStart(c) PROVE Control!Next
  <2>1. modeBar = "idle" /\ modeBar' = "running" /\ timer' = timer
    BY <1>1, BeginMaps DEF UserStart
  <2>2. QED
    BY <2>1 DEF Control!Start
<1>2. CASE TimerFires
  <2>1. timer \in Configs /\ timer # NoConfig /\ timer' = NoConfig
    BY <1>2 DEF TimerFires, TypeInv, TypeOK
  <2>2. CASE running
    <3>1. modeBar' = modeBar /\ modeBar # "idle"
      BY <1>2, <2>2 DEF TimerFires, modeBar, stateVars
    <3>2. Control!Fire
      BY <2>1, <3>1 DEF Control!Fire
    <3>3. QED
      BY <3>2
  <2>3. CASE ~running
    <3>1. modeBar = "idle" /\ modeBar' = "running"
      BY <1>2, <2>1, <2>3, BeginMaps DEF TimerFires
    <3>2. Control!Fire
      BY <2>1, <3>1 DEF Control!Fire
    <3>3. QED
      BY <3>2
  <2>4. QED
    BY <2>2, <2>3
<1>3. CASE UserRetry
  <2>1. modeBar = "idle" /\ modeBar' = "running" /\ timer' = timer
    BY <1>3 DEF UserRetry, ResetStats, modeBar
  <2>2. QED
    BY <2>1 DEF Control!Start
<1>4. CASE ListDst \/ ScanPage \/ EndScan
  BY <1>4, StutterMaps DEF ListDst, ScanPage, EndScan, stateVars
<1>5. CASE ListFails
  <2>1. RunEnds("fatal_error") /\ running
    BY <1>5 DEF ListFails, SafeInv, PhaseInv
  <2>2. QED
    BY <2>1, EndMaps DEF TypeInv, TypeOK
<1>6. ASSUME NEW r \in Slots, NEW w \in Workers,
             TakeFile(r, w) \/ CopySucceeds(r, w) \/ CopyFails(r, w)
      PROVE  UNCHANGED Control!controlVars
  BY <1>6, StutterMaps DEF TakeFile, CopySucceeds, CopyFails, stateVars
<1>7. ASSUME NEW r \in Slots, NEW w \in Workers, SaveFails(r, w)
      PROVE  [Control!Next]_Control!controlVars
  <2>1. CASE r = cur /\ phase = "copy"
    <3>1. RunEnds("fatal_error") /\ running
      BY <1>7, <2>1 DEF SaveFails, SafeInv, PhaseInv
    <3>2. QED
      BY <3>1, EndMaps DEF TypeInv, TypeOK
  <2>2. CASE ~(r = cur /\ phase = "copy")
    BY <1>7, <2>2, StutterMaps DEF SaveFails
  <2>3. QED
    BY <2>1, <2>2
<1>8. CASE EndCopy
  <2>1. running
    BY <1>8 DEF EndCopy, SafeInv, PhaseInv
  <2>2. CASE doomed # {} /\ MayDelete
    BY <1>8, <2>2, StutterMaps DEF EndCopy
  <2>3. CASE ~(doomed # {} /\ MayDelete)
    <3>1. RunEnds(Outcome)
      BY <1>8, <2>3 DEF EndCopy
    <3>2. QED
      BY <2>1, <3>1, EndMaps, OutcomeReason DEF TypeInv, TypeOK
  <2>4. QED
    BY <2>2, <2>3
<1>9. CASE DryCopy \/ EndDelete
  <2>1. RunEnds(Outcome) /\ running
    BY <1>9 DEF DryCopy, EndDelete, SafeInv, PhaseInv
  <2>2. QED
    BY <2>1, EndMaps, OutcomeReason DEF TypeInv, TypeOK
<1>10. ASSUME NEW k \in Keys, TakeOrphan(k) \/ OrphanDone(k)
       PROVE  UNCHANGED Control!controlVars
  BY <1>10, StutterMaps DEF TakeOrphan, OrphanDone, stateVars
<1>11. CASE UserStop
  <2>1. /\ timer' = NoConfig
        /\ modeBar' = IF modeBar = "running" THEN "stopping" ELSE modeBar
    BY <1>11 DEF UserStop, modeBar
  <2>2. Control!Stop
    BY <2>1 DEF Control!Stop
  <2>3. QED
    BY <2>2
<1>12. CASE Shutdown
  <2>1. timer' = timer /\ running' = running /\ stopRequested' = (stopRequested \/ running)
    BY <1>12 DEF Shutdown
  <2>2. CASE running /\ ~stopRequested
    <3>1. modeBar = "running" /\ modeBar' = "stopping"
      BY <2>1, <2>2 DEF modeBar
    <3>2. Control!Shutdown
      BY <2>1, <3>1 DEF Control!Shutdown
    <3>3. QED
      BY <3>2
  <2>3. CASE ~(running /\ ~stopRequested)
    BY <2>1, <2>3 DEF modeBar, Control!controlVars
  <2>4. QED
    BY <2>2, <2>3
<1>13. CASE UserRemovesCheckpoint
  BY <1>13, StutterMaps DEF UserRemovesCheckpoint, stateVars
<1>14. CASE Restart
  <2>1. modeBar' = "idle" /\ timer' = NoConfig
    BY <1>14 DEF Restart, modeBar
  <2>2. Control!Restart
    BY <2>1 DEF Control!Restart
  <2>3. QED
    BY <2>2
<1>15. ASSUME NEW k \in Keys, NEW o \in Objects \cup {Absent}, EditSource(k, o)
       PROVE  UNCHANGED Control!controlVars
  BY <1>15, StutterMaps DEF EditSource, stateVars
<1>16. CASE UNCHANGED vars
  BY <1>16, StutterMaps DEF vars, stateVars
<1>17. QED
  BY <1>1, <1>2, <1>3, <1>4, <1>5, <1>6, <1>7, <1>8, <1>9, <1>10, <1>11, <1>12,
     <1>13, <1>14, <1>15, <1>16 DEF Next, Engine, Failure, User

(***************************************************************************)
(* Every behaviour of the engine is one of SyncControl: the handlers of    *)
(* server.js, the repeat timer and the end of startSync agree on when a    *)
(* run may begin and when the timer is armed.                              *)
(***************************************************************************)
THEOREM EngineImplementsControl == Spec => ControlSpec
<1>1. Init => Control!Init
  BY DEF Init, Control!Init, modeBar
<1>2. TypeInv /\ SafeInv /\ [Next]_vars => [Control!Next]_Control!controlVars
  BY ControlStep
<1>3. QED
  BY <1>1, <1>2, SafeAlways, PTL DEF Spec, ControlSpec, Control!Spec
=============================================================================
