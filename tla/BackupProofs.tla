---------------------------- MODULE BackupProofs ----------------------------
(***************************************************************************)
(* Types of the backup engine, for every number of backups and targets and *)
(* every policy.  The loops of the code take the first or the newest       *)
(* element of what is left: that there is one is shown first.              *)
(***************************************************************************)
EXTENDS BackupEngine, FiniteSetTheorems, WellFoundedInduction, TLAPS

-----------------------------------------------------------------------------
(* Least and greatest numbers. *)

LEMMA Least ==
    ASSUME NEW S \in SUBSET Nat, S # {}
    PROVE  \E m \in S : \A n \in S : m <= n
<1>1. IsWellFoundedOn(OpToRel(<, Nat), Nat)
  BY NatLessThanWellFounded
<1>2. PICK m \in S : \A n \in S : <<n, m>> \notin OpToRel(<, Nat)
  BY <1>1, WFMin
<1>3. \A n \in S : ~(n < m)
  BY <1>2 DEF OpToRel
<1>4. QED
  BY <1>3

LEMMA Greatest ==
    ASSUME NEW N \in Nat, NEW S \in SUBSET (1..N), S # {}
    PROVE  \E m \in S : \A n \in S : n <= m
<1> DEFINE R == {N - n : n \in S}
<1>1. R \subseteq Nat
  OBVIOUS
<1>2. R # {}
  OBVIOUS
<1>3. PICK r \in R : \A q \in R : r <= q
  <2> HIDE DEF R
  <2>1. QED
    BY <1>1, <1>2, Least
<1>4. PICK m \in S : r = N - m
  OBVIOUS
<1>5. \A n \in S : N - m <= N - n
  BY <1>3, <1>4
<1>6. QED
  BY <1>5

(***************************************************************************)
(* The first of the targets left, the first backup not yet started and the *)
(* newest of those chosen are among them.                                  *)
(***************************************************************************)
LEMMA FirstIn ==
    ASSUME NEW S \in SUBSET Nat, S # {}
    PROVE  First(S) \in S
BY Least DEF First

LEMMA NewestIn ==
    ASSUME NEW S \in SUBSET Backups, S # {}
    PROVE  Newest(S) \in S /\ \A c \in S : c <= Newest(S)
<1>1. \E m \in S : \A n \in S : n <= m
  BY Greatest, BoundsAreNumbers DEF Backups
<1>2. QED
  BY <1>1 DEF Newest

LEMMA NextCopyIn ==
    ASSUME NEW C \in SUBSET (Backups \X Targets), C # {}
    PROVE  NextCopy(C) \in C
<1> DEFINE Bs == {c[1] : c \in C}
<1>1. Bs \subseteq Nat /\ Bs # {}
  BY DEF Backups
<1>2. PICK b \in Bs : \A a \in Bs : b <= a
  <2> HIDE DEF Bs
  <2>1. QED
    BY <1>1, Least
<1> DEFINE Ts == {t \in Targets : <<b, t>> \in C}
<1>3. Ts \subseteq Nat
  BY DEF Targets
<1>4. Ts # {}
  BY <1>2
<1>5. PICK t \in Ts : \A u \in Ts : t <= u
  <2> HIDE DEF Ts
  <2>1. QED
    BY <1>3, <1>4, Least
<1>6. <<b, t>> \in C
  OBVIOUS
<1>7. ASSUME NEW e \in C PROVE b < e[1] \/ (b = e[1] /\ t <= e[2])
  <2>1. e = <<e[1], e[2]>> /\ e[1] \in Bs /\ e[1] \in Backups /\ e[2] \in Targets
    OBVIOUS
  <2>2. b <= e[1]
    BY <1>2, <2>1
  <2>3. CASE b = e[1]
    <3>1. e[2] \in Ts
      BY <2>1, <2>3
    <3>2. QED
      BY <1>5, <2>3, <3>1
  <2>4. QED
    BY <1>1, <1>2, <2>1, <2>2, <2>3 DEF Backups
<1>8. \E c \in C : \A e \in C : c[1] < e[1] \/ (c[1] = e[1] /\ c[2] <= e[2])
  BY <1>6, <1>7
<1>9. QED
  BY <1>8 DEF NextCopy
-----------------------------------------------------------------------------
(* Types. *)

LEMMA GoOnType ==
    ASSUME TypeOK, NEW p \in Backups \cup Passes, NEW B \in SUBSET Backups,
           NEW st \in [Backups -> Statuses], NEW pt \in [Backups -> SUBSET Targets],
           GoOn(p, B, st, pt)
    PROVE  /\ status' \in [Backups -> Statuses]
           /\ pass' \in [Backups \cup Passes -> PassType]
<1> DEFINE rest == B \ Passed(B, pt)
<1>1. status' \in [Backups -> Statuses]
  BY DEF GoOn, Statuses
<1>2. rest \in SUBSET Backups
  OBVIOUS
<1>3. rest # {} => pt[Newest(rest)] \in SUBSET Targets
  <2> HIDE DEF rest
  <2>1. QED
    BY <1>2, NewestIn
<1>4. NoPass \in PassType
  BY DEF NoPass, PassType
<1>5. pass' = [pass EXCEPT ![p] = IF rest = {} THEN NoPass
                                  ELSE [chosen |-> rest, left |-> pt[Newest(rest)],
                                        clean |-> TRUE]]
  BY DEF GoOn
<1>6. pass \in [Backups \cup Passes -> PassType]
  BY DEF TypeOK
<1>7. pass' \in [Backups \cup Passes -> PassType]
  <2> HIDE DEF rest
  <2>1. CASE rest = {}
    BY <1>4, <1>5, <1>6, <2>1
  <2>2. CASE rest # {}
    <3>1. [chosen |-> rest, left |-> pt[Newest(rest)], clean |-> TRUE] \in PassType
      BY <1>2, <1>3, <2>2 DEF PassType
    <3>2. QED
      BY <1>5, <1>6, <2>2, <3>1
  <2>3. QED
    BY <2>1, <2>2
<1>8. QED
  BY <1>1, <1>7

\* A pass works with the rules it has read.
LEMMA RulesRead ==
    ASSUME NEW p, NEW st, NEW pt, ApplyRetention(p, st, pt), Evaluates(policy)
    PROVE  \E keep \in Rules :
               GoOn(p, Superseded(st, keep), st, pt) /\ Chooses(Superseded(st, keep), keep)
<1>1. PICK since \in [Periods -> 0..NumBackups] :
        LET keep == [last |-> policy, since |-> since]
        IN  GoOn(p, Superseded(st, keep), st, pt) /\ Chooses(Superseded(st, keep), keep)
  BY DEF ApplyRetention
<1>2. [last |-> policy, since |-> since] \in Rules
  BY BoundsAreNumbers DEF Evaluates, Rules
<1>3. QED
  BY <1>1, <1>2

\* The looser of two rules lets go of everything each of them lets go of.
LEMMA LooserRules ==
    ASSUME NEW k \in Rules, NEW l \in Rules
    PROVE  /\ Looser(k, l) \in Rules
           /\ Looser(k, l).last <= k.last /\ Looser(k, l).last <= l.last
           /\ \A P \in Periods : /\ Looser(k, l).since[P] >= k.since[P]
                                 /\ Looser(k, l).since[P] >= l.since[P]
<1> DEFINE last == IF l.last < k.last THEN l.last ELSE k.last
           since == [P \in Periods |-> IF l.since[P] > k.since[P] THEN l.since[P] ELSE k.since[P]]
<1>1. /\ k.last \in Nat /\ l.last \in Nat
      /\ \A P \in Periods : k.since[P] \in Nat /\ l.since[P] \in Nat
  BY DEF Rules
<1>2. last \in Nat /\ last <= k.last /\ last <= l.last
  BY <1>1
<1>3. since \in [Periods -> Nat]
  BY <1>1
<1>4. \A P \in Periods : since[P] >= k.since[P] /\ since[P] >= l.since[P]
  BY <1>1
<1>5. Looser(k, l) = [last |-> last, since |-> since]
  BY DEF Looser
<1> HIDE DEF last, since
<1>6. QED
  BY <1>2, <1>3, <1>4, <1>5 DEF Rules

LEMMA ChoicesType ==
    ASSUME TypeOK, NEW B \in SUBSET Backups, NEW keep \in Rules, Chooses(B, keep)
    PROVE  retired' \subseteq Backups /\ loosest' \in Rules
BY LooserRules DEF Chooses, TypeOK

LEMMA RetentionType ==
    ASSUME TypeOK, NEW p \in Backups \cup Passes,
           NEW st \in [Backups -> Statuses], NEW pt \in [Backups -> SUBSET Targets],
           ApplyRetention(p, st, pt)
    PROVE  /\ status' \in [Backups -> Statuses]
           /\ pass' \in [Backups \cup Passes -> PassType]
           /\ retired' \subseteq Backups /\ loosest' \in Rules
<1>1. CASE Evaluates(policy)
  <2>1. PICK keep \in Rules :
          GoOn(p, Superseded(st, keep), st, pt) /\ Chooses(Superseded(st, keep), keep)
    BY <1>1, RulesRead
  <2>2. Superseded(st, keep) \in SUBSET Backups
    BY DEF Superseded
  <2>3. QED
    BY <2>1, <2>2, GoOnType, ChoicesType
<1>2. CASE ~Evaluates(policy)
  BY <1>2 DEF ApplyRetention, TypeOK, choices
<1>3. QED
  BY <1>1, <1>2

LEMMA TypeInit == Init => TypeOK
<1> SUFFICES ASSUME Init PROVE TypeOK
  OBVIOUS
<1>1. policy \in Policies \cup {NoPolicy, NoJob} /\ jobKey \in Keys \cup {Plain}
  BY ParametersMakeSense DEF Init
<1>2. [whole |-> TRUE, key |-> Plain] \in Contents
  BY DEF Contents
<1>3. 0 \in 0..MaxOps /\ 0 \in 0..MaxFaults
  BY BoundsAreNumbers
<1>4. [last |-> NumBackups, since |-> [P \in Periods |-> 0]] \in Rules
  BY BoundsAreNumbers DEF Rules
<1>5. QED
  BY <1>1, <1>2, <1>3, <1>4 DEF Init, TypeOK, Statuses, NoPass, NoVerify, NoDelete,
     NoRotation, PassType, VerifyType, DeleteType, RotationType

LEMMA RequestType == ASSUME TypeOK, Request PROVE ops' \in 0..MaxOps /\ faults' \in 0..MaxFaults
  BY BoundsAreNumbers DEF TypeOK, Request

LEMMA FaultType == ASSUME TypeOK, Fault PROVE ops' \in 0..MaxOps /\ faults' \in 0..MaxFaults
  BY BoundsAreNumbers DEF TypeOK, Fault

LEMMA DeletesType ==
    ASSUME TypeOK, NEW b, NEW t, NEW ok, Deletes(b, t, ok)
    PROVE  store' \in [Backups -> [Targets -> Contents \cup {Damaged, Gone}]]
  BY DEF TypeOK, Deletes

LEMMA NewKeyType ==
    ASSUME TypeOK, NEW k \in Keys \cup {Plain}, NEW done, NEW failed, NewKey(k, done, failed)
    PROVE  jobKey' \in Keys \cup {Plain}
  BY DEF TypeOK, NewKey

LEMMA RotationStepType ==
    ASSUME TypeOK, rot.at # "idle", NEW c \in Backups \X Targets,
           NEW done \in SUBSET (Backups \X Targets), NEW failed \in BOOLEAN,
           RotationGoesOn(c, done, failed)
    PROVE  /\ jobKey' \in Keys \cup {Plain}
           /\ rot' \in RotationType
<1>1. rot.new \in Keys \cup {Plain} /\ rot \in RotationType
  BY DEF TypeOK, RotationType
<1>2. CASE rot.left = {c}
  <2>1. rot' = NoRotation /\ NewKey(rot.new, done, failed)
    BY <1>2 DEF RotationGoesOn
  <2>2. jobKey' \in Keys \cup {Plain}
    BY <1>1, <2>1, NewKeyType
  <2>3. NoRotation \in RotationType
    BY DEF NoRotation, RotationType
  <2>4. QED
    BY <2>1, <2>2, <2>3
<1>3. CASE rot.left # {c}
  <2>1. /\ rot' = [rot EXCEPT !.left = @ \ {c}, !.done = done, !.failed = failed, !.at = "read"]
        /\ jobKey' = jobKey
    BY <1>3 DEF RotationGoesOn
  <2>2. rot' \in RotationType
    BY <1>1, <2>1 DEF RotationType
  <2>3. QED
    BY <2>1, <2>2 DEF TypeOK
<1>4. QED
  BY <1>2, <1>3
-----------------------------------------------------------------------------
(* Each action, on the variables it changes. *)

LEMMA RunTypes ==
    ASSUME TypeOK, NEW b \in Backups,
           StartBackup(b) \/ StartFails(b) \/ DumpEnds(b) \/ DumpFails(b)
    PROVE  TypeOK'
<1> USE DEF catalog, jobFile, runs, bounds, history, choices
<1>1. jobKey \in Keys \cup {Plain} /\ dump \in [Backups -> Contents] /\ dump[b] \in Contents
  BY DEF TypeOK
<1>2. [dump EXCEPT ![b].key = jobKey] \in [Backups -> Contents]
  BY <1>1 DEF Contents
<1>3. ASSUME NEW whole \in BOOLEAN PROVE [dump EXCEPT ![b].whole = whole] \in [Backups -> Contents]
  BY <1>1 DEF Contents
<1>4. ASSUME NEW s \in Statuses, SetStatus(b, s) PROVE status' \in [Backups -> Statuses]
  BY <1>4 DEF SetStatus, TypeOK
<1>5. CASE StartBackup(b)
  <2>1. status' \in [Backups -> Statuses]
    BY <1>4, <1>5 DEF StartBackup, Statuses
  <2>2. dump' \in [Backups -> Contents]
    BY <1>2, <1>5 DEF StartBackup
  <2>3. phase' \in [Backups -> {"idle", "dumping", "writing"}]
    BY <1>5 DEF StartBackup, TypeOK
  <2>4. UNCHANGED <<paths, sum, restored, jobFile, store, unwritten, written, pass, verify, del,
                    restore, rot, bounds, history>>
    BY <1>5 DEF StartBackup
  <2>5. QED
    BY <2>1, <2>2, <2>3, <2>4 DEF TypeOK
<1>6. CASE StartFails(b)
  <2>1. status' \in [Backups -> Statuses]
    BY <1>4, <1>6 DEF StartFails, Statuses
  <2>2. dump' \in [Backups -> Contents]
    BY <1>2, <1>6 DEF StartFails
  <2>3. UNCHANGED <<paths, sum, restored, jobFile, store, phase, unwritten, written, pass, verify,
                    del, restore, rot, bounds, history>>
    BY <1>6 DEF StartFails
  <2>4. QED
    BY <2>1, <2>2, <2>3 DEF TypeOK
<1>7. CASE DumpEnds(b)
  <2>1. dump' \in [Backups -> Contents]
    BY <1>3, <1>7 DEF DumpEnds
  <2>2. /\ phase' \in [Backups -> {"idle", "dumping", "writing"}]
        /\ unwritten' \in [Backups -> SUBSET Targets]
    BY <1>7 DEF DumpEnds, TypeOK
  <2>3. UNCHANGED <<written, catalog, jobFile, store, pass, verify, del, restore, rot, bounds, history>>
    BY <1>7 DEF DumpEnds
  <2>4. QED
    BY <2>1, <2>2, <2>3 DEF TypeOK
<1>8. CASE DumpFails(b)
  <2>1. status' \in [Backups -> Statuses]
    BY <1>4, <1>8 DEF DumpFails, Statuses
  <2>2. phase' \in [Backups -> {"idle", "dumping", "writing"}]
    BY <1>8 DEF DumpFails, TypeOK
  <2>3. UNCHANGED <<paths, sum, restored, jobFile, store, dump, unwritten, written, pass, verify,
                    del, restore, rot, bounds, history>>
    BY <1>8 DEF DumpFails
  <2>4. QED
    BY <2>1, <2>2, <2>3 DEF TypeOK
<1>9. QED
  BY <1>5, <1>6, <1>7, <1>8

LEMMA WriteTypes ==
    ASSUME TypeOK, BackupInv, NEW b \in Backups, Writes(b)
    PROVE  TypeOK'
<1> USE DEF catalog, jobFile, runs, bounds, history, choices
<1> DEFINE t == First(unwritten[b])
<1>1. PICK ok \in BOOLEAN :
        /\ store' = IF ok THEN [store EXCEPT ![b][t] = dump[b]] ELSE store
        /\ unwritten' = [unwritten EXCEPT ![b] = @ \ {t}]
        /\ IF unwritten[b] = {t}
           THEN /\ Completes(b, Okay(b, t, ok))
                /\ phase' = [phase EXCEPT ![b] = "idle"]
                /\ written' = [written EXCEPT ![b] = {}]
           ELSE /\ written' = [written EXCEPT ![b] = Okay(b, t, ok)]
                /\ UNCHANGED <<status, paths, sum, pass, phase, choices>>
  BY DEF Writes
<1>2. UNCHANGED <<restored, jobFile, dump, verify, del, restore, rot, bounds, asked>>
  BY DEF Writes
<1>3. t \in Targets
  <2>1. unwritten[b] # {} /\ unwritten[b] \in SUBSET Targets
    BY DEF Writes, BackupInv, RunInv, TypeOK
  <2>2. unwritten[b] \in SUBSET Nat
    BY <2>1 DEF Targets
  <2>3. QED
    BY <2>1, <2>2, FirstIn
<1> HIDE DEF t
<1>4. dump[b] \in Contents
  BY DEF TypeOK
<1>5. store' \in [Backups -> [Targets -> Contents \cup {Damaged, Gone}]]
  BY <1>1, <1>4 DEF TypeOK
<1>6. unwritten' \in [Backups -> SUBSET Targets]
  BY <1>1 DEF TypeOK
<1>7. Okay(b, t, ok) \in SUBSET Targets
  BY <1>3 DEF Okay, TypeOK
<1>8. CASE unwritten[b] = {t}
  <2>1. /\ paths' = [paths EXCEPT ![b] = Okay(b, t, ok)]
        /\ sum' = [sum EXCEPT ![b] = dump[b]]
        /\ ApplyRetention(b, [status EXCEPT ![b] = "completed"],
                          [paths EXCEPT ![b] = Okay(b, t, ok)])
    BY <1>1, <1>8 DEF Completes, SumOf
  <2>2. /\ [status EXCEPT ![b] = "completed"] \in [Backups -> Statuses]
        /\ [paths EXCEPT ![b] = Okay(b, t, ok)] \in [Backups -> SUBSET Targets]
    BY <1>7 DEF TypeOK, Statuses
  <2>3. /\ status' \in [Backups -> Statuses] /\ pass' \in [Backups \cup Passes -> PassType]
        /\ retired' \subseteq Backups /\ loosest' \in Rules
    BY <2>1, <2>2, RetentionType
  <2>4. paths' \in [Backups -> SUBSET Targets] /\ sum' \in [Backups -> Contents \cup {NoSum}]
    BY <1>4, <2>1, <2>2 DEF TypeOK
  <2>5. /\ written' \in [Backups -> SUBSET Targets]
        /\ phase' \in [Backups -> {"idle", "dumping", "writing"}]
    BY <1>1, <1>8 DEF TypeOK
  <2>6. QED
    BY <1>2, <1>5, <1>6, <2>3, <2>4, <2>5 DEF TypeOK
<1>9. CASE unwritten[b] # {t}
  <2>1. /\ written' = [written EXCEPT ![b] = Okay(b, t, ok)]
        /\ UNCHANGED <<status, paths, sum, pass, phase, choices>>
    BY <1>1, <1>9
  <2>2. written' \in [Backups -> SUBSET Targets]
    BY <1>7, <2>1 DEF TypeOK
  <2>3. QED
    BY <1>2, <1>5, <1>6, <2>1, <2>2 DEF TypeOK
<1>10. QED
  BY <1>8, <1>9

LEMMA PassTypes ==
    ASSUME TypeOK, NEW p \in Backups \cup Passes, PassDeletes(p)
    PROVE  TypeOK'
<1> USE DEF catalog, jobFile, runs, bounds, history, choices
<1> DEFINE b == Newest(pass[p].chosen)
           t == First(pass[p].left)
           left == pass[p].left \ {t}
<1>1. PICK ok \in BOOLEAN :
        /\ Deletes(b, t, ok)
        /\ IF left # {}
           THEN /\ pass' = [pass EXCEPT ![p] = [chosen |-> @.chosen, left |-> left,
                                                clean |-> @.clean /\ ok]]
                /\ UNCHANGED status
           ELSE GoOn(p, pass[p].chosen \ {b},
                     [status EXCEPT ![b] = Verdict(pass[p].clean /\ ok)],
                     paths)
  BY DEF PassDeletes
<1>2. UNCHANGED <<paths, sum, restored, jobFile, runs, verify, del, restore, rot, bounds, history>>
  BY DEF PassDeletes
<1>3. store' \in [Backups -> [Targets -> Contents \cup {Damaged, Gone}]]
  BY <1>1, DeletesType
<1>4. pass[p] \in PassType /\ pass \in [Backups \cup Passes -> PassType]
  BY DEF TypeOK
<1>5. left \in SUBSET Targets
  BY <1>4 DEF PassType
<1> HIDE DEF b, t, left
<1>6. CASE left # {}
  <2> DEFINE q == [chosen |-> pass[p].chosen, left |-> left,
                   clean |-> pass[p].clean /\ ok]
  <2>1. pass' = [pass EXCEPT ![p] = q]
    BY <1>1, <1>6
  <2>3. q \in PassType
    BY <1>4, <1>5 DEF PassType
  <2> HIDE DEF q
  <2>4. pass' \in [Backups \cup Passes -> PassType]
    BY <1>4, <2>1, <2>3
  <2>5. QED
    BY <1>1, <1>2, <1>3, <1>6, <2>4 DEF TypeOK
<1>7. CASE left = {}
  <2>1. [status EXCEPT ![b] = Verdict(pass[p].clean /\ ok)] \in [Backups -> Statuses]
    BY DEF Verdict, TypeOK, Statuses
  <2>2. pass[p].chosen \ {b} \in SUBSET Backups 
    BY <1>4 DEF PassType
  <2>3. paths \in [Backups -> SUBSET Targets]
    BY DEF TypeOK
  <2>4. status' \in [Backups -> Statuses] /\ pass' \in [Backups \cup Passes -> PassType]
    BY <1>1, <1>7, <2>1, <2>2, <2>3, GoOnType
  <2>5. QED
    BY <1>2, <1>3, <2>4 DEF TypeOK
<1>8. QED
  BY <1>6, <1>7

LEMMA VerifyTypes ==
    ASSUME TypeOK, NEW v \in Verifiers,
           (\E b \in Backups : VerifyStarts(v, b)) \/ VerifyDownloads(v) \/ VerifyLists(v)
    PROVE  TypeOK'
<1> USE DEF catalog, jobFile, runs, bounds, history, choices
<1>1. verify \in [Verifiers -> VerifyType] /\ verify[v] \in VerifyType
  BY DEF TypeOK
<1>2. ASSUME NEW b, NEW s \in Statuses, SetStatus(b, s) PROVE status' \in [Backups -> Statuses]
  BY <1>2 DEF SetStatus, TypeOK
<1>3. ASSUME NEW s \in Statuses, VerifyEnds(v, s)
      PROVE  status' \in [Backups -> Statuses] /\ verify' \in [Verifiers -> VerifyType]
  <2>1. NoVerify \in VerifyType
    BY DEF NoVerify, VerifyType
  <2>2. QED
    BY <1>1, <1>2, <1>3, <2>1 DEF VerifyEnds
<1>4. "corrupted" \in Statuses /\ "verified" \in Statuses
  BY DEF Statuses
<1>5. ASSUME NEW b \in Backups, VerifyStarts(v, b) PROVE TypeOK'
  <2>1. ops' \in 0..MaxOps /\ faults' \in 0..MaxFaults
    BY <1>5, RequestType DEF VerifyStarts
  <2>2. status' \in [Backups -> Statuses]
    BY <1>2, <1>4, <1>5 DEF VerifyStarts, TypeOK
  <2>3. [of |-> b, at |-> "download"] \in VerifyType
    BY DEF VerifyType
  <2>4. verify' \in [Verifiers -> VerifyType]
    BY <1>1, <1>5, <2>3 DEF VerifyStarts
  <2>5. UNCHANGED <<paths, sum, restored, jobFile, store, runs, pass, del, restore, rot, history>>
    BY <1>5 DEF VerifyStarts
  <2>6. QED
    BY <2>1, <2>2, <2>4, <2>5 DEF TypeOK
<1>6. CASE VerifyDownloads(v) \/ VerifyLists(v)
  <2>1. \/ VerifyEnds(v, "corrupted") \/ VerifyEnds(v, "verified")
        \/ verify' = [verify EXCEPT ![v].at = "list"] /\ UNCHANGED status
    BY <1>6 DEF VerifyDownloads, VerifyLists
  <2>2. [verify EXCEPT ![v].at = "list"] \in [Verifiers -> VerifyType]
    BY <1>1 DEF VerifyType
  <2>3. status' \in [Backups -> Statuses] /\ verify' \in [Verifiers -> VerifyType]
    <3>1. CASE VerifyEnds(v, "corrupted")
      BY <1>3, <1>4, <3>1
    <3>2. CASE VerifyEnds(v, "verified")
      BY <1>3, <1>4, <3>2
    <3>3. CASE verify' = [verify EXCEPT ![v].at = "list"] /\ UNCHANGED status
      BY <2>2, <3>3 DEF TypeOK
    <3>4. QED
      BY <2>1, <3>1, <3>2, <3>3
  <2>4. UNCHANGED <<paths, sum, restored, jobFile, store, runs, pass, del, restore, rot, bounds, history>>
    BY <1>6 DEF VerifyDownloads, VerifyLists
  <2>5. QED
    BY <2>3, <2>4 DEF TypeOK
<1>7. QED
  BY <1>5, <1>6

LEMMA DeleteTypes ==
    ASSUME TypeOK, NEW d \in Deleters,
           (\E b \in Backups : DeleteStarts(d, b)) \/ DeleteGoesOn(d)
    PROVE  TypeOK'
<1> USE DEF catalog, jobFile, runs, bounds, history, choices
<1>1. del \in [Deleters -> DeleteType] /\ del[d] \in DeleteType
  BY DEF TypeOK
<1>2. ASSUME NEW b \in Backups, DeleteStarts(d, b) PROVE TypeOK'
  <2>1. ops' \in 0..MaxOps /\ faults' \in 0..MaxFaults
    BY <1>2, RequestType DEF DeleteStarts
  <2>2. status' \in [Backups -> Statuses]
    BY <1>2 DEF DeleteStarts, SetStatus, TypeOK, Statuses
  <2>3. [of |-> b, left |-> paths[b], clean |-> TRUE] \in DeleteType
    BY DEF DeleteType, TypeOK
  <2>4. del' \in [Deleters -> DeleteType]
    BY <1>1, <1>2, <2>3 DEF DeleteStarts
  <2>5. /\ UNCHANGED <<paths, sum, restored, jobFile, store, runs, pass, verify, restore, rot, choices>>
        /\ asked' \subseteq Backups
    BY <1>2 DEF DeleteStarts, TypeOK
  <2>6. QED
    BY <2>1, <2>2, <2>4, <2>5 DEF TypeOK
<1>3. CASE DeleteGoesOn(d)
  <2>1. PICK t \in del[d].left, ok \in BOOLEAN :
          /\ Deletes(del[d].of, t, ok)
          /\ IF del[d].left = {t}
             THEN /\ SetStatus(del[d].of, Verdict(del[d].clean /\ ok))
                  /\ del' = [del EXCEPT ![d] = NoDelete]
             ELSE /\ del' = [del EXCEPT ![d] = [of |-> @.of, left |-> @.left \ {t},
                                                clean |-> @.clean /\ ok]]
                  /\ UNCHANGED status
    BY <1>3 DEF DeleteGoesOn
  <2>2. store' \in [Backups -> [Targets -> Contents \cup {Damaged, Gone}]]
    BY <2>1, DeletesType
  <2>3. status' \in [Backups -> Statuses]
    BY <2>1 DEF SetStatus, Verdict, TypeOK, Statuses
  <2>4. del' \in [Deleters -> DeleteType]
    <3>1. NoDelete \in DeleteType
      BY DEF NoDelete, DeleteType
    <3>2. CASE del[d].left = {t}
      BY <1>1, <2>1, <3>1, <3>2
    <3>3. CASE del[d].left # {t}
      <4> DEFINE q == [of |-> del[d].of, left |-> del[d].left \ {t}, clean |-> del[d].clean /\ ok]
      <4>1. del' = [del EXCEPT ![d] = q]
        BY <2>1, <3>3
      <4>2. q \in DeleteType
        BY <1>1 DEF DeleteType
      <4> HIDE DEF q
      <4>3. QED
        BY <1>1, <4>1, <4>2
    <3>4. QED
      BY <3>2, <3>3
  <2>5. UNCHANGED <<paths, sum, restored, jobFile, runs, pass, verify, restore, rot, bounds, history>>
    BY <1>3 DEF DeleteGoesOn
  <2>6. QED
    BY <2>2, <2>3, <2>4, <2>5 DEF TypeOK
<1>4. QED
  BY <1>2, <1>3

LEMMA RestoreTypes ==
    ASSUME TypeOK, NEW b \in Backups,
           RestoreStarts(b) \/ RestoreDownloads(b) \/ RestoreFails(b) \/ RestoreLoads(b)
    PROVE  TypeOK'
<1> USE DEF catalog, jobFile, runs, bounds, history, choices
<1>1. restore' \in [Backups -> {"idle", "download", "load"}]
  BY DEF RestoreStarts, RestoreDownloads, RestoreFails, RestoreLoads, TypeOK
<1>2. restored' \in [Backups -> BOOLEAN]
  BY DEF RestoreStarts, RestoreDownloads, RestoreFails, RestoreLoads, TypeOK
<1>3. ops' \in 0..MaxOps /\ faults' \in 0..MaxFaults
  <2>1. CASE RestoreStarts(b)
    BY <2>1, RequestType DEF RestoreStarts
  <2>2. CASE ~RestoreStarts(b)
    BY <2>2 DEF RestoreDownloads, RestoreFails, RestoreLoads, TypeOK
  <2>3. QED
    BY <2>1, <2>2
<1>4. UNCHANGED <<status, paths, sum, jobFile, store, runs, pass, verify, del, rot, history>>
  BY DEF RestoreStarts, RestoreDownloads, RestoreFails, RestoreLoads
<1>5. QED
  BY <1>1, <1>2, <1>3, <1>4 DEF TypeOK

LEMMA RotationTypes ==
    ASSUME TypeOK, BackupInv,
           (\E old, new \in Keys : RotateStarts(old, new)) \/ RotationReads \/ RotationWrites
    PROVE  TypeOK'
<1> USE DEF catalog, jobFile, runs, bounds, history, choices
<1>1. ASSUME NEW old \in Keys, NEW new \in Keys, RotateStarts(old, new) PROVE TypeOK'
  <2>1. Rotatable \in SUBSET (Backups \X Targets)
    BY DEF Rotatable, Copies
  <2>2. ops' \in 0..MaxOps /\ faults' \in 0..MaxFaults
    BY <1>1, RequestType DEF RotateStarts
  <2>3. [at |-> "read", left |-> Rotatable, done |-> {}, failed |-> FALSE,
         old |-> old, new |-> new] \in RotationType
    BY <2>1 DEF RotationType
  <2>4. rot' \in RotationType
    BY <1>1, <2>3 DEF RotateStarts, TypeOK
  <2>5. jobKey' \in Keys \cup {Plain}
    BY <1>1, NewKeyType DEF RotateStarts, TypeOK
  <2>6. UNCHANGED <<catalog, policy, store, runs, pass, verify, del, restore, history>>
    BY <1>1 DEF RotateStarts
  <2>7. QED
    BY <2>2, <2>4, <2>5, <2>6 DEF TypeOK
<1>2. ASSUME rot.at # "idle" PROVE NextCopy(rot.left) \in Backups \X Targets
  <2>1. rot.left # {} /\ rot.left \in SUBSET (Backups \X Targets)
    BY <1>2 DEF BackupInv, RotationInv, TypeOK, RotationType
  <2>2. QED
    BY <2>1, NextCopyIn
<1>3. rot \in RotationType /\ rot.done \in SUBSET (Backups \X Targets) /\ rot.failed \in BOOLEAN
  BY DEF TypeOK, RotationType
<1>4. CASE RotationReads
  <2>1. rot.at # "idle"
    BY <1>4 DEF RotationReads
  <2>2. \/ rot' = [rot EXCEPT !.at = "write"] /\ UNCHANGED jobKey
        \/ RotationGoesOn(NextCopy(rot.left), rot.done, TRUE)
    BY <1>4 DEF RotationReads
  <2>3. UNCHANGED <<catalog, policy, store, runs, pass, verify, del, restore, bounds, history>>
    BY <1>4 DEF RotationReads
  <2>4. CASE rot' = [rot EXCEPT !.at = "write"] /\ UNCHANGED jobKey
    <3>1. rot' \in RotationType
      BY <1>3, <2>4 DEF RotationType
    <3>2. QED
      BY <2>3, <2>4, <3>1 DEF TypeOK
  <2>5. CASE RotationGoesOn(NextCopy(rot.left), rot.done, TRUE)
    <3>1. jobKey' \in Keys \cup {Plain} /\ rot' \in RotationType
      BY <1>2, <1>3, <2>1, <2>5, RotationStepType
    <3>2. QED
      BY <2>3, <3>1 DEF TypeOK
  <2>6. QED
    BY <2>2, <2>4, <2>5
<1>5. CASE RotationWrites
  <2>1. rot.at # "idle"
    BY <1>5 DEF RotationWrites
  <2>2. rot.done \cup {NextCopy(rot.left)} \in SUBSET (Backups \X Targets)
    BY <1>2, <1>3, <2>1
  <2>3. RotationGoesOn(NextCopy(rot.left), rot.done \cup {NextCopy(rot.left)}, rot.failed)
    BY <1>5 DEF RotationWrites
  <2>4. jobKey' \in Keys \cup {Plain} /\ rot' \in RotationType
    BY <1>2, <1>3, <2>1, <2>2, <2>3, RotationStepType
  <2>5. UNCHANGED <<catalog, policy, store, runs, pass, verify, del, restore, bounds, history>>
    BY <1>5 DEF RotationWrites, Rewritten
  <2>6. QED
    BY <2>4, <2>5 DEF TypeOK
<1>6. QED
  BY <1>1, <1>4, <1>5

LEMMA OtherTypes ==
    ASSUME TypeOK,
           \/ \E p \in Passes : UserRetention(p)
           \/ EditJob
           \/ \E b \in Backups, t \in Targets : Damage(b, t)
           \/ Crash
    PROVE  TypeOK'
<1> USE DEF catalog, jobFile, runs, bounds, history, choices
<1>1. ASSUME NEW p \in Passes, UserRetention(p) PROVE TypeOK'
  <2>1. /\ status' \in [Backups -> Statuses] /\ pass' \in [Backups \cup Passes -> PassType]
        /\ retired' \subseteq Backups /\ loosest' \in Rules
    BY <1>1, RetentionType DEF UserRetention, TypeOK
  <2>2. ops' \in 0..MaxOps /\ faults' \in 0..MaxFaults
    BY <1>1, RequestType DEF UserRetention
  <2>3. UNCHANGED <<paths, sum, restored, jobFile, store, runs, verify, del, restore, rot, asked>>
    BY <1>1 DEF UserRetention
  <2>4. QED
    BY <2>1, <2>2, <2>3 DEF TypeOK
<1>2. CASE EditJob
  <2>1. ops' \in 0..MaxOps /\ faults' \in 0..MaxFaults
    BY <1>2, RequestType DEF EditJob
  <2>2. /\ policy' \in Policies \cup {NoPolicy, NoJob}
        /\ jobKey' \in Keys \cup {Plain}
    BY <1>2 DEF EditJob, TypeOK
  <2>3. UNCHANGED <<catalog, store, runs, pass, verify, del, restore, rot, history>>
    BY <1>2 DEF EditJob
  <2>4. QED
    BY <2>1, <2>2, <2>3 DEF TypeOK
<1>3. ASSUME NEW b \in Backups, NEW t \in Targets, Damage(b, t) PROVE TypeOK'
  <2>1. ops' \in 0..MaxOps /\ faults' \in 0..MaxFaults
    BY <1>3, FaultType DEF Damage
  <2>2. store' \in [Backups -> [Targets -> Contents \cup {Damaged, Gone}]]
    BY <1>3 DEF Damage, TypeOK
  <2>3. UNCHANGED <<catalog, jobFile, runs, pass, verify, del, restore, rot, history>>
    BY <1>3 DEF Damage
  <2>4. QED
    BY <2>1, <2>2, <2>3 DEF TypeOK
<1>4. CASE Crash
  <2>1. ops' \in 0..MaxOps /\ faults' \in 0..MaxFaults
    BY <1>4, FaultType DEF Crash
  <2>2. /\ phase' \in [Backups -> {"idle", "dumping", "writing"}]
        /\ unwritten' \in [Backups -> SUBSET Targets]
        /\ written' \in [Backups -> SUBSET Targets]
        /\ restore' \in [Backups -> {"idle", "download", "load"}]
    BY <1>4 DEF Crash
  <2>3. /\ NoPass \in PassType /\ NoVerify \in VerifyType
        /\ NoDelete \in DeleteType /\ NoRotation \in RotationType
    BY DEF NoPass, NoVerify, NoDelete, NoRotation, PassType, VerifyType,
       DeleteType, RotationType
  <2>4. /\ pass' \in [Backups \cup Passes -> PassType]
        /\ verify' \in [Verifiers -> VerifyType]
        /\ del' \in [Deleters -> DeleteType]
        /\ rot' \in RotationType
    BY <1>4, <2>3 DEF Crash
  <2>5. UNCHANGED <<catalog, jobFile, store, dump, history>>
    BY <1>4 DEF Crash, TypeOK
  <2>6. QED
    BY <2>1, <2>2, <2>4, <2>5 DEF TypeOK
<1>5. QED
  BY <1>1, <1>2, <1>3, <1>4

LEMMA TypeStep ==
    ASSUME TypeOK, BackupInv, [Next]_vars
    PROVE  TypeOK'
<1>1. CASE UNCHANGED vars
  BY <1>1 DEF vars, catalog, jobFile, runs, bounds, history, choices, TypeOK
<1>2. QED
  BY <1>1, RunTypes, WriteTypes, PassTypes, VerifyTypes, DeleteTypes, RestoreTypes,
     RotationTypes, OtherTypes DEF Next

-----------------------------------------------------------------------------
(***************************************************************************)
(* The safety of the backup engine.  What a step may do to a backup that   *)
(* has completed, to the deletions under way, to the statuses and to what  *)
(* retention has chosen is shown action by action (Steps); the properties  *)
(* follow from that alone.                                                 *)
(***************************************************************************)

Holders == Backups \cup Passes

\* What happens to a completed backup: its paths and its checksum stay, what
\* is gone stays gone, and a copy is removed only of what a pass has chosen or
\* an operator has asked for.
KeepsCompleted ==
    \A b \in Completed :
        /\ paths'[b] = paths[b] /\ sum'[b] = sum[b]
        /\ \A t \in Targets :
              /\ store[b][t] = Gone => store'[b][t] = Gone
              /\ store'[b][t] \in {store[b][t], Gone, Damaged}
              /\ store'[b][t] = Gone => store[b][t] = Gone \/ b \in retired \cup asked

\* What is recorded as deleted was before, or nothing is left of it.
HonestStatus ==
    \A b \in Backups :
        status'[b] = "deleted" =>
            (status[b] = "deleted" /\ b \in Completed) \/ \A t \in paths'[b] : store'[b][t] = Gone

\* What passes and operators have chosen is not forgotten; what a pass
\* chooses now is outlived by what has completed, by rules no stricter than
\* those of any pass before.
Retires ==
    /\ retired \subseteq retired' /\ asked \subseteq asked'
    /\ \A p \in Holders : pass'[p].chosen \subseteq retired'
    /\ \A d \in Deleters : del'[d].left # {} => del'[d].of \in asked'
    /\ \A b \in retired' \ retired : b \in Completed' /\ Outlived(Completed', b, loosest')
    /\ loosest'.last <= loosest.last
    /\ \A P \in Periods : loosest'.since[P] >= loosest.since[P]

\* A backup that has not completed gets its paths and its checksum together,
\* from what it has written.
Finishes(b) ==
    /\ sum'[b] \in Contents
    /\ \A t \in paths'[b] : store'[b][t] \in {sum'[b], Damaged}

CompletesWell ==
    \A b \in Backups \ Completed : (paths'[b] = {} /\ sum'[b] = NoSum) \/ Finishes(b)

Steps == KeepsCompleted /\ HonestStatus /\ Retires /\ CompletesWell
-----------------------------------------------------------------------------
(* From the facts of a step to the properties. *)

LEMMA ChecksumStep == ASSUME TypeOK, TypeOK', Steps, ChecksumMatches PROVE ChecksumMatches'
<1> SUFFICES ASSUME NEW b \in Backups, NEW t \in paths'[b]
             PROVE  sum'[b] # NoSum /\ store'[b][t] \in {sum'[b], Gone, Damaged}
  BY DEF ChecksumMatches
<1>1. t \in Targets
  BY DEF TypeOK
<1>2. CASE b \in Completed
  BY <1>1, <1>2 DEF Steps, KeepsCompleted, ChecksumMatches, Completed
<1>3. CASE b \notin Completed
  BY <1>3, MarksAreNotContents DEF Steps, CompletesWell, Finishes
<1>4. QED
  BY <1>2, <1>3

LEMMA DeletedStep ==
    ASSUME TypeOK, TypeOK', Steps, DeletedMeansGone
    PROVE  DeletedMeansGone'
<1> SUFFICES ASSUME NEW b \in Backups, status'[b] = "deleted", NEW t \in paths'[b]
             PROVE  store'[b][t] = Gone
  BY DEF DeletedMeansGone
<1>1. t \in Targets
  BY DEF TypeOK
<1>2. CASE status[b] = "deleted" /\ b \in Completed
  BY <1>1, <1>2 DEF Steps, KeepsCompleted, DeletedMeansGone
<1>3. CASE ~(status[b] = "deleted" /\ b \in Completed)
  BY <1>3 DEF Steps, HonestStatus
<1>4. QED
  BY <1>2, <1>3

LEMMA MoreNewer ==
    ASSUME NEW A \in SUBSET Backups, NEW B \in SUBSET Backups, A \subseteq B, NEW b \in Backups
    PROVE  /\ Cardinality(Newer(A, b)) \in Nat /\ Cardinality(Newer(B, b)) \in Nat
           /\ Cardinality(Newer(A, b)) <= Cardinality(Newer(B, b))
<1>1. IsFiniteSet(Backups)
  BY FS_Interval, BoundsAreNumbers DEF Backups
<1>2. Newer(A, b) \in SUBSET Newer(B, b) /\ Newer(B, b) \in SUBSET Backups
  BY DEF Newer
<1>3. IsFiniteSet(Newer(B, b)) /\ IsFiniteSet(Newer(A, b))
  BY <1>1, <1>2, FS_Subset
<1>4. QED
  BY <1>2, <1>3, FS_Subset, FS_CardinalityType

LEMMA OutlivedByMore ==
    ASSUME NEW A \in SUBSET Backups, NEW B \in SUBSET Backups, A \subseteq B, NEW b \in Backups,
           NEW keep \in Rules, Outlived(A, b, keep)
    PROVE  Outlived(B, b, keep)
<1>1. Cardinality(Newer(B, b)) >= keep.last
  BY MoreNewer DEF Outlived, Rules
<1>2. Newer(A, b) \subseteq Newer(B, b)
  BY DEF Newer
<1>3. QED
  BY <1>1, <1>2 DEF Outlived

LEMMA OutlivedByLooser ==
    ASSUME NEW C \in SUBSET Backups, NEW b \in Backups, NEW k \in Rules, NEW l \in Rules,
           l.last <= k.last, \A P \in Periods : l.since[P] >= k.since[P], Outlived(C, b, k)
    PROVE  Outlived(C, b, l)
<1>1. Cardinality(Newer(C, b)) >= l.last
  BY MoreNewer DEF Outlived, Rules
<1>2. ASSUME NEW P \in Periods, b > l.since[P] PROVE \E c \in Newer(C, b) : P[c] = P[b]
  <2>1. b \in Nat /\ l.since[P] \in Nat /\ k.since[P] \in Nat /\ l.since[P] >= k.since[P]
    BY DEF Rules, Backups
  <2>2. b > k.since[P]
    BY <1>2, <2>1
  <2>3. QED
    BY <2>2 DEF Outlived
<1>3. QED
  BY <1>1, <1>2 DEF Outlived

(***************************************************************************)
(* If every backup of R is outlived by the backups C, then those of C that *)
(* are not in R are enough.  The newest of R has no newer one in R, and    *)
(* what outlives it outlives the others; for a rule by period the same     *)
(* holds of the newest of R in that period.                                *)
(***************************************************************************)
LEMMA OutlivedByRest ==
    ASSUME NEW C \in SUBSET Backups, NEW R \in SUBSET C, NEW keep \in Rules,
           \A b \in R : Outlived(C, b, keep), NEW b \in R
    PROVE  Outlived(C \ R, b, keep)
<1>1. b \in Backups /\ b \in Nat /\ R \in SUBSET Backups /\ C \ R \in SUBSET Backups
  BY DEF Backups
<1>2. Cardinality(Newer(C \ R, b)) >= keep.last
  <2>1. PICK m \in R : \A c \in R : c <= m
    BY <1>1, Greatest, BoundsAreNumbers DEF Backups
  <2>2. m \in Backups /\ m \in Nat /\ b <= m
    BY <1>1, <2>1 DEF Backups
  <2>3. Newer(C, m) \subseteq Newer(C \ R, b)
    <3>1. SUFFICES ASSUME NEW c \in C, c > m PROVE c \notin R /\ c > b
      BY DEF Newer
    <3>2. c \in Nat
      BY DEF Backups
    <3>3. QED
      BY <1>1, <2>1, <2>2, <3>1, <3>2
  <2>4. /\ Cardinality(Newer(C, m)) \in Nat /\ Cardinality(Newer(C \ R, b)) \in Nat
        /\ Cardinality(Newer(C, m)) <= Cardinality(Newer(C \ R, b))
    <3>1. Newer(C, m) = Newer(Newer(C, m), b)
      BY <1>1, <2>2, <2>3 DEF Newer, Backups
    <3>2. Newer(C, m) \in SUBSET Backups /\ Newer(C, m) \subseteq C \ R
      BY <2>3 DEF Newer
    <3>3. QED
      BY <1>1, <3>1, <3>2, MoreNewer
  <2>5. Cardinality(Newer(C, m)) >= keep.last /\ keep.last \in Nat
    BY <2>1 DEF Outlived, Rules
  <2>6. QED
    BY <2>4, <2>5
<1>3. ASSUME NEW P \in Periods, b > keep.since[P]
      PROVE  \E c \in Newer(C \ R, b) : P[c] = P[b]
  <2> DEFINE S == {c \in R : P[c] = P[b]}
  <2>1. PICK m \in S : \A c \in S : c <= m
    <3>1. S \in SUBSET (1..NumBackups) /\ b \in S
      BY <1>1 DEF Backups
    <3> HIDE DEF S
    <3>2. QED
      BY <3>1, Greatest, BoundsAreNumbers
  <2>2. b <= m /\ m \in R /\ m \in Nat /\ P[m] = P[b]
    BY <1>1, <2>1 DEF Backups
  <2>3. keep.since[P] \in Nat
    BY DEF Rules
  <2>4. m > keep.since[P]
    BY <1>1, <1>3, <2>2, <2>3
  <2>5. PICK c \in Newer(C, m) : P[c] = P[m]
    BY <2>2, <2>4 DEF Outlived
  <2>6. c \in C /\ c > m /\ c \in Nat
    BY DEF Newer, Backups
  <2>7. c \notin R
    BY <2>1, <2>2, <2>5, <2>6
  <2>8. c > b
    BY <1>1, <2>2, <2>6
  <2>9. QED
    BY <2>2, <2>5, <2>6, <2>7, <2>8 DEF Newer
<1>4. QED
  BY <1>2, <1>3 DEF Outlived

\* What is not retired nor asked for keeps its copies.
LEMMA RetiredStep ==
    ASSUME TypeOK, TypeOK', BackupInv, Steps
    PROVE  RetiredInv'
<1>1. retired \subseteq Completed /\ Completed \subseteq Completed'
  BY DEF Steps, KeepsCompleted, Completed, BackupInv, RetiredInv
<1>2. retired' \subseteq Completed'
  BY <1>1 DEF Steps, Retires
<1>3. ASSUME NEW c \in Completed', c \notin retired' \cup asked', NEW t \in paths'[c]
      PROVE  store'[c][t] # Gone
  <2>1. c \in Backups /\ t \in Targets /\ c \notin retired \cup asked /\ sum'[c] # NoSum
    BY <1>3 DEF Completed, TypeOK, Steps, Retires
  <2>2. CASE c \in Completed
    BY <1>3, <2>1, <2>2 DEF Steps, KeepsCompleted, BackupInv, RetiredInv
  <2>3. CASE c \notin Completed
    <3>1. Finishes(c)
      BY <2>1, <2>3 DEF Steps, CompletesWell
    <3>2. QED
      BY <3>1, MarksAreNotContents DEF Finishes
  <2>4. QED
    BY <2>2, <2>3
<1>4. QED
  BY <1>2, <1>3 DEF RetiredInv, Steps, Retires, Holders

LEMMA SparesStep ==
    ASSUME TypeOK, TypeOK', RetiredInv, RetiredInv', Steps, RetentionSparesNewest
    PROVE  RetentionSparesNewest'
<1>1. /\ Completed \in SUBSET Backups /\ Completed' \in SUBSET Backups
      /\ Completed \subseteq Completed'
  BY DEF Steps, KeepsCompleted, Completed
<1>2. /\ loosest \in Rules /\ loosest' \in Rules /\ retired' \in SUBSET Completed'
      /\ retired' \subseteq Backups
  BY DEF TypeOK, RetiredInv
<1>3. ASSUME NEW b \in retired' PROVE Outlived(Completed', b, loosest')
  <2>1. CASE b \in retired
    <3>1. Outlived(Spared, b, loosest) /\ Spared \subseteq Completed
      BY <2>1 DEF RetentionSparesNewest, Spared
    <3> HIDE DEF Spared
    <3>2. b \in Backups /\ Spared \in SUBSET Backups /\ Spared \subseteq Completed'
      BY <1>1, <1>2, <3>1
    <3>3. Outlived(Completed', b, loosest)
      BY <1>1, <1>2, <3>1, <3>2, OutlivedByMore
    <3>4. /\ loosest'.last <= loosest.last
          /\ \A P \in Periods : loosest'.since[P] >= loosest.since[P]
      BY DEF Steps, Retires
    <3>5. QED
      BY <1>1, <1>2, <3>2, <3>3, <3>4, OutlivedByLooser
  <2>2. CASE b \notin retired
    BY <2>2 DEF Steps, Retires
  <2>3. QED
    BY <2>1, <2>2
<1>4. \A b \in retired' : Outlived(Completed' \ retired', b, loosest')
  BY <1>1, <1>2, <1>3, OutlivedByRest
<1>5. Spared' = Completed' \ retired'
  BY DEF Spared, RetiredInv
<1>6. QED
  BY <1>4, <1>5 DEF RetentionSparesNewest, Outlived, Newer
-----------------------------------------------------------------------------
(* From the facts of a step to the inductive invariant. *)

\* A deletion that a step starts or carries on has left what it says.
Sound(b, left, clean) ==
    /\ left # {} /\ left \subseteq paths'[b]
    /\ clean => \A t \in paths'[b] \ left : store'[b][t] = Gone

SoundPasses ==
    \A p \in Holders :
        \/ pass'[p] = pass[p]
        \/ pass'[p].chosen # {} => Sound(Newest(pass'[p].chosen), pass'[p].left, pass'[p].clean)

SoundDeletes ==
    \A d \in Deleters :
        \/ del'[d] = del[d]
        \/ del'[d].left # {} => /\ del'[d].of \in Backups
                                /\ Sound(del'[d].of, del'[d].left, del'[d].clean)

\* No backup makes progress, and nobody takes one for completed that is not.
NoProgress ==
    /\ UNCHANGED <<paths, sum, dump>>
    /\ \A b \in Backups :
          \/ phase'[b] = phase[b] /\ unwritten'[b] = unwritten[b] /\ written'[b] = written[b]
          \/ phase'[b] = "idle" /\ written'[b] = {}
    /\ \A b \in Backups :
          /\ status'[b] = "none" => status[b] = "none"
          /\ status'[b] \in {"completed", "verified"} => status'[b] = status[b] \/ b \in Completed
    /\ \A b \in Backups \ Completed :
          pass'[b] = NoPass /\ \A t \in Targets : store'[b][t] \in {store[b][t], Damaged}

LEMMA DeletionStable ==
    ASSUME TypeOK, BackupInv, KeepsCompleted, NEW b \in Backups, NEW left, NEW clean,
           left # {}, DeletesFrom(b, left, clean)
    PROVE  Sound(b, left, clean)
<1>1. left \subseteq paths[b] /\ paths[b] # {} /\ paths[b] \subseteq Targets
  BY DEF DeletesFrom, TypeOK
<1>2. b \in Completed
  BY <1>1 DEF BackupInv, RunInv, Completed
<1>3. QED
  BY <1>1, <1>2 DEF KeepsCompleted, DeletesFrom, Sound

LEMMA DeletionStep ==
    ASSUME TypeOK, TypeOK', BackupInv, KeepsCompleted, SoundPasses, SoundDeletes
    PROVE  DeletionInv'
<1>1. ASSUME NEW p \in Holders, pass'[p].chosen # {}
      PROVE  Sound(Newest(pass'[p].chosen), pass'[p].left, pass'[p].clean)
  <2>1. CASE pass'[p] = pass[p]
    <3>1. pass[p].left # {} /\ DeletesFrom(Newest(pass[p].chosen), pass[p].left, pass[p].clean)
      BY <1>1, <2>1 DEF BackupInv, DeletionInv, Holders
    <3>2. pass[p].chosen \in SUBSET Backups /\ pass[p].chosen # {}
      BY <1>1, <2>1 DEF TypeOK, PassType, Holders
    <3>3. Newest(pass[p].chosen) \in Backups
      BY <3>2, NewestIn
    <3>4. QED
      BY <2>1, <3>1, <3>3, DeletionStable
  <2>2. CASE pass'[p] # pass[p]
    BY <1>1, <2>2 DEF SoundPasses
  <2>3. QED
    BY <2>1, <2>2
<1>2. ASSUME NEW d \in Deleters, del'[d].left # {}
      PROVE  del'[d].of \in Backups /\ Sound(del'[d].of, del'[d].left, del'[d].clean)
  <2>1. CASE del'[d] = del[d]
    <3>1. /\ del[d].left # {} /\ del[d].of \in Backups
          /\ DeletesFrom(del[d].of, del[d].left, del[d].clean)
      BY <1>2, <2>1 DEF BackupInv, DeletionInv
    <3>2. QED
      BY <2>1, <3>1, DeletionStable
  <2>2. CASE del'[d] # del[d]
    BY <1>2, <2>2 DEF SoundDeletes
  <2>3. QED
    BY <2>1, <2>2
<1>3. QED
  BY <1>1, <1>2 DEF DeletionInv, DeletesFrom, Sound, Holders, Newest

LEMMA RunStep ==
    ASSUME TypeOK, BackupInv, NoProgress
    PROVE  RunInv'
<1> SUFFICES ASSUME NEW b \in Backups
             PROVE /\ status'[b] = "none" => phase'[b] = "idle" /\ sum'[b] = NoSum
                   /\ phase'[b] # "idle" => sum'[b] = NoSum
                   /\ sum'[b] = NoSum => paths'[b] = {} /\ status'[b] \notin {"completed", "verified"}
                   /\ sum'[b] = NoSum => pass'[b] = NoPass
                   /\ phase'[b] # "writing" => written'[b] = {}
                   /\ phase'[b] = "writing" => unwritten'[b] # {}
                   /\ \A t \in written'[b] : store'[b][t] \in {dump'[b], Damaged}
  BY DEF RunInv, NoPass
<1>1. /\ status[b] = "none" => phase[b] = "idle" /\ sum[b] = NoSum
      /\ phase[b] # "idle" => sum[b] = NoSum
      /\ sum[b] = NoSum => paths[b] = {} /\ status[b] \notin {"completed", "verified"}
      /\ phase[b] # "writing" => written[b] = {}
      /\ phase[b] = "writing" => unwritten[b] # {}
      /\ \A t \in written[b] : store[b][t] \in {dump[b], Damaged}
  BY DEF BackupInv, RunInv
<1>2. written[b] \subseteq Targets /\ (b \in Completed <=> sum[b] # NoSum)
  BY DEF TypeOK, Completed
<1>3. \A t \in written'[b] : store'[b][t] \in {dump'[b], Damaged}
  <2>1. SUFFICES ASSUME NEW t \in written'[b] PROVE store'[b][t] \in {dump'[b], Damaged}
    OBVIOUS
  <2>2. t \in written[b] /\ t \in Targets
    BY <1>2, <2>1 DEF NoProgress
  <2>3. b \notin Completed
    BY <1>1, <1>2, <2>2
  <2>4. QED
    BY <1>1, <2>2, <2>3 DEF NoProgress
<1>4. QED
  BY <1>1, <1>2, <1>3 DEF NoProgress
-----------------------------------------------------------------------------
(* Retention. *)

\* What the loop of a pass over the backups B has done when it waits or ends.
LoopsOver(p, B, st, pt) ==
    /\ \A b \in Backups : status'[b] = st[b] \/ (status'[b] = "deleted" /\ b \in B /\ pt[b] = {})
    /\ \A q \in Holders \ {p} : pass'[q] = pass[q]
    /\ pass'[p].chosen \subseteq B
    /\ \A b \in B : b \in pass'[p].chosen \/ status'[b] = "deleted"
    /\ pass'[p].chosen # {} =>
          /\ pass'[p].left # {} /\ pass'[p].left = pt[Newest(pass'[p].chosen)]

LEMMA GoOnLoops ==
    ASSUME TypeOK, NEW p \in Holders, NEW B \in SUBSET Backups,
           NEW st \in [Backups -> Statuses], NEW pt \in [Backups -> SUBSET Targets],
           GoOn(p, B, st, pt)
    PROVE  LoopsOver(p, B, st, pt)
<1> DEFINE rest == B \ Passed(B, pt)
<1>1. /\ status' = [b \in Backups |-> IF b \in Passed(B, pt) THEN "deleted" ELSE st[b]]
      /\ pass' = [pass EXCEPT ![p] = IF rest = {} THEN NoPass
                                     ELSE [chosen |-> rest, left |-> pt[Newest(rest)],
                                           clean |-> TRUE]]
  BY DEF GoOn
<1>2. pass \in [Holders -> PassType]
  BY DEF TypeOK, Holders
<1>3. Passed(B, pt) \subseteq B /\ \A b \in Passed(B, pt) : pt[b] = {}
  <2>1. SUFFICES ASSUME NEW b \in Passed(B, pt), pt[b] # {} PROVE FALSE
    BY DEF Passed
  <2>2. b \in Stops(B, pt) /\ b \in Nat
    BY <2>1 DEF Passed, Stops, Backups
  <2>3. QED
    BY <2>1, <2>2 DEF Passed
<1>4. ASSUME rest # {} PROVE pt[Newest(rest)] # {}
  <2> DEFINE n == Newest(rest)
  <2>1. n \in rest /\ \A c \in rest : c <= n
    <3>1. rest \in SUBSET Backups
      OBVIOUS
    <3> HIDE DEF rest
    <3>2. QED
      BY <1>4, <3>1, NewestIn
  <2> HIDE DEF n
  <2>2. PICK s \in Stops(B, pt) : ~(s < n)
    BY <2>1 DEF Passed
  <2>3. s \in B /\ s \in Nat /\ n \in Nat /\ pt[s] # {}
    BY <2>1, <2>2 DEF Stops, Backups
  <2>4. s \in rest
    BY <2>3, <1>3
  <2>5. s <= n
    BY <2>1, <2>4
  <2>6. s = n
    BY <2>2, <2>3, <2>5
  <2>7. QED
    BY <2>3, <2>6 DEF n
<1>5. \A b \in Backups : status'[b] = st[b] \/ (status'[b] = "deleted" /\ b \in B /\ pt[b] = {})
  BY <1>1, <1>3
<1>6. \A q \in Holders \ {p} : pass'[q] = pass[q]
  BY <1>1, <1>2
<1>7. \A b \in B : b \in rest \/ status'[b] = "deleted"
  BY <1>1
<1>8. pass'[p] = IF rest = {} THEN NoPass ELSE [chosen |-> rest, left |-> pt[Newest(rest)],
                                                clean |-> TRUE]
  BY <1>1, <1>2
<1>9. rest \subseteq B
  OBVIOUS
<1> HIDE DEF rest
<1>10. QED
  BY <1>4, <1>5, <1>6, <1>7, <1>8, <1>9 DEF LoopsOver, NoPass

\* What is superseded has completed and is outlived by what has.
LEMMA SupersededSpares ==
    ASSUME NEW st \in [Backups -> Statuses], NEW keep \in Rules, NEW C \in SUBSET Backups,
           \A b \in Backups : st[b] \in {"completed", "verified"} => b \in C,
           NEW b \in Superseded(st, keep)
    PROVE  b \in Backups /\ Outlived(C, b, keep)
<1> DEFINE eligible == {c \in Backups : st[c] \in {"completed", "verified"}}
<1>1. b \in eligible /\ b \notin Kept(eligible, keep)
  BY DEF Superseded
<1>2. eligible \in SUBSET Backups /\ eligible \subseteq C /\ b \in Backups
  BY <1>1
<1> HIDE DEF eligible
<1>3. Cardinality(Newer(eligible, b)) >= keep.last
  <2>1. Cardinality(Newer(eligible, b)) \in Nat /\ keep.last \in Nat
    BY <1>2, MoreNewer DEF Rules
  <2>2. ~(Cardinality(Newer(eligible, b)) < keep.last)
    BY <1>1 DEF Kept, KeptLast
  <2>3. QED
    BY <2>1, <2>2
<1>4. ASSUME NEW P \in Periods, b > keep.since[P]
      PROVE  \E c \in Newer(eligible, b) : P[c] = P[b]
  <2>1. b \notin KeptByPeriod(eligible, P, keep.since[P])
    BY <1>1 DEF Kept
  <2>2. QED
    BY <1>1, <1>4, <2>1 DEF KeptByPeriod, Newer
<1>5. Outlived(eligible, b, keep)
  BY <1>3, <1>4 DEF Outlived
<1>6. QED
  BY <1>2, <1>5, OutlivedByMore

\* A pass that an operator or a completed backup begins.
Begins(p, st, pt) ==
    /\ \A b \in Backups : status'[b] = st[b] \/ (status'[b] = "deleted" /\ pt[b] = {}
                                                 /\ st[b] \in {"completed", "verified"})
    /\ \A q \in Holders \ {p} : pass'[q] = pass[q]
    /\ pass'[p] = pass[p] \/
          /\ pass'[p].chosen \subseteq retired'
          /\ pass'[p].chosen # {} =>
                pass'[p].left # {} /\ pass'[p].left = pt[Newest(pass'[p].chosen)]
    /\ retired \subseteq retired'
    /\ \A b \in retired' \ retired :
          /\ st[b] \in {"completed", "verified"}
          /\ \A C \in SUBSET Backups :
                (\A c \in Backups : st[c] \in {"completed", "verified"} => c \in C) =>
                    Outlived(C, b, loosest')
    /\ loosest'.last <= loosest.last
    /\ \A P \in Periods : loosest'.since[P] >= loosest.since[P]

LEMMA RetentionBegins ==
    ASSUME TypeOK, NEW p \in Holders,
           NEW st \in [Backups -> Statuses], NEW pt \in [Backups -> SUBSET Targets],
           ApplyRetention(p, st, pt)
    PROVE  Begins(p, st, pt)
<1>1. CASE Evaluates(policy)
  <2>1. PICK keep \in Rules :
          GoOn(p, Superseded(st, keep), st, pt) /\ Chooses(Superseded(st, keep), keep)
    BY <1>1, RulesRead
  <2> DEFINE B == Superseded(st, keep)
  <2>2. B \in SUBSET Backups /\ \A b \in B : st[b] \in {"completed", "verified"}
    BY DEF Superseded
  <2>3. LoopsOver(p, B, st, pt)
    BY <2>1, <2>2, GoOnLoops
  <2>4. retired' = retired \cup B /\ (loosest' = loosest \/ loosest' = Looser(loosest, keep))
    BY <2>1 DEF Chooses
  <2>5. loosest \in Rules /\ loosest' \in Rules
    BY <2>4, LooserRules DEF TypeOK
  <2>6. /\ loosest'.last <= loosest.last
        /\ \A P \in Periods : loosest'.since[P] >= loosest.since[P]
    BY <2>4, <2>5, LooserRules DEF Rules
  <2>7. ASSUME NEW b \in B, NEW C \in SUBSET Backups,
               \A c \in Backups : st[c] \in {"completed", "verified"} => c \in C
        PROVE  Outlived(C, b, loosest')
    <3>1. b \in Backups /\ Outlived(C, b, keep)
      BY <2>1, <2>7, SupersededSpares
    <3>2. loosest' = Looser(loosest, keep)
      BY <2>1 DEF Chooses
    <3>3. loosest'.last <= keep.last /\ \A P \in Periods : loosest'.since[P] >= keep.since[P]
      BY <2>1, <2>5, <3>2, LooserRules
    <3>4. QED
      BY <2>1, <2>5, <3>1, <3>3, OutlivedByLooser
  <2> HIDE DEF B
  <2>8. QED
    BY <2>2, <2>3, <2>4, <2>6, <2>7 DEF LoopsOver, Begins
<1>2. CASE ~Evaluates(policy)
  <2>1. UNCHANGED <<pass, retired, loosest>> /\ status' = st
    BY <1>2 DEF ApplyRetention, choices
  <2>2. loosest \in Rules
    BY DEF TypeOK
  <2>3. QED
    BY <2>1, <2>2 DEF Begins, Rules
<1>3. QED
  BY <1>1, <1>2
-----------------------------------------------------------------------------
(* The actions. *)

\* Steps that choose nothing, and start no deletion.
LEMMA NothingRetired ==
    ASSUME TypeOK, BackupInv, UNCHANGED history,
           \A p \in Holders : pass'[p].chosen \subseteq pass[p].chosen,
           \A d \in Deleters : del'[d].left # {} => del[d].left # {} /\ del'[d].of = del[d].of
    PROVE  Retires
<1>1. UNCHANGED <<retired, loosest, asked>>
  BY DEF history, choices
<1>2. loosest.last \in Nat /\ \A P \in Periods : loosest.since[P] \in Nat
  BY DEF TypeOK, Rules
<1>3. QED
  BY <1>1, <1>2 DEF Retires, BackupInv, RetiredInv, Holders

\* Steps that leave the artifacts and the deletions alone.
LEMMA NothingDeleted ==
    ASSUME TypeOK, BackupInv, UNCHANGED <<paths, sum, store, pass, del, history>>,
           \A b \in Backups : status'[b] = "deleted" => status[b] = "deleted" \/ paths[b] = {}
    PROVE  Steps /\ SoundPasses /\ SoundDeletes
<1>1. KeepsCompleted /\ CompletesWell
  BY DEF KeepsCompleted, CompletesWell, BackupInv, RunInv, Completed
<1>2. HonestStatus
  BY DEF HonestStatus, BackupInv, RunInv, Completed
<1>3. Retires
  BY NothingRetired
<1>4. SoundPasses /\ SoundDeletes
  BY DEF SoundPasses, SoundDeletes
<1>5. QED
  BY <1>1, <1>2, <1>3, <1>4 DEF Steps

LEMMA RunSteps ==
    ASSUME TypeOK, TypeOK', BackupInv, NEW b \in Backups,
           StartBackup(b) \/ StartFails(b) \/ DumpEnds(b) \/ DumpFails(b)
    PROVE  Steps /\ BackupInv'
<1> USE DEF catalog, jobFile, runs, bounds, history, choices
<1>1. UNCHANGED <<paths, sum, store, pass, verify, del, rot, written, history>>
  BY DEF StartBackup, StartFails, DumpEnds, DumpFails
<1>2. /\ status' = status \/ status' = [status EXCEPT ![b] = "running"]
                          \/ status' = [status EXCEPT ![b] = "failed"]
  BY DEF StartBackup, StartFails, DumpEnds, DumpFails, SetStatus
<1>3. \A c \in Backups : status'[c] \in {status[c], "running", "failed"}
  BY <1>2 DEF TypeOK
<1>4. Steps /\ SoundPasses /\ SoundDeletes
  BY <1>1, <1>3, NothingDeleted
<1>5. RunInv'
  <2> SUFFICES ASSUME NEW c \in Backups
               PROVE /\ status'[c] = "none" => phase'[c] = "idle"
                     /\ phase'[c] # "idle" => sum[c] = NoSum
                     /\ phase'[c] # "writing" => written[c] = {}
                     /\ phase'[c] = "writing" => unwritten'[c] # {}
                     /\ \A t \in written[c] : store[c][t] \in {dump'[c], Damaged}
    BY <1>1, <1>3 DEF BackupInv, RunInv, NoPass
  <2>1. /\ status[c] = "none" => phase[c] = "idle" /\ sum[c] = NoSum
        /\ phase[c] # "idle" => sum[c] = NoSum
        /\ phase[c] # "writing" => written[c] = {}
        /\ phase[c] = "writing" => unwritten[c] # {}
        /\ \A t \in written[c] : store[c][t] \in {dump[c], Damaged}
    BY DEF BackupInv, RunInv
  <2>2. CASE c # b
    BY <2>1, <2>2 DEF StartBackup, StartFails, DumpEnds, DumpFails, SetStatus, TypeOK
  <2>3. CASE c = b /\ (StartBackup(b) \/ StartFails(b))
    <3>1. status[b] = "none" /\ status'[b] # "none"
      BY <2>3 DEF StartBackup, StartFails, Unstarted, Recorded, SetStatus, TypeOK
    <3>2. phase'[b] \in {"idle", "dumping"} /\ written[b] = {}
      BY <2>1, <2>3, <3>1 DEF StartBackup, StartFails, TypeOK
    <3>3. QED
      BY <2>1, <2>3, <3>1, <3>2
  <2>4. CASE c = b /\ DumpEnds(b)
    <3>1. /\ phase[b] = "dumping" /\ phase'[b] = "writing" /\ unwritten'[b] = Targets
          /\ status'[b] = status[b]
      BY <2>4 DEF DumpEnds, TypeOK
    <3>2. Targets # {}
      BY BoundsAreNumbers DEF Targets
    <3>3. QED
      BY <2>1, <2>4, <3>1, <3>2
  <2>5. CASE c = b /\ DumpFails(b)
    <3>1. phase[b] = "dumping" /\ phase'[b] = "idle" /\ dump' = dump
      BY <2>5 DEF DumpFails, TypeOK
    <3>2. QED
      BY <2>1, <2>5, <3>1
  <2>6. QED
    BY <2>2, <2>3, <2>4, <2>5
<1>6. DeletionInv'
  BY <1>4, DeletionStep DEF Steps
<1>7. VerifyInv' /\ RotationInv'
  BY <1>1 DEF BackupInv, VerifyInv, RotationInv
<1>8. QED
  BY <1>4, <1>5, <1>6, <1>7, RetiredStep DEF BackupInv

LEMMA VerifySteps ==
    ASSUME TypeOK, TypeOK', BackupInv, ChecksumMatches, NEW v \in Verifiers,
           (\E b \in Backups : VerifyStarts(v, b)) \/ VerifyDownloads(v) \/ VerifyLists(v)
    PROVE  Steps /\ BackupInv'
<1> USE DEF catalog, jobFile, runs, bounds, history, choices
<1>1. UNCHANGED <<paths, sum, store, runs, pass, del, rot, history>>
  BY DEF VerifyStarts, VerifyDownloads, VerifyLists
<1>2. verify[v].at # "idle" => verify[v].of \in Completed
  BY DEF BackupInv, RunInv, VerifyInv, Completed
<1>3. \A b \in Backups : /\ status'[b] \in {status[b], "corrupted", "verified"}
                         /\ status'[b] = "verified" => status[b] = "verified" \/ b \in Completed
  BY <1>2 DEF VerifyStarts, VerifyDownloads, VerifyLists, VerifyEnds, SetStatus, TypeOK
<1>4. Steps /\ SoundPasses /\ SoundDeletes
  BY <1>1, <1>3, NothingDeleted
<1>5. NoProgress
  BY <1>1, <1>3 DEF NoProgress, BackupInv, RunInv, Completed
<1>6. VerifyInv'
  <2> SUFFICES ASSUME NEW w \in Verifiers, verify'[w].at # "idle"
               PROVE  verify'[w].of \in Backups /\ paths[verify'[w].of] # {}
    BY <1>1 DEF VerifyInv
  <2>1. CASE verify'[w] = verify[w]
    BY <2>1 DEF BackupInv, VerifyInv
  <2>2. CASE verify'[w] # verify[w]
    <3>1. verify \in [Verifiers -> VerifyType]
      BY DEF TypeOK
    <3>2. w = v
      BY <2>2, <3>1 DEF VerifyStarts, VerifyDownloads, VerifyLists, VerifyEnds
    <3>3. ASSUME NEW b \in Backups, VerifyStarts(v, b)
          PROVE  verify'[w].of \in Backups /\ paths[verify'[w].of] # {}
      BY <2>2, <3>1, <3>2, <3>3 DEF VerifyStarts
    <3>4. CASE VerifyDownloads(v) \/ VerifyLists(v)
      <4>1. verify' = [verify EXCEPT ![v].at = "list"] /\ verify[v].at # "idle"
        BY <2>2, <3>1, <3>2, <3>4 DEF VerifyDownloads, VerifyLists, VerifyEnds, NoVerify
      <4>2. verify'[v].of = verify[v].of
        BY <3>1, <4>1 DEF VerifyType
      <4>3. QED
        BY <3>2, <4>1, <4>2 DEF BackupInv, VerifyInv
    <3>5. QED
      BY <3>3, <3>4
  <2>3. QED
    BY <2>1, <2>2
<1>7. RotationInv'
  BY <1>1 DEF BackupInv, RotationInv
<1>8. QED
  BY <1>4, <1>5, <1>6, <1>7, RunStep, DeletionStep, RetiredStep DEF BackupInv, Steps

\* The answer of a target to a deletion under way.
LEMMA OneDeleted ==
    ASSUME TypeOK, BackupInv, NEW b \in Completed, b \in retired \cup asked, NEW t \in Targets,
           NEW ok \in BOOLEAN, Deletes(b, t, ok), UNCHANGED <<paths, sum, runs, verify, rot>>
    PROVE  /\ KeepsCompleted /\ CompletesWell
           /\ \A c \in Backups : \A u \in Targets :
                 store'[c][u] = IF ok /\ c = b /\ u = t THEN Gone ELSE store[c][u]
           /\ VerifyInv' /\ RotationInv'
<1>1. \A c \in Backups : \A u \in Targets :
          store'[c][u] = IF ok /\ c = b /\ u = t THEN Gone ELSE store[c][u]
  BY DEF Deletes, TypeOK
<1>2. KeepsCompleted
  BY <1>1 DEF KeepsCompleted, Completed
<1>3. CompletesWell
  BY DEF CompletesWell, BackupInv, RunInv, Completed
<1>4. VerifyInv' /\ RotationInv'
  BY DEF BackupInv, VerifyInv, RotationInv
<1>5. QED
  BY <1>1, <1>2, <1>3, <1>4

LEMMA DeleteSteps ==
    ASSUME TypeOK, TypeOK', BackupInv, NEW d \in Deleters,
           (\E b \in Backups : DeleteStarts(d, b)) \/ DeleteGoesOn(d)
    PROVE  Steps /\ BackupInv'
<1> USE DEF catalog, jobFile, runs, bounds, history, choices
<1>1. ASSUME NEW b \in Backups, DeleteStarts(d, b) PROVE Steps /\ BackupInv'
  <2>1. UNCHANGED <<paths, sum, store, runs, pass, verify, rot, choices>>
    BY <1>1 DEF DeleteStarts
  <2>2. \A c \in Backups :
          status'[c] = status[c] \/ (status'[c] = "deleted" /\ paths[c] = {})
    BY <1>1 DEF DeleteStarts, SetStatus, TypeOK
  <2>3. SoundDeletes
    <3>1. SUFFICES ASSUME NEW e \in Deleters, del'[e] # del[e], del'[e].left # {}
                   PROVE  del'[e].of \in Backups /\ Sound(del'[e].of, del'[e].left, del'[e].clean)
      BY DEF SoundDeletes
    <3>2. del \in [Deleters -> DeleteType]
      BY DEF TypeOK
    <3>3. del'[e] = [of |-> b, left |-> paths[b], clean |-> TRUE]
      BY <1>1, <3>1, <3>2 DEF DeleteStarts
    <3>4. QED
      BY <2>1, <3>1, <3>3 DEF Sound
  <2>4. Retires
    <3>1. \A e \in Deleters : del'[e] = del[e] \/ del'[e].of = b
      BY <1>1 DEF DeleteStarts, TypeOK
    <3>2. asked' = asked \cup {b}
      BY <1>1 DEF DeleteStarts
    <3>3. loosest.last \in Nat /\ \A P \in Periods : loosest.since[P] \in Nat
      BY DEF TypeOK, Rules
    <3>4. QED
      BY <2>1, <3>1, <3>2, <3>3 DEF Retires, BackupInv, RetiredInv, Holders
  <2>5. KeepsCompleted /\ CompletesWell
    BY <2>1 DEF KeepsCompleted, CompletesWell, BackupInv, RunInv, Completed
  <2>6. HonestStatus
    BY <2>1, <2>2 DEF HonestStatus, BackupInv, RunInv, Completed
  <2>7. SoundPasses
    BY <2>1 DEF SoundPasses
  <2>8. NoProgress
    BY <2>1, <2>2 DEF NoProgress, BackupInv, RunInv, Completed
  <2>9. VerifyInv' /\ RotationInv'
    BY <2>1 DEF BackupInv, VerifyInv, RotationInv
  <2>10. QED
    BY <2>1, <2>3, <2>4, <2>5, <2>6, <2>7, <2>8, <2>9, RunStep, DeletionStep, RetiredStep DEF BackupInv, Steps
<1>2. CASE DeleteGoesOn(d)
  <2> DEFINE b == del[d].of
  <2>1. PICK t \in del[d].left, ok \in BOOLEAN :
          /\ Deletes(b, t, ok)
          /\ IF del[d].left = {t}
             THEN /\ SetStatus(b, Verdict(del[d].clean /\ ok))
                  /\ del' = [del EXCEPT ![d] = NoDelete]
             ELSE /\ del' = [del EXCEPT ![d] = [of |-> @.of, left |-> @.left \ {t},
                                                clean |-> @.clean /\ ok]]
                  /\ UNCHANGED status
    BY <1>2 DEF DeleteGoesOn
  <2>2. UNCHANGED <<paths, sum, restored, jobFile, runs, pass, verify, restore, rot, bounds, history>>
    BY <1>2 DEF DeleteGoesOn
  <2>3. /\ b \in Backups /\ t \in paths[b] /\ t \in Targets /\ del[d].left \subseteq paths[b]
        /\ del[d].clean => \A u \in paths[b] \ del[d].left : store[b][u] = Gone
    BY <1>2 DEF DeleteGoesOn, BackupInv, DeletionInv, DeletesFrom, TypeOK
  <2>4. b \in Completed /\ b \in asked
    BY <1>2, <2>3 DEF DeleteGoesOn, BackupInv, RunInv, RetiredInv, Completed
  <2>5. del \in [Deleters -> DeleteType] /\ del[d].clean \in BOOLEAN
    BY DEF TypeOK, DeleteType
  <2> HIDE DEF b
  <2>6. /\ KeepsCompleted /\ CompletesWell
        /\ \A c \in Backups : \A u \in Targets :
              store'[c][u] = IF ok /\ c = b /\ u = t THEN Gone ELSE store[c][u]
        /\ VerifyInv' /\ RotationInv'
    BY <2>1, <2>2, <2>3, <2>4, OneDeleted
  <2>7. \A u \in paths[b] : u \in Targets
    BY <2>3 DEF TypeOK
  <2>8. SoundDeletes
    <3>1. SUFFICES ASSUME NEW e \in Deleters, del'[e] # del[e], del'[e].left # {}
                   PROVE  del'[e].of \in Backups /\ Sound(del'[e].of, del'[e].left, del'[e].clean)
      BY DEF SoundDeletes
    <3>2. e = d /\ del[d].left # {t}
      BY <2>1, <2>5, <3>1 DEF NoDelete
    <3>3. /\ del'[d].of = b /\ del'[d].left = del[d].left \ {t}
          /\ del'[d].clean => del[d].clean /\ ok
      BY <2>1, <2>5, <3>2 DEF b
    <3>4. QED
      BY <2>2, <2>3, <2>6, <2>7, <3>1, <3>2, <3>3 DEF Sound
  <2>9. ASSUME NEW c \in Backups
        PROVE  \/ status'[c] = status[c]
               \/ /\ c = b /\ status'[c] \in {"deleted", "delete_failed"}
                  /\ status'[c] = "deleted" => \A u \in paths'[c] : store'[c][u] = Gone
    <3>1. CASE del[d].left # {t}
      BY <2>1, <3>1
    <3>2. CASE del[d].left = {t} /\ c # b
      BY <2>1, <3>2 DEF SetStatus, TypeOK
    <3>3. CASE del[d].left = {t} /\ c = b
      <4>1. status'[b] = Verdict(del[d].clean /\ ok)
        BY <2>1, <2>3, <3>3 DEF SetStatus, TypeOK
      <4>2. status'[b] = "deleted" => del[d].clean /\ ok
        BY <4>1 DEF Verdict
      <4>3. QED
        BY <2>2, <2>3, <2>6, <2>7, <3>3, <4>1, <4>2 DEF Verdict
    <3>4. QED
      BY <3>1, <3>2, <3>3
  <2>10. HonestStatus
    BY <2>2, <2>4, <2>9 DEF HonestStatus, BackupInv, RunInv, Completed
  <2>11. Retires
    <3>1. \A e \in Deleters : del'[e].left # {} => del[e].left # {} /\ del'[e].of = del[e].of
      BY <2>1, <2>5 DEF NoDelete
    <3>2. QED
      BY <2>2, <3>1, NothingRetired
  <2>12. SoundPasses
    BY <2>2 DEF SoundPasses
  <2>13. NoProgress
    BY <2>2, <2>4, <2>6, <2>9 DEF NoProgress, BackupInv, RunInv, Completed
  <2>14. QED
    BY <2>6, <2>8, <2>10, <2>11, <2>12, <2>13, RunStep, DeletionStep, RetiredStep DEF BackupInv, Steps
<1>3. QED
  BY <1>1, <1>2

LEMMA PassSteps ==
    ASSUME TypeOK, TypeOK', BackupInv, NEW p \in Holders, PassDeletes(p)
    PROVE  Steps /\ BackupInv'
<1> USE DEF catalog, jobFile, runs, bounds, history, choices
<1> DEFINE b == Newest(pass[p].chosen)
           t == First(pass[p].left)
           left == pass[p].left \ {t}
<1>1. pass \in [Holders -> PassType] /\ pass[p] \in PassType
  BY DEF TypeOK, Holders
<1>2. /\ b \in pass[p].chosen /\ b \in Backups /\ pass[p].left # {} /\ pass[p].left \subseteq paths[b]
      /\ pass[p].clean => \A u \in paths[b] \ pass[p].left : store[b][u] = Gone
  <2>1. pass[p].chosen # {} /\ pass[p].chosen \in SUBSET Backups
    BY <1>1 DEF PassDeletes, PassType
  <2>2. b \in pass[p].chosen
    BY <2>1, NewestIn
  <2>3. QED
    BY <2>1, <2>2 DEF BackupInv, DeletionInv, DeletesFrom, Holders
<1>3. t \in pass[p].left /\ t \in Targets
  <2>1. pass[p].left \in SUBSET Nat /\ pass[p].left \in SUBSET Targets
    BY <1>1 DEF PassType, Targets
  <2>2. QED
    BY <1>2, <2>1, FirstIn
<1>4. b \in Completed /\ b \in retired
  BY <1>2 DEF BackupInv, RetiredInv, Holders
<1>5. PICK ok \in BOOLEAN :
        /\ Deletes(b, t, ok)
        /\ IF left # {}
           THEN /\ pass' = [pass EXCEPT ![p] = [chosen |-> @.chosen, left |-> left,
                                                clean |-> @.clean /\ ok]]
                /\ UNCHANGED status
           ELSE GoOn(p, pass[p].chosen \ {b},
                     [status EXCEPT ![b] = Verdict(pass[p].clean /\ ok)],
                     paths)
  BY DEF PassDeletes
<1>6. UNCHANGED <<paths, sum, restored, jobFile, runs, verify, del, restore, rot, bounds, history>>
  BY DEF PassDeletes
<1>7. /\ KeepsCompleted /\ CompletesWell
      /\ \A c \in Backups : \A u \in Targets :
            store'[c][u] = IF ok /\ c = b /\ u = t THEN Gone ELSE store[c][u]
      /\ VerifyInv' /\ RotationInv'
  BY <1>3, <1>4, <1>5, <1>6, OneDeleted
<1>8. \A u \in paths[b] : u \in Targets
  BY <1>2 DEF TypeOK
<1>9. SoundDeletes
  BY <1>6 DEF SoundDeletes
<1>10. pass[p].clean \in BOOLEAN /\ pass[p].chosen \in SUBSET Backups
  BY <1>1 DEF PassType
<1>11. \A c \in Backups \ Completed : c # p
  BY <1>2 DEF BackupInv, RunInv, Completed, NoPass
<1>12. CASE left # {}
  <2>1. /\ \A r \in Holders \ {p} : pass'[r] = pass[r]
        /\ pass'[p].chosen = pass[p].chosen /\ pass'[p].left = left
        /\ pass'[p].clean => pass[p].clean /\ ok
        /\ UNCHANGED status
    <3> DEFINE q == [chosen |-> pass[p].chosen, left |-> left,
                     clean |-> pass[p].clean /\ ok]
    <3>1. pass' = [pass EXCEPT ![p] = q] /\ UNCHANGED status
      BY <1>5, <1>12
    <3>2. q.chosen = pass[p].chosen /\ q.left = left
      OBVIOUS
    <3>3. q.clean => pass[p].clean /\ ok
      OBVIOUS
    <3> HIDE DEF q
    <3>4. pass'[p] = q /\ \A r \in Holders \ {p} : pass'[r] = pass[r]
      BY <1>1, <3>1
    <3>5. QED
      BY <3>1, <3>2, <3>3, <3>4
  <2> HIDE DEF b, t
  <2>2. Sound(b, left, pass'[p].clean)
    BY <1>2, <1>3, <1>6, <1>7, <1>8, <1>12, <2>1 DEF Sound
  <2>3. SoundPasses
    BY <2>1, <2>2 DEF SoundPasses, b
  <2>4. HonestStatus
    BY <1>6, <1>7, <2>1 DEF HonestStatus, BackupInv, RunInv, Completed
  <2>5. Retires
    BY <1>6, <2>1, NothingRetired
  <2>6. NoProgress
    BY <1>4, <1>6, <1>7, <1>11, <2>1 DEF NoProgress, BackupInv, RunInv, Completed, Holders
  <2>7. QED
    BY <1>6, <1>7, <1>9, <2>3, <2>4, <2>5, <2>6, RunStep, DeletionStep, RetiredStep DEF BackupInv, Steps
<1>13. CASE left = {}
  <2> DEFINE st == [status EXCEPT ![b] = Verdict(pass[p].clean /\ ok)]
             B == pass[p].chosen \ {b}
  <2>1. st \in [Backups -> Statuses] /\ paths \in [Backups -> SUBSET Targets]
    BY DEF Verdict, TypeOK, Statuses
  <2>2. LoopsOver(p, B, st, paths)
    BY <1>5, <1>10, <1>13, <2>1, GoOnLoops
  <2>3. st[b] = Verdict(pass[p].clean /\ ok) /\ \A c \in Backups \ {b} : st[c] = status[c]
    BY <1>2 DEF TypeOK
  <2>4. b \notin B /\ B \subseteq pass[p].chosen /\ (\A c \in pass[p].chosen : c = b \/ c \in B)
    OBVIOUS
  <2>5. pass[p].clean /\ ok => \A u \in paths[b] : store'[b][u] = Gone
    BY <1>2, <1>7, <1>8, <1>13
  <2> HIDE DEF b, t, left, st, B
  <2>6. st[b] \in {"deleted", "delete_failed"} /\ (st[b] = "deleted" => pass[p].clean /\ ok)
    BY <2>3 DEF Verdict
  <2>7. ASSUME NEW c \in Backups
        PROVE  \/ status'[c] = status[c]
               \/ status'[c] = "delete_failed"
               \/ status'[c] = "deleted" /\ \A u \in paths[c] : store'[c][u] = Gone
    BY <2>2, <2>3, <2>5, <2>6 DEF LoopsOver
  <2>8. SoundPasses
    <3>1. ASSUME pass'[p].chosen # {}
          PROVE  Sound(Newest(pass'[p].chosen), pass'[p].left, pass'[p].clean)
      <4>1. pass'[p].left # {} /\ pass'[p].left = paths[Newest(pass'[p].chosen)]
        BY <2>2, <3>1 DEF LoopsOver
      <4>2. QED
        BY <1>6, <4>1 DEF Sound
    <3>2. QED
      BY <2>2, <3>1 DEF SoundPasses, LoopsOver
  <2>10. HonestStatus
    BY <1>6, <2>7 DEF HonestStatus, BackupInv, RunInv, Completed
  <2>11. Retires
    <3>1. \A r \in Holders : pass'[r].chosen \subseteq pass[r].chosen
      BY <2>2, <2>4 DEF LoopsOver
    <3>2. QED
      BY <1>6, <3>1, NothingRetired
  <2>12. \A c \in Backups \ Completed : pass'[c] = NoPass
    BY <1>11, <2>2 DEF LoopsOver, BackupInv, RunInv, Completed, Holders
  <2>13. NoProgress
    BY <1>4, <1>6, <1>7, <2>7, <2>12 DEF NoProgress, BackupInv, RunInv, Completed
  <2>14. QED
    BY <1>6, <1>7, <1>9, <2>8, <2>10, <2>11, <2>13, RunStep, DeletionStep, RetiredStep DEF BackupInv, Steps
<1>14. QED
  BY <1>12, <1>13

\* A pass an operator asks for; no backup has the same place for its own.
LEMMA UserSteps ==
    ASSUME TypeOK, TypeOK', BackupInv, NEW p \in Passes, UserRetention(p)
    PROVE  Steps /\ BackupInv'
<1> USE DEF catalog, jobFile, runs, bounds, history, choices
<1>1. UNCHANGED <<paths, sum, restored, jobFile, store, runs, verify, del, restore, rot, asked>>
  BY DEF UserRetention
<1>2. p \in Holders /\ pass[p] = NoPass
  BY DEF UserRetention, Holders
<1>3. Begins(p, status, paths)
  BY <1>2, RetentionBegins DEF UserRetention, TypeOK
<1>4. KeepsCompleted /\ CompletesWell
  BY <1>1 DEF KeepsCompleted, CompletesWell, BackupInv, RunInv, Completed
<1>5. HonestStatus
  BY <1>1, <1>3 DEF Begins, HonestStatus, BackupInv, RunInv, Completed
<1>7. Completed' = Completed /\ Completed \in SUBSET Backups
  BY <1>1 DEF Completed
<1>8. \A c \in Backups : status[c] \in {"completed", "verified"} => c \in Completed
  BY DEF BackupInv, RunInv, Completed
<1>9. Retires
  <2>1. \A r \in Holders : pass'[r].chosen \subseteq retired'
    BY <1>3 DEF Begins, BackupInv, RetiredInv, Holders
  <2>2. \A b \in retired' \ retired : b \in Completed' /\ Outlived(Completed', b, loosest')
    <3>1. retired' \subseteq Backups
      BY DEF TypeOK
    <3>2. QED
      BY <1>3, <1>7, <1>8, <3>1 DEF Begins
  <2>3. QED
    BY <1>1, <1>3, <2>1, <2>2 DEF Begins, Retires, BackupInv, RetiredInv
<1>10. SoundPasses
  <2>1. SUFFICES ASSUME NEW r \in Holders, pass'[r] # pass[r], pass'[r].chosen # {}
                 PROVE  Sound(Newest(pass'[r].chosen), pass'[r].left, pass'[r].clean)
    BY DEF SoundPasses
  <2>2. pass'[r].left # {} /\ pass'[r].left = paths[Newest(pass'[r].chosen)]
    BY <1>3, <2>1 DEF Begins
  <2>3. QED
    BY <1>1, <2>2 DEF Sound
<1>11. SoundDeletes /\ VerifyInv' /\ RotationInv'
  BY <1>1 DEF SoundDeletes, BackupInv, VerifyInv, RotationInv
<1>12. NoProgress
  <2>1. \A c \in Backups : c # p /\ pass'[c] = pass[c]
    BY <1>3, PassesAreNotBackups DEF Begins, Holders
  <2>2. QED
    BY <1>1, <1>3, <2>1 DEF Begins, NoProgress, BackupInv, RunInv, Completed
<1>13. QED
  BY <1>1, <1>4, <1>5, <1>9, <1>10, <1>11, <1>12, RunStep, DeletionStep, RetiredStep DEF BackupInv, Steps

LEMMA WriteSteps ==
    ASSUME TypeOK, TypeOK', BackupInv, NEW b \in Backups, Writes(b)
    PROVE  Steps /\ BackupInv'
<1> USE DEF catalog, jobFile, runs, bounds, history, choices
<1> DEFINE t == First(unwritten[b])
<1>1. PICK ok \in BOOLEAN :
        /\ store' = IF ok THEN [store EXCEPT ![b][t] = dump[b]] ELSE store
        /\ unwritten' = [unwritten EXCEPT ![b] = @ \ {t}]
        /\ IF unwritten[b] = {t}
           THEN /\ Completes(b, Okay(b, t, ok))
                /\ phase' = [phase EXCEPT ![b] = "idle"]
                /\ written' = [written EXCEPT ![b] = {}]
           ELSE /\ written' = [written EXCEPT ![b] = Okay(b, t, ok)]
                /\ UNCHANGED <<status, paths, sum, pass, phase, choices>>
  BY DEF Writes
<1>2. UNCHANGED <<restored, jobFile, dump, verify, del, restore, rot, bounds, asked>>
  BY DEF Writes
<1>3. /\ phase[b] = "writing" /\ unwritten[b] # {} /\ sum[b] = NoSum /\ paths[b] = {}
      /\ pass[b] = NoPass /\ status[b] \notin {"none", "completed", "verified"}
      /\ \A u \in written[b] : store[b][u] \in {dump[b], Damaged}
  BY DEF Writes, BackupInv, RunInv
<1>4. t \in unwritten[b] /\ t \in Targets
  <2>1. unwritten[b] \in SUBSET Targets /\ unwritten[b] \in SUBSET Nat
    BY DEF TypeOK, Targets
  <2>2. QED
    BY <1>3, <2>1, FirstIn
<1> HIDE DEF t
<1>5. dump[b] \in Contents /\ written[b] \subseteq Targets
  BY DEF TypeOK
<1>6. /\ \A c \in Backups \ {b} : store'[c] = store[c]
      /\ \A u \in Okay(b, t, ok) : u \in Targets /\ store'[b][u] \in {dump[b], Damaged}
  BY <1>1, <1>3, <1>4, <1>5 DEF Okay, TypeOK
<1>7. \A c \in Completed : c # b /\ store'[c] = store[c]
  BY <1>3, <1>6 DEF Completed
<1>8. SoundDeletes /\ RotationInv'
  BY <1>2 DEF SoundDeletes, BackupInv, RotationInv
<1>9. CASE unwritten[b] # {t}
  <2>1. /\ written' = [written EXCEPT ![b] = Okay(b, t, ok)]
        /\ UNCHANGED <<status, paths, sum, pass, phase, choices>>
    BY <1>1, <1>9
  <2>2. KeepsCompleted /\ CompletesWell
    BY <1>7, <2>1 DEF KeepsCompleted, CompletesWell, BackupInv, RunInv, Completed
  <2>3. HonestStatus
    BY <2>1 DEF HonestStatus, BackupInv, RunInv, Completed
  <2>4. Retires
    BY <1>2, <2>1, NothingRetired
  <2>5. SoundPasses
    BY <2>1 DEF SoundPasses
  <2>6. RunInv'
    <3>1. SUFFICES ASSUME NEW c \in Backups
                   PROVE /\ phase[c] # "writing" => written'[c] = {}
                         /\ phase[c] = "writing" => unwritten'[c] # {}
                         /\ \A u \in written'[c] : store'[c][u] \in {dump[c], Damaged}
      BY <1>2, <2>1 DEF BackupInv, RunInv, NoPass
    <3>2. CASE c = b
      BY <1>1, <1>3, <1>4, <1>6, <1>9, <2>1, <3>2 DEF TypeOK
    <3>3. CASE c # b
      BY <1>1, <1>6, <2>1, <3>3 DEF BackupInv, RunInv, TypeOK
    <3>4. QED
      BY <3>2, <3>3
  <2>7. VerifyInv'
    BY <1>2, <2>1 DEF BackupInv, VerifyInv
  <2>8. QED
    BY <1>8, <2>2, <2>3, <2>4, <2>5, <2>6, <2>7, DeletionStep, RetiredStep
       DEF BackupInv, Steps
<1>10. CASE unwritten[b] = {t}
  <2> DEFINE st == [status EXCEPT ![b] = "completed"]
             pt == [paths EXCEPT ![b] = Okay(b, t, ok)]
  <2>1. /\ paths' = pt /\ sum' = [sum EXCEPT ![b] = dump[b]] /\ ApplyRetention(b, st, pt)
        /\ phase' = [phase EXCEPT ![b] = "idle"] /\ written' = [written EXCEPT ![b] = {}]
    BY <1>1, <1>10 DEF Completes, SumOf
  <2>2. st \in [Backups -> Statuses] /\ pt \in [Backups -> SUBSET Targets]
    BY <1>6 DEF TypeOK, Statuses
  <2>3. st[b] = "completed" /\ \A c \in Backups \ {b} : st[c] = status[c]
    BY DEF TypeOK
  <2> HIDE DEF st, pt
  <2>4. b \in Holders
    BY DEF Holders
  <2>5. Begins(b, st, pt)
    BY <2>1, <2>2, <2>4, RetentionBegins
  <2>6. /\ paths'[b] = Okay(b, t, ok) /\ sum'[b] = dump[b]
        /\ \A c \in Backups \ {b} : paths'[c] = paths[c] /\ sum'[c] = sum[c]
    BY <2>1 DEF pt, TypeOK
  <2>7. sum'[b] # NoSum /\ sum'[b] \in Contents /\ Gone # dump[b]
    BY <1>5, <2>6, MarksAreNotContents
  <2>8. Completed' = Completed \cup {b} /\ Completed' \in SUBSET Backups
    BY <2>6, <2>7 DEF Completed
  <2>9. KeepsCompleted
    BY <1>7, <2>6 DEF KeepsCompleted, Completed
  <2>10. CompletesWell
    BY <1>6, <2>6, <2>7 DEF CompletesWell, Finishes, BackupInv, RunInv, Completed
  <2>11. \A c \in Backups : st[c] \in {"completed", "verified"} => c \in Completed'
    BY <2>3, <2>8 DEF BackupInv, RunInv, Completed
  <2>13. HonestStatus
    <3>1. SUFFICES ASSUME NEW c \in Backups, status'[c] = "deleted"
                   PROVE  \/ status[c] = "deleted" /\ c \in Completed
                          \/ \A u \in paths'[c] : store'[c][u] = Gone
      BY DEF HonestStatus
    <3>2. CASE c = b
      BY <2>1, <2>3, <2>5, <3>1, <3>2 DEF Begins
    <3>3. CASE c # b
      BY <2>1, <2>3, <2>5, <2>6, <3>1, <3>3 DEF Begins, BackupInv, RunInv, Completed
    <3>4. QED
      BY <3>2, <3>3
  <2>16. Retires
    <3>1. \A r \in Holders : pass'[r].chosen \subseteq retired'
      BY <2>5 DEF Begins, BackupInv, RetiredInv, Holders
    <3>2. \A c \in retired' \ retired : c \in Completed' /\ Outlived(Completed', c, loosest')
      <4>1. retired' \subseteq Backups
        BY DEF TypeOK
      <4>2. QED
        BY <2>5, <2>8, <2>11, <4>1 DEF Begins
    <3>3. QED
      BY <1>2, <2>5, <3>1, <3>2 DEF Begins, Retires, BackupInv, RetiredInv
  <2>17. SoundPasses
    <3>1. SUFFICES ASSUME NEW r \in Holders, pass'[r] # pass[r], pass'[r].chosen # {}
                   PROVE  Sound(Newest(pass'[r].chosen), pass'[r].left, pass'[r].clean)
      BY DEF SoundPasses
    <3>2. pass'[r].left # {} /\ pass'[r].left = pt[Newest(pass'[r].chosen)]
      BY <2>5, <3>1 DEF Begins
    <3>3. QED
      BY <2>1, <3>2 DEF Sound
  <2>18. RunInv'
    <3>1. SUFFICES ASSUME NEW c \in Backups
                   PROVE /\ status'[c] = "none" => phase'[c] = "idle" /\ sum'[c] = NoSum
                         /\ phase'[c] # "idle" => sum'[c] = NoSum
                         /\ sum'[c] = NoSum => paths'[c] = {} /\ status'[c] \notin {"completed", "verified"}
                         /\ sum'[c] = NoSum => pass'[c] = NoPass
                         /\ phase'[c] # "writing" => written'[c] = {}
                         /\ phase'[c] = "writing" => unwritten'[c] # {}
                         /\ \A u \in written'[c] : store'[c][u] \in {dump'[c], Damaged}
      BY DEF RunInv, NoPass
    <3>2. CASE c = b
      <4>1. phase'[b] = "idle" /\ written'[b] = {}
        BY <2>1 DEF TypeOK
      <4>2. status'[b] # "none"
        BY <2>3, <2>5 DEF Begins
      <4>3. QED
        BY <2>7, <3>2, <4>1, <4>2
    <3>3. CASE c # b
      <4>1. /\ phase'[c] = phase[c] /\ written'[c] = written[c] /\ unwritten'[c] = unwritten[c]
            /\ dump'[c] = dump[c] /\ store'[c] = store[c] /\ sum'[c] = sum[c] /\ paths'[c] = paths[c]
        BY <1>1, <1>2, <1>6, <2>1, <2>6, <3>3 DEF TypeOK
      <4>2. pass'[c] = pass[c]
        BY <2>5, <3>3 DEF Begins, Holders
      <4>3. status'[c] = status[c] \/ status'[c] = "deleted"
        BY <2>3, <2>5, <3>3 DEF Begins
      <4>4. QED
        BY <4>1, <4>2, <4>3 DEF BackupInv, RunInv
    <3>4. QED
      BY <3>2, <3>3
  <2>19. VerifyInv'
    BY <1>2, <1>3, <2>6 DEF BackupInv, VerifyInv
  <2>20. QED
    BY <1>8, <2>9, <2>10, <2>13, <2>16, <2>17, <2>18, <2>19, DeletionStep, RetiredStep
       DEF BackupInv, Steps
<1>11. QED
  BY <1>9, <1>10

LEMMA DamageSteps ==
    ASSUME TypeOK, TypeOK', BackupInv, NEW b \in Backups, NEW t \in Targets, Damage(b, t)
    PROVE  Steps /\ BackupInv'
<1> USE DEF catalog, jobFile, runs, history, choices
<1>1. UNCHANGED <<catalog, jobFile, runs, pass, verify, del, restore, rot, history>>
  BY DEF Damage
<1>2. \A c \in Backups : \A u \in Targets :
          store'[c][u] = store[c][u] \/ (store[c][u] # Gone /\ store'[c][u] = Damaged)
  BY MarksAreNotContents DEF Damage, TypeOK
<1>3. KeepsCompleted
  BY <1>1, <1>2, MarksAreNotContents DEF KeepsCompleted, Completed
<1>4. CompletesWell /\ HonestStatus /\ SoundPasses /\ SoundDeletes
  BY <1>1 DEF CompletesWell, HonestStatus, SoundPasses, SoundDeletes,
              BackupInv, RunInv, Completed
<1>5. Retires
  BY <1>1, NothingRetired
<1>6. NoProgress
  BY <1>1, <1>2 DEF NoProgress, BackupInv, RunInv, Completed
<1>7. VerifyInv' /\ RotationInv'
  BY <1>1 DEF BackupInv, VerifyInv, RotationInv
<1>8. QED
  BY <1>1, <1>3, <1>4, <1>5, <1>6, <1>7, RunStep, DeletionStep, RetiredStep DEF BackupInv, Steps

LEMMA CrashSteps ==
    ASSUME TypeOK, TypeOK', BackupInv, Crash
    PROVE  Steps /\ BackupInv'
<1> USE DEF catalog, jobFile, history, choices
<1>1. UNCHANGED <<status, paths, sum, store, dump>>
  BY DEF Crash
<1>2. KeepsCompleted /\ CompletesWell /\ HonestStatus
  BY <1>1 DEF KeepsCompleted, CompletesWell, HonestStatus, BackupInv, RunInv, Completed
<1>3. \A p \in Holders : pass'[p] = NoPass
  BY DEF Crash, Holders
<1>4. SoundPasses
  BY <1>3 DEF SoundPasses, NoPass
<1>5. SoundDeletes
  BY DEF Crash, SoundDeletes, NoDelete
<1>6. Retires
  <2>1. UNCHANGED history /\ \A d \in Deleters : del'[d] = NoDelete
    BY DEF Crash
  <2>2. QED
    BY <1>3, <2>1, NothingRetired DEF NoPass, NoDelete
<1>7. NoProgress
  BY <1>1, <1>3 DEF NoProgress, Crash, Holders
<1>8. VerifyInv' /\ RotationInv'
  BY DEF Crash, VerifyInv, RotationInv, NoVerify, NoRotation
<1>10. QED
  BY <1>2, <1>4, <1>5, <1>6, <1>7, <1>8, RunStep, DeletionStep, RetiredStep DEF BackupInv, Steps

\* Steps that touch neither records nor artifacts, or nothing at all.
LEMMA IdleSteps ==
    ASSUME TypeOK, TypeOK', BackupInv,
           UNCHANGED <<status, paths, sum, store, runs, pass, verify, del, history>>, RotationInv'
    PROVE  Steps /\ BackupInv'
<1>1. Steps /\ SoundPasses /\ SoundDeletes
  BY NothingDeleted
<1>2. NoProgress
  BY DEF runs, NoProgress, BackupInv, RunInv, Completed
<1>3. VerifyInv'
  BY DEF BackupInv, VerifyInv
<1>4. QED
  BY <1>1, <1>2, <1>3, RunStep, DeletionStep, RetiredStep DEF BackupInv, Steps

LEMMA OtherSteps ==
    ASSUME TypeOK, TypeOK', BackupInv,
           \/ \E b \in Backups : RestoreStarts(b) \/ RestoreDownloads(b) \/ RestoreFails(b)
                                 \/ RestoreLoads(b)
           \/ \E old, new \in Keys : RotateStarts(old, new)
           \/ RotationReads \/ RotationWrites
           \/ EditJob
           \/ UNCHANGED vars
    PROVE  Steps /\ BackupInv'
<1>1. UNCHANGED <<status, paths, sum, store, runs, pass, verify, del, history>>
  BY DEF RestoreStarts, RestoreDownloads, RestoreFails, RestoreLoads, RotateStarts, RotationReads,
         RotationWrites, Rewritten, EditJob, vars, catalog
<1>2. RotationInv'
  <2>1. ASSUME NEW done, NEW failed, RotationGoesOn(NextCopy(rot.left), done, failed),
               rot.at # "idle"
        PROVE  RotationInv'
    <3>1. rot.left # {} /\ rot \in RotationType /\ rot.left \in SUBSET (Backups \X Targets)
      BY <2>1 DEF BackupInv, RotationInv, TypeOK, RotationType
    <3>2. CASE rot.left = {NextCopy(rot.left)}
      BY <2>1, <3>2 DEF RotationGoesOn, RotationInv, NoRotation
    <3>3. CASE rot.left # {NextCopy(rot.left)}
      <4>1. rot' = [rot EXCEPT !.left = @ \ {NextCopy(rot.left)}, !.done = done,
                               !.failed = failed, !.at = "read"]
        BY <2>1, <3>3 DEF RotationGoesOn
      <4>2. rot'.left = rot.left \ {NextCopy(rot.left)}
        BY <3>1, <4>1 DEF RotationType
      <4>3. QED
        BY <3>1, <3>3, <4>2 DEF RotationInv
    <3>4. QED
      BY <3>2, <3>3
  <2>2. CASE RotationReads
    <3>1. CASE rot' = [rot EXCEPT !.at = "write"]
      BY <2>2, <3>1 DEF RotationReads, BackupInv, RotationInv, TypeOK, RotationType
    <3>2. CASE RotationGoesOn(NextCopy(rot.left), rot.done, TRUE)
      BY <2>1, <2>2, <3>2 DEF RotationReads
    <3>3. QED
      BY <2>2, <3>1, <3>2 DEF RotationReads
  <2>3. CASE RotationWrites
    BY <2>1, <2>3 DEF RotationWrites
  <2>4. ASSUME NEW old \in Keys, NEW new \in Keys, RotateStarts(old, new) PROVE RotationInv'
    <3>1. rot' = rot \/ (Rotatable # {} /\ rot'.left = Rotatable)
      <4> DEFINE r == [at |-> "read", left |-> Rotatable, done |-> {}, failed |-> FALSE,
                       old |-> old, new |-> new]
      <4>1. r.left = Rotatable
        OBVIOUS
      <4>2. rot' = rot \/ (Rotatable # {} /\ rot' = r)
        BY <2>4, Zenon DEF RotateStarts
      <4>3. QED
        BY <4>1, <4>2
    <3>2. QED
      BY <3>1 DEF BackupInv, RotationInv
  <2>5. CASE rot' = rot
    BY <2>5 DEF BackupInv, RotationInv
  <2>6. rot' = rot \/ RotationReads \/ RotationWrites
                   \/ \E old, new \in Keys : RotateStarts(old, new)
    BY DEF RestoreStarts, RestoreDownloads, RestoreFails, RestoreLoads, EditJob, vars
  <2>7. QED
    BY <2>2, <2>3, <2>4, <2>5, <2>6
<1>3. QED
  BY <1>1, <1>2, IdleSteps
-----------------------------------------------------------------------------
(* The theorems. *)

Inv ==
    /\ TypeOK /\ BackupInv
    /\ ChecksumMatches /\ DeletedMeansGone /\ RetentionSparesNewest

LEMMA InvInit == Init => Inv
<1> SUFFICES ASSUME Init PROVE Inv
  OBVIOUS
<1>1. TypeOK
  BY TypeInit
<1>2. BackupInv
  BY DEF Init, BackupInv, RunInv, DeletionInv, VerifyInv, RotationInv, RetiredInv, Completed, NoPass,
         NoDelete, NoVerify, NoRotation
<1>3. ChecksumMatches /\ DeletedMeansGone /\ RetentionSparesNewest
  BY DEF Init, ChecksumMatches, DeletedMeansGone, RetentionSparesNewest
<1>4. QED
  BY <1>1, <1>2, <1>3 DEF Inv

LEMMA InvStep == ASSUME Inv, [Next]_vars PROVE Steps /\ Inv'
<1>1. TypeOK /\ BackupInv /\ ChecksumMatches
  BY DEF Inv
<1>2. TypeOK'
  BY <1>1, TypeStep
<1>3. Steps /\ BackupInv'
  BY <1>1, <1>2, RunSteps, WriteSteps, UserSteps, PassSteps, VerifySteps, DeleteSteps, DamageSteps,
     CrashSteps, OtherSteps DEF Next, Holders
<1>4. QED
  BY <1>1, <1>2, <1>3, ChecksumStep, DeletedStep, SparesStep DEF Inv, BackupInv

LEMMA InvAlways == Spec => []Inv
<1>1. Inv /\ [Next]_vars => Inv'
  BY InvStep
<1>2. QED
  BY <1>1, InvInit, PTL DEF Spec

(***************************************************************************)
(* The records, the artifacts and everything in progress keep their types, *)
(* for every number of backups and targets and every policy.               *)
(***************************************************************************)
THEOREM BackupTypeCorrect == Spec => []TypeOK
<1>1. Inv => TypeOK
  BY DEF Inv
<1>2. QED
  BY <1>1, InvAlways, PTL

(***************************************************************************)
(* The checksum of a record is that of what lies at each of its ok paths   *)
(* until the copy is deleted or damaged (writeToTargets, _runBackup).      *)
(***************************************************************************)
THEOREM ChecksumsMatch == Spec => []ChecksumMatches
<1>1. Inv => ChecksumMatches
  BY DEF Inv
<1>2. QED
  BY <1>1, InvAlways, PTL

(***************************************************************************)
(* However many retention passes and operators delete the same backup at   *)
(* once, a record that says deleted has no copy left (applyRetention,      *)
(* DELETE /api/backup/catalog/:backupId).                                  *)
(***************************************************************************)
THEOREM DeletedIsGone == Spec => []DeletedMeansGone
<1>1. Inv => DeletedMeansGone
  BY DEF Inv
<1>2. QED
  BY <1>1, InvAlways, PTL

(***************************************************************************)
(* Whatever passes overlap, and whatever completes, is deleted, edited or  *)
(* crashes meanwhile, all the backups that retention has ever chosen are   *)
(* outlived, by the loosest rules any pass has read, by backups that none  *)
(* has chosen (applyRetention).                                            *)
(***************************************************************************)
THEOREM NewestAreSpared == Spec => []RetentionSparesNewest
<1>1. Inv => RetentionSparesNewest
  BY DEF Inv
<1>2. QED
  BY <1>1, InvAlways, PTL
=============================================================================
