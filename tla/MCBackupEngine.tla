--------------------------- MODULE MCBackupEngine ---------------------------
(***************************************************************************)
(* BackupEngine with a local and an S3 target.                             *)
(***************************************************************************)
EXTENDS BackupEngine

\* A job that keeps nothing, in clear, and one that keeps one backup, encrypted.
TwoJobs  == {<<0, Plain>>} \cup ({1} \X Keys)
PlainJob == {<<1, Plain>>}
KeptJobs == {1} \X Keys

\* A rule by week, with both backups in the same week.
OneWeek == {[b \in Backups |-> 1]}
=============================================================================
