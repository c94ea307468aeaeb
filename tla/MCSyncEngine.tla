---------------------------- MODULE MCSyncEngine ----------------------------
(***************************************************************************)
(* An instance of SyncEngine small enough for TLC.  Two small objects of   *)
(* the same size and different bodies, and a large one that is stored as a *)
(* multipart upload.                                                       *)
(***************************************************************************)
EXTENDS SyncEngine

small1 == [body |-> 1, size |-> 1, etag |-> "plain"]
small2 == [body |-> 2, size |-> 1, etag |-> "plain"]
large  == [body |-> 3, size |-> 2, etag |-> "multipart"]

AllObjects == {small1, small2, large}

\* Keys 1 and 2 have to be copied and key 3 is an orphan.  Key 4 is in both
\* buckets, and outside the prefix of the source.
SrcTwoNew ==
    {[k \in 1..4 |-> IF k = 2 THEN large ELSE IF k = 3 THEN Absent ELSE small1]}
DstThird ==
    {[k \in 1..4 |-> IF k = 1 THEN small2 ELSE IF k = 2 THEN Absent ELSE small1]}
=============================================================================
