----------------------- MODULE MCSyncEngineRefinement -----------------------
(* An instance for the refinement: two keys, every kind of configuration. *)
EXTENDS SyncEngineRefinement

small1 == [body |-> 1, size |-> 1, etag |-> "plain"]
small2 == [body |-> 2, size |-> 1, etag |-> "plain"]

SmallObjects == {small1, small2}

\* Key 1 is new at the source, key 2 is an orphan of the destination.
SrcNewKey == {[k \in 1..2 |-> IF k = 1 THEN small1 ELSE Absent]}
DstOrphan == {[k \in 1..2 |-> IF k = 1 THEN Absent ELSE small1]}
=============================================================================
