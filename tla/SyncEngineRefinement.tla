------------------------ MODULE SyncEngineRefinement ------------------------
(***************************************************************************)
(* SyncEngine implements SyncControl: the mode is what `running' and       *)
(* `stopRequested' say together, and a pending repeat timer is an armed    *)
(* one.                                                                    *)
(***************************************************************************)
EXTENDS SyncEngine

modeBar == IF ~running THEN "idle" ELSE IF stopRequested THEN "stopping" ELSE "running"

Control == INSTANCE SyncControl WITH mode <- modeBar, armed <- timer # NoConfig

\* Starting, stopping, repeating and ending a sync follow SyncControl: no step
\* of the listing, copying or deleting code starts or ends a run on the side.
ControlSpec == Control!Spec
=============================================================================
