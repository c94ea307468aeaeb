----------------------------- MODULE SyncControl -----------------------------
(***************************************************************************)
(* What the S3 sync promises to whoever controls it, without the files:    *)
(* there is one run at a time; a run begins because the user asks or       *)
(* because the repeat timer, armed by a run that completed, goes off; a    *)
(* run that was told to stop ends and arms nothing.  SyncEngine implements *)
(* this (SyncEngineRefinement).                                            *)
(***************************************************************************)
VARIABLES
    mode,   \* "idle", "running" or "stopping"
    armed   \* the repeat timer is pending

controlVars == <<mode, armed>>

Modes == {"idle", "running", "stopping"}

Init == mode = "idle" /\ armed = FALSE

Start == mode = "idle" /\ mode' = "running" /\ UNCHANGED armed

\* The timer goes off; if a run is going on it is lost.
Fire ==
    /\ armed
    /\ armed' = FALSE
    /\ mode' = IF mode = "idle" THEN "running" ELSE mode

Stop ==
    /\ armed' = FALSE
    /\ mode' = IF mode = "running" THEN "stopping" ELSE mode

\* The process is asked to end: the run stops, the timer is not cancelled.
Shutdown == mode = "running" /\ mode' = "stopping" /\ UNCHANGED armed

\* A run completes or fails; only one that was not stopped may arm the timer.
Finish == mode = "running" /\ mode' = "idle" /\ armed' \in {armed, TRUE}

Stopped == mode = "stopping" /\ mode' = "idle" /\ UNCHANGED armed

\* The process dies and is started again.
Restart == mode' = "idle" /\ armed' = FALSE

Next == Start \/ Fire \/ Stop \/ Shutdown \/ Finish \/ Stopped \/ Restart

Spec == Init /\ [][Next]_controlVars
=============================================================================
