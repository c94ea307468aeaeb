------------------------------- MODULE Console -------------------------------
(***************************************************************************)
(* A page of public/app.js and the server it drives: the S3 panel or the   *)
(* database panel, which are written alike.  The page learns what the      *)
(* server does in two ways that overtake each other: answers to its HTTP   *)
(* requests, and events on a socket that may be down.                      *)
(*                                                                         *)
(* The server is SyncControl, which SyncEngine and DbSync implement, with  *)
(* what it tells the page.  Of its events only sync:stopped                *)
(* (db:sync:stopped) changes what the page shows as running, so the socket *)
(* is a number of these.  A request or an answer that is lost is a failed  *)
(* request to the page.                                                    *)
(***************************************************************************)
EXTENDS Naturals

CONSTANT MaxEvents   \* bound: events on their way to the page

ASSUME ConsoleAssumption == MaxEvents \in Nat \ {0}

VARIABLES
    panel,           \* "s3" or "db"
    mode, armed,     \* the server: running, stopRequested and repeatTimer
    connected, events,          \* the socket
    start, retry, status, stop, \* requests of the page in flight
    uiRunning, startEnabled, stopEnabled,   \* what the page shows
    doubt            \* history: the page missed something since it last showed "idle"

serverVars  == <<mode, armed>>
networkVars == <<connected, events>>
requestVars == <<start, retry, status, stop>>
pageVars    == <<uiRunning, startEnabled, stopEnabled>>
vars == <<panel, serverVars, networkVars, requestVars, pageVars, doubt>>

Command == {"none", "sent", "yes", "no"}

TypeOK ==
    /\ panel \in {"s3", "db"}
    /\ mode \in {"idle", "running", "stopping"} /\ armed \in BOOLEAN
    /\ connected \in BOOLEAN /\ events \in 0..MaxEvents
    /\ start \in Command /\ retry \in Command
    /\ status \in Command /\ stop \in {"none", "sent", "lost"}
    /\ uiRunning \in BOOLEAN /\ startEnabled \in BOOLEAN /\ stopEnabled \in BOOLEAN
    /\ doubt \in BOOLEAN
    /\ panel = "db" => retry = "none" /\ status = "none"

Server == INSTANCE SyncControl

Init ==
    /\ panel \in {"s3", "db"}
    /\ Server!Init
    /\ connected = FALSE /\ events = 0
    /\ start = "none" /\ retry = "none" /\ status = "none" /\ stop = "none"
    /\ uiRunning = FALSE /\ startEnabled = TRUE /\ stopEnabled = TRUE
    /\ doubt = FALSE

----------------------------------------------------------------------------
(* The server. *)

\* io.emit of a stopped event: to a page that is not connected it is lost.
Emits ==
    IF connected
    THEN /\ events < MaxEvents
         /\ events' = events + 1 /\ UNCHANGED <<connected, doubt>>
    ELSE /\ doubt' = TRUE
         /\ UNCHANGED networkVars

HandleStart ==
    /\ start = "sent"
    /\ \/ mode # "idle" /\ start' = "no" /\ UNCHANGED serverVars
       \/ Server!Start /\ start' \in {"yes", "no"}
    /\ UNCHANGED <<panel, networkVars, retry, status, stop, pageVars, doubt>>

\* There may be nothing to retry.
HandleRetry ==
    /\ retry = "sent"
    /\ \/ retry' = "no" /\ UNCHANGED serverVars
       \/ Server!Start /\ retry' \in {"yes", "no"}
    /\ UNCHANGED <<panel, networkVars, start, status, stop, pageVars, doubt>>

HandleStatus ==
    /\ status = "sent"
    /\ status' = IF mode = "idle" THEN "no" ELSE "yes"
    /\ UNCHANGED <<panel, serverVars, networkVars, start, retry, stop, pageVars, doubt>>

\* Fault for the mutation runs: nothing is emitted when nothing runs.
StopsQuietly ==
    /\ Server!Stop
    /\ UNCHANGED <<networkVars, doubt>>

\* stopSync, stopDbSync: the page hears of it even if nothing was running.
Stops ==
    /\ Server!Stop
    /\ IF mode = "idle" THEN Emits ELSE UNCHANGED <<networkVars, doubt>>

HandleStop ==
    /\ stop = "sent"
    /\ stop' = "none"
    /\ Stops
    /\ UNCHANGED <<panel, start, retry, status, pageVars>>

\* A run ends, for whatever reason.
RunEnds ==
    /\ Server!Finish \/ Server!Stopped
    /\ Emits
    /\ UNCHANGED <<panel, requestVars, pageVars>>

\* The repeat timer, another page, or a request of this page from before it was
\* loaded again.
OthersStart ==
    /\ Server!Start \/ Server!Fire
    /\ UNCHANGED <<panel, networkVars, requestVars, pageVars, doubt>>

OthersStop ==
    /\ Stops
    /\ UNCHANGED <<panel, requestVars, pageVars>>

\* The process ends and is started again.
ServerRestarts ==
    /\ Server!Restart
    /\ connected' = FALSE /\ events' = 0
    /\ doubt' = TRUE
    /\ UNCHANGED <<panel, requestVars, pageVars>>

----------------------------------------------------------------------------
(* The network. *)

Disconnects ==
    /\ connected
    /\ connected' = FALSE /\ events' = 0
    /\ doubt' = (doubt \/ events > 0)
    /\ UNCHANGED <<panel, serverVars, requestVars, pageVars>>

Lost(request) == request = "sent" /\ request' = "no"

RequestFails ==
    /\ \/ Lost(start) /\ UNCHANGED <<retry, status, stop, doubt>>
       \/ Lost(retry) /\ UNCHANGED <<start, status, stop, doubt>>
       \/ Lost(status) /\ UNCHANGED <<start, retry, stop, doubt>>
       \/ /\ stop = "sent" /\ stop' = "lost"
          /\ UNCHANGED <<start, retry, status, doubt>>
    /\ UNCHANGED <<panel, serverVars, networkVars, pageVars>>

----------------------------------------------------------------------------
(* The page. *)

\* Fault for the mutation runs: a new run inherits a disabled Stop button.
ShowKeepsStop(shown) == uiRunning' = shown /\ UNCHANGED stopEnabled

\* setRunning, setDbRunning
Show(shown) == uiRunning' = shown /\ stopEnabled' = TRUE

\* An answer that says a run is going on may come after the event of its end.
ShowsFromAnswer ==
    /\ Show(TRUE)
    /\ doubt' = (doubt \/ (mode = "idle" /\ events = 0))

\* startSync, startDbSync: the button is disabled and never enabled again.
ClickStart ==
    /\ ~uiRunning /\ startEnabled /\ start = "none"
    /\ startEnabled' = FALSE
    /\ Show(TRUE)
    /\ start' = "sent"
    /\ UNCHANGED <<panel, serverVars, networkVars, retry, status, stop, doubt>>

\* Fault for the mutation runs: the answer is not looked at.
StartAnsweredUnseen ==
    /\ start \in {"yes", "no"}
    /\ start' = "none"
    /\ UNCHANGED <<panel, serverVars, networkVars, retry, status, stop, pageVars, doubt>>

StartAnswered ==
    /\ start \in {"yes", "no"}
    /\ start' = "none"
    /\ IF start = "no" THEN Show(FALSE) ELSE UNCHANGED <<uiRunning, stopEnabled>>
    /\ UNCHANGED <<panel, serverVars, networkVars, retry, status, stop, startEnabled, doubt>>

\* stopSync, stopDbSync of the page
ClickStop ==
    /\ uiRunning /\ stopEnabled /\ stop # "sent"
    /\ stopEnabled' = FALSE
    /\ stop' = "sent"
    /\ UNCHANGED <<panel, serverVars, networkVars, start, retry, status,
                   uiRunning, startEnabled, doubt>>

\* Fault for the mutation runs: the database panel's button gets the handler too.
ClickRetryAnywhere ==
    /\ retry = "none"
    /\ retry' = "sent"
    /\ UNCHANGED <<panel, serverVars, networkVars, start, status, stop, pageVars, doubt>>

\* retryFailed; the database panel's button has no handler.
ClickRetry ==
    /\ panel = "s3" /\ retry = "none"
    /\ retry' = "sent"
    /\ UNCHANGED <<panel, serverVars, networkVars, start, status, stop, pageVars, doubt>>

RetryAnswered ==
    /\ retry \in {"yes", "no"}
    /\ retry' = "none"
    /\ IF retry = "yes" THEN ShowsFromAnswer
       ELSE UNCHANGED <<uiRunning, stopEnabled, doubt>>
    /\ UNCHANGED <<panel, serverVars, networkVars, start, status, stop, startEnabled>>

\* The connect handler: the database panel asks for nothing.
Connects ==
    /\ ~connected
    /\ connected' = TRUE /\ events' = 0
    /\ IF panel = "s3" THEN status = "none" /\ status' = "sent" ELSE UNCHANGED status
    /\ UNCHANGED <<panel, serverVars, start, retry, stop, pageVars, doubt>>

StatusAnswered ==
    /\ status \in {"yes", "no"}
    /\ status' = "none"
    /\ IF status = "yes" THEN ShowsFromAnswer
       ELSE UNCHANGED <<uiRunning, stopEnabled, doubt>>
    /\ UNCHANGED <<panel, serverVars, networkVars, start, retry, stop, startEnabled>>

\* The handler of the stopped event
HearsStopped ==
    /\ events > 0
    /\ events' = events - 1
    /\ Show(FALSE)
    /\ doubt' = FALSE
    /\ UNCHANGED <<panel, serverVars, connected, requestVars, startEnabled>>

\* The page is loaded again; answers to its old requests go nowhere.
Reload ==
    /\ connected' = FALSE /\ events' = 0
    /\ start' = "none" /\ retry' = "none" /\ status' = "none" /\ stop' = "none"
    /\ uiRunning' = FALSE /\ startEnabled' = TRUE /\ stopEnabled' = TRUE
    /\ doubt' = FALSE
    /\ UNCHANGED <<panel, serverVars>>

Next ==
    \/ HandleStart \/ HandleRetry \/ HandleStatus \/ HandleStop
    \/ RunEnds \/ OthersStart \/ OthersStop \/ ServerRestarts
    \/ Disconnects \/ Connects \/ RequestFails
    \/ ClickStart \/ StartAnswered \/ ClickStop \/ ClickRetry \/ RetryAnswered
    \/ StatusAnswered \/ HearsStopped \/ Reload

Spec == Init /\ [][Next]_vars

\* A stop request that is not lost is handled, a run ends (RunEventuallyEnds of
\* SyncEngine and DbSync), and an event on an open socket is delivered.
FairSpec == Spec /\ WF_vars(HandleStop) /\ WF_vars(RunEnds) /\ WF_vars(HearsStopped)

----------------------------------------------------------------------------
(* Properties *)

\* A page that shows a run, and has missed nothing, is right: the server runs,
\* or the event that it ended is on its way, or a start is not yet answered.
ShownRunIsExplained ==
    uiRunning /\ ~doubt => mode # "idle" \/ events > 0 \/ start \in {"sent", "no"}

\* A page whose Stop was pressed is not left waiting: the request is on its way
\* or lost, the run is stopping, or the event that it stopped is on its way.
StopIsAnswered ==
    uiRunning /\ ~stopEnabled /\ ~doubt =>
        stop # "none" \/ mode = "stopping" \/ events > 0

\* Stop also frees a page that shows a run there is not, because an event was
\* lost or overtaken: unless the request or the connection is lost, it ends idle.
StopSettlesPage ==
    (stop = "sent" /\ connected /\ uiRunning)
        ~> (~uiRunning \/ ~connected \/ stop = "lost")
=============================================================================
