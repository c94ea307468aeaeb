---------------------------- MODULE ConsoleProofs ----------------------------
(***************************************************************************)
(* A page that has missed nothing is right, however many events the socket *)
(* holds.  Beside the types the argument needs one fact: a socket that is  *)
(* down holds no event, so connecting again, which empties it, loses none  *)
(* that `doubt' does not know of.                                          *)
(***************************************************************************)
EXTENDS Console, TLAPS

\* A socket that is down holds no event.
DownIsEmpty == events > 0 => connected

ConsoleInv ==
    /\ TypeOK
    /\ DownIsEmpty
    /\ ShownRunIsExplained
    /\ StopIsAnswered

-----------------------------------------------------------------------------
(* The server's steps. *)

LEMMA ServerTypes ==
    ASSUME TypeOK, Server!Next
    PROVE  mode' \in {"idle", "running", "stopping"} /\ armed' \in BOOLEAN
  BY DEF TypeOK, Server!Next, Server!Start, Server!Fire, Server!Stop, Server!Shutdown,
         Server!Finish, Server!Stopped, Server!Restart

(***************************************************************************)
(* The socket may be empty, and one event may be taken from it.            *)
(***************************************************************************)
LEMMA EventNumbers ==
    /\ 0 \in 0..MaxEvents /\ ~(0 > 0)
    /\ \A n \in 0..MaxEvents : n > 0 => n - 1 \in 0..MaxEvents
  BY ConsoleAssumption

(***************************************************************************)
(* When a run begins the server runs, and a stop that is under way stays   *)
(* one.                                                                    *)
(***************************************************************************)
LEMMA StartRuns ==
    ASSUME TypeOK, Server!Start \/ Server!Fire
    PROVE  mode' # "idle" /\ (mode = "stopping" => mode' = "stopping")
  BY DEF TypeOK, Server!Start, Server!Fire

(***************************************************************************)
(* A stopped event reaches the socket of a page that is connected, and the *)
(* others know that they missed one.                                       *)
(***************************************************************************)
LEMMA EmitsTells ==
    ASSUME TypeOK, DownIsEmpty, Emits
    PROVE  /\ connected' = connected /\ events' \in 0..MaxEvents
           /\ doubt' \in BOOLEAN /\ DownIsEmpty'
           /\ doubt' \/ events' > 0
<1>1. CASE connected
  BY <1>1, ConsoleAssumption DEF TypeOK, DownIsEmpty, Emits
<1>2. CASE ~connected
  BY <1>2, ConsoleAssumption DEF TypeOK, DownIsEmpty, Emits, networkVars
<1>3. QED
  BY <1>1, <1>2

(***************************************************************************)
(* After a stop the run is stopping, or the page hears of it.              *)
(***************************************************************************)
LEMMA StopsTells ==
    ASSUME TypeOK, DownIsEmpty, Stops
    PROVE  /\ connected' = connected /\ events' \in 0..MaxEvents
           /\ doubt' \in BOOLEAN /\ DownIsEmpty'
           /\ mode' = "stopping" \/ doubt' \/ events' > 0
           /\ mode' \in {"idle", "running", "stopping"} /\ armed' \in BOOLEAN
<1>1. Server!Stop
  BY DEF Stops
<1>2. mode' \in {"idle", "running", "stopping"} /\ armed' \in BOOLEAN
  BY <1>1, ServerTypes DEF Server!Next
<1>3. CASE mode = "idle"
  BY <1>2, <1>3, EmitsTells DEF Stops
<1>4. CASE mode # "idle"
  BY <1>1, <1>2, <1>4 DEF Stops, Server!Stop, TypeOK, DownIsEmpty, networkVars
<1>5. QED
  BY <1>3, <1>4

-----------------------------------------------------------------------------
(* Every step. *)

LEMMA TypeStep ==
    ASSUME TypeOK, DownIsEmpty, [Next]_vars
    PROVE  TypeOK' /\ DownIsEmpty'
<1> USE DEF TypeOK, DownIsEmpty, Command, serverVars, networkVars, requestVars, pageVars
<1>1. CASE HandleStart \/ HandleRetry \/ HandleStatus
  BY <1>1, ServerTypes DEF HandleStart, HandleRetry, HandleStatus, Server!Next
<1>2. CASE HandleStop
  BY <1>2, StopsTells DEF HandleStop
<1>3. CASE RunEnds
  BY <1>3, ServerTypes, EmitsTells DEF RunEnds, Server!Next
<1>4. CASE OthersStart
  BY <1>4, ServerTypes DEF OthersStart, Server!Next
<1>5. CASE OthersStop
  BY <1>5, StopsTells DEF OthersStop
<1>6. CASE ServerRestarts
  BY <1>6, ServerTypes, EventNumbers DEF ServerRestarts, Server!Next
<1>7. CASE Disconnects
  <2>1. doubt' \in BOOLEAN
    BY <1>7 DEF Disconnects
  <2>2. /\ connected' = FALSE /\ events' = 0
        /\ UNCHANGED <<panel, serverVars, requestVars, pageVars>>
    BY <1>7 DEF Disconnects
  <2>3. DownIsEmpty'
    BY <2>2, EventNumbers
  <2>4. connected' \in BOOLEAN /\ events' \in 0..MaxEvents
    BY <2>2, EventNumbers
  <2>5. TypeOK'
    BY <2>1, <2>2, <2>4
  <2>6. QED
    BY <2>3, <2>5
<1>8. CASE Connects
  BY <1>8, EventNumbers DEF Connects
<1>9. CASE RequestFails
  BY <1>9 DEF RequestFails, Lost
<1>10. CASE ClickStart \/ StartAnswered \/ ClickStop \/ ClickRetry
  BY <1>10 DEF ClickStart, StartAnswered, ClickStop, ClickRetry, Show
<1>11. CASE RetryAnswered \/ StatusAnswered
  BY <1>11 DEF RetryAnswered, StatusAnswered, ShowsFromAnswer, Show
<1>12. CASE HearsStopped
  BY <1>12, EventNumbers DEF HearsStopped, Show
<1>13. CASE Reload
  BY <1>13, EventNumbers DEF Reload
<1>14. CASE UNCHANGED vars
  BY <1>14 DEF vars
<1>15. QED
  BY <1>1, <1>2, <1>3, <1>4, <1>5, <1>6, <1>7, <1>8, <1>9, <1>10, <1>11, <1>12,
     <1>13, <1>14 DEF Next

(***************************************************************************)
(* What explains a run that is shown goes only when something else comes:  *)
(* a start is handled and the server runs, or it is refused; a run ends    *)
(* and the event is sent.                                                  *)
(***************************************************************************)
LEMMA ShownStep ==
    ASSUME TypeOK, DownIsEmpty, ShownRunIsExplained, [Next]_vars
    PROVE  ShownRunIsExplained'
<1> USE DEF ShownRunIsExplained, TypeOK, Command,
            serverVars, networkVars, requestVars, pageVars
<1>1. CASE HandleStart \/ HandleRetry \/ HandleStatus \/ OthersStart
  BY <1>1, StartRuns DEF HandleStart, HandleRetry, HandleStatus, OthersStart
<1>2. CASE HandleStop \/ OthersStop
  BY <1>2, StopsTells DEF HandleStop, OthersStop
<1>3. CASE RunEnds
  BY <1>3, EmitsTells DEF RunEnds
<1>4. CASE ServerRestarts \/ Disconnects \/ Connects
  BY <1>4 DEF ServerRestarts, Disconnects, Connects, DownIsEmpty
<1>5. CASE RequestFails
  BY <1>5 DEF RequestFails, Lost
<1>6. CASE ClickStart \/ StartAnswered \/ ClickStop \/ ClickRetry
  BY <1>6 DEF ClickStart, StartAnswered, ClickStop, ClickRetry, Show
<1>7. CASE RetryAnswered \/ StatusAnswered
  <2>1. CASE ShowsFromAnswer
    <3>1. UNCHANGED <<mode, events>>
      BY <1>7 DEF RetryAnswered, StatusAnswered
    <3>2. events = 0 \/ events > 0
      BY ConsoleAssumption
    <3>3. CASE mode = "idle" /\ events = 0
      <4>1. doubt'
        BY <2>1, <3>3 DEF ShowsFromAnswer
      <4>2. QED
        BY <4>1
    <3>4. CASE ~(mode = "idle" /\ events = 0)
      BY <3>1, <3>2, <3>4
    <3>5. QED
      BY <3>3, <3>4
  <2>2. CASE ~ShowsFromAnswer
    BY <1>7, <2>2 DEF RetryAnswered, StatusAnswered
  <2>3. QED
    BY <2>1, <2>2
<1>8. CASE HearsStopped \/ Reload
  BY <1>8 DEF HearsStopped, Reload, Show
<1>9. CASE UNCHANGED vars
  BY <1>9 DEF vars
<1>10. QED
  BY <1>1, <1>2, <1>3, <1>4, <1>5, <1>6, <1>7, <1>8, <1>9 DEF Next

(***************************************************************************)
(* A stop that was asked for becomes a stopping run, or an event.          *)
(***************************************************************************)
LEMMA StopStep ==
    ASSUME TypeOK, DownIsEmpty, StopIsAnswered, [Next]_vars
    PROVE  StopIsAnswered'
<1> USE DEF StopIsAnswered, TypeOK, Command,
            serverVars, networkVars, requestVars, pageVars
<1>1. CASE HandleStart \/ HandleRetry \/ HandleStatus \/ OthersStart
  BY <1>1, StartRuns DEF HandleStart, HandleRetry, HandleStatus, OthersStart
<1>2. CASE HandleStop \/ OthersStop
  BY <1>2, StopsTells DEF HandleStop, OthersStop
<1>3. CASE RunEnds
  BY <1>3, EmitsTells DEF RunEnds
<1>4. CASE ServerRestarts \/ Disconnects \/ Connects
  BY <1>4 DEF ServerRestarts, Disconnects, Connects, DownIsEmpty
<1>5. CASE RequestFails
  BY <1>5 DEF RequestFails, Lost
<1>6. CASE ClickStart \/ StartAnswered \/ ClickStop \/ ClickRetry
  BY <1>6 DEF ClickStart, StartAnswered, ClickStop, ClickRetry, Show
<1>7. CASE RetryAnswered \/ StatusAnswered
  BY <1>7 DEF RetryAnswered, StatusAnswered, ShowsFromAnswer, Show
<1>8. CASE HearsStopped \/ Reload
  BY <1>8 DEF HearsStopped, Reload, Show
<1>9. CASE UNCHANGED vars
  BY <1>9 DEF vars
<1>10. QED
  BY <1>1, <1>2, <1>3, <1>4, <1>5, <1>6, <1>7, <1>8, <1>9 DEF Next

-----------------------------------------------------------------------------
(* Every behaviour. *)

LEMMA ConsoleInvAlways == Spec => []ConsoleInv
<1>1. Init => ConsoleInv
  BY EventNumbers DEF Init, Server!Init, ConsoleInv, TypeOK, DownIsEmpty, Command,
                           ShownRunIsExplained, StopIsAnswered
<1>2. ConsoleInv /\ [Next]_vars => ConsoleInv'
  BY TypeStep, ShownStep, StopStep DEF ConsoleInv
<1>3. QED
  BY <1>1, <1>2, PTL DEF Spec

(***************************************************************************)
(* The page, the network and the server keep their types; the socket never *)
(* holds more than MaxEvents.                                              *)
(***************************************************************************)
THEOREM ConsoleTypes == Spec => []TypeOK
<1>1. ConsoleInv => TypeOK
  BY DEF ConsoleInv
<1>2. QED
  BY <1>1, ConsoleInvAlways, PTL

(***************************************************************************)
(* The run a page of app.js shows goes on, or its end or the answer to the *)
(* start is on the way, unless an event was lost or overtaken.             *)
(***************************************************************************)
THEOREM ConsoleShowsRuns == Spec => []ShownRunIsExplained
<1>1. ConsoleInv => ShownRunIsExplained
  BY DEF ConsoleInv
<1>2. QED
  BY <1>1, ConsoleInvAlways, PTL

(***************************************************************************)
(* A page whose Stop button was pressed waits for something that comes: a  *)
(* stop request that finds nothing running emits the event all the same.   *)
(***************************************************************************)
THEOREM ConsoleAnswersStop == Spec => []StopIsAnswered
<1>1. ConsoleInv => StopIsAnswered
  BY DEF ConsoleInv
<1>2. QED
  BY <1>1, ConsoleInvAlways, PTL
=============================================================================
