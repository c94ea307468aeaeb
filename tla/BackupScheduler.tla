--------------------------- MODULE BackupScheduler ---------------------------
(***************************************************************************)
(* The scheduler of backup jobs: src/backupScheduler.js, with the job file *)
(* of src/backupJobStore.js and the handlers of server.js that create,     *)
(* update and delete jobs.                                                 *)
(*                                                                         *)
(* Each job with a valid schedule has a repeating timer.  Node re-arms a   *)
(* repeating timer when its callback runs, so a callback that is late      *)
(* delays all the later ones; it may be late by MaxLate ticks.             *)
(*                                                                         *)
(* startBackup returns before it first waits (BackupEngine), so the set    *)
(* _runningJobs of _triggerJob is empty whenever a callback begins, and    *)
(* its guard never holds: it is not a variable here.                       *)
(***************************************************************************)
EXTENDS BackupSchedule

CONSTANTS
    NoTimer,
    Never,       \* lastFiredMinute of a new timer (-1)
    MaxDelay,    \* longest delay of a Node timer; beyond it, it is the shortest
    MaxLate,     \* bound: ticks a callback may be late
    MaxChanges   \* bound: changes to jobs and restarts

ASSUME SchedulerAssumption ==
    /\ TicksPerMinute \in Nat \ {0} /\ MinutesPerHour \in Nat \ {0}
    /\ HoursPerDay \in Nat \ {0} /\ Days \in Nat \ {0}
    /\ Longest \in Nat /\ MaxDelay \in Nat \ {0}
    /\ MaxLate \in Nat /\ MaxChanges \in Nat
    /\ NoJob \notin Schedules
    /\ \A s \in Schedules :
          /\ s.type \in {"none", "cron", "every", "invalid"}
          /\ s.type = "every" => s.every \in 1..Longest
    /\ NoTimer \notin [schedule : Schedules, left : Int, lastFired : Int]
    /\ Never \in Int \ Nat

\* No interval is so long that its delay overflows.  The validation of jobs does
\* not see to it: a longer one becomes the shortest (Delay), and what rests on
\* this names it as a hypothesis.
IntervalsFit ==
    \A s \in Schedules : s.type = "every" => s.every <= MaxDelay

VARIABLES
    timers,   \* _timers: the job's timer, with the schedule it was made from
    changes   \* bound: changes and restarts so far

vars == <<file, clock, hit, since, timers, changes>>

\* A fault for the mutation runs: seconds are taken for milliseconds.
DelayInMilliseconds(s) == IF IsCron(s) THEN TicksPerMinute ELSE 1

\* Another fault: cron expressions are looked at once an hour.
DelayOfAnHour(s) ==
    IF IsCron(s) THEN TicksPerMinute * MinutesPerHour
    ELSE IF s.every > MaxDelay THEN 1 ELSE s.every

\* Ticks from one callback to the next: 60 000 ms, or the interval.
Delay(s) ==
    IF IsCron(s) THEN TicksPerMinute
    ELSE IF s.every > MaxDelay THEN 1 ELSE s.every

\* scheduleJob: none for a job without a schedule, or with an invalid one.
TimerFor(s) ==
    IF IsCron(s) \/ IsInterval(s)
    THEN [schedule |-> s, left |-> Delay(s), lastFired |-> Never]
    ELSE NoTimer

\* initScheduler
AllScheduled == [j \in Jobs |-> TimerFor(file[j])]

TypeOK ==
    /\ file \in [Jobs -> Schedules \cup {NoJob}]
    /\ clock \in Moments
    /\ hit \in [Jobs -> BOOLEAN]
    /\ since \in [Jobs -> 0..Longest]
    /\ timers \in [Jobs -> [schedule : {s \in Schedules : IsCron(s) \/ IsInterval(s)},
                            left : (-MaxLate)..Longest \cup (-MaxLate)..TicksPerMinute,
                            lastFired : 0..(MinutesPerDay - 1) \cup {Never}]
                           \cup {NoTimer}]
    /\ changes \in 0..MaxChanges

SchedulerInit ==
    /\ Init
    /\ timers = AllScheduled
    /\ changes = 0

\* Time passes as long as no callback is more than MaxLate ticks late.
TimePasses ==
    /\ \A j \in Jobs : timers[j] # NoTimer => timers[j].left > -MaxLate
    /\ Tick
    /\ timers' = [j \in Jobs |-> IF timers[j] = NoTimer THEN NoTimer
                                 ELSE [timers[j] EXCEPT !.left = @ - 1]]
    /\ UNCHANGED changes

\* A fault: a minute counts as new only if it is later in the day.
FiresInLaterMinutes(t) ==
    \/ IsInterval(t.schedule)
    \/ /\ IsCron(t.schedule)
       /\ MatchesCron(clock, Parsed(t.schedule))
       /\ MinuteOfDay(clock) > t.lastFired

\* The test of a cron callback: a minute is remembered by its time of day.
Fires(t) ==
    \/ IsInterval(t.schedule)
    \/ /\ IsCron(t.schedule)
       /\ MatchesCron(clock, Parsed(t.schedule))
       /\ MinuteOfDay(clock) # t.lastFired

Rearmed(t) ==
    [t EXCEPT !.left = Delay(t.schedule),
              !.lastFired = IF IsCron(t.schedule) /\ Fires(t)
                            THEN MinuteOfDay(clock) ELSE @]

\* _triggerJob: the job is read again and started; starting it may fail.
Trigger(j) ==
    IF file[j] = NoJob THEN UNCHANGED <<hit, since>>
    ELSE \/ hit' = [hit EXCEPT ![j] = TRUE] /\ since' = [since EXCEPT ![j] = 0]
         \/ UNCHANGED <<hit, since>>

TimerFires(j) ==
    /\ timers[j] # NoTimer
    /\ timers[j].left <= 0
    /\ timers' = [timers EXCEPT ![j] = Rearmed(timers[j])]
    /\ IF Fires(timers[j]) THEN Trigger(j) ELSE UNCHANGED <<hit, since>>
    /\ UNCHANGED <<file, clock, changes>>

Changes == changes < MaxChanges /\ changes' = changes + 1

\* POST /api/backup/jobs: createBackupJob makes a new identifier.
CreateJob(j) ==
    /\ Changes
    /\ Create(j)
    /\ timers' = [timers EXCEPT ![j] = TimerFor(file'[j])]

\* A fault: the old timer goes only when there is a new one.
UpdateJobKeepsTimer(j) ==
    /\ Changes
    /\ Change(j)
    /\ file'[j] # NoJob
    /\ timers' = [timers EXCEPT ![j] = IF TimerFor(file'[j]) = NoTimer
                                      THEN @ ELSE TimerFor(file'[j])]

\* PUT /api/backup/jobs/:id with a schedule: updateBackupJob, rescheduleJob
UpdateJob(j) ==
    /\ Changes
    /\ Change(j)
    /\ file'[j] # NoJob
    /\ timers' = [timers EXCEPT ![j] = TimerFor(file'[j])]

\* DELETE /api/backup/jobs/:id: unscheduleJob, deleteBackupJob
DeleteJob(j) ==
    /\ Changes
    /\ Change(j)
    /\ file'[j] = NoJob
    /\ timers' = [timers EXCEPT ![j] = NoTimer]

\* The process ends and is started again: initScheduler reads the job file.
Restart ==
    /\ Changes
    /\ timers' = AllScheduled
    /\ UNCHANGED <<file, clock, hit, since>>

SchedulerNext ==
    \/ TimePasses
    \/ Restart
    \/ \E j \in Jobs : \/ TimerFires(j) \/ CreateJob(j)
                       \/ UpdateJob(j) \/ DeleteJob(j)

SchedulerSpec == SchedulerInit /\ [][SchedulerNext]_vars

\* The clock goes on and a callback that is due runs.
FairSpec ==
    /\ SchedulerSpec
    /\ WF_vars(TimePasses)
    /\ \A j \in Jobs : WF_vars(TimerFires(j))

----------------------------------------------------------------------------
\* The timers are those of the jobs in the file, through every change and
\* restart: no timer outlives its job or its schedule, and no job with a valid
\* schedule is without one.
TimersFollowFile ==
    \A j \in Jobs :
        IF IsCron(file[j]) \/ IsInterval(file[j])
        THEN timers[j] # NoTimer /\ timers[j].schedule = file[j]
        ELSE timers[j] = NoTimer

\* The scheduler keeps what BackupSchedule promises: no start outside the
\* stored schedule, none twice in a minute or within an interval, whatever was
\* changed, restarted or late in between; as long as the intervals fit.
KeepsPromise == Spec

\* What keeps a cron job from a second start in its minute and an interval job
\* from an early one: how long the timer has yet to run.  The remembered minute
\* is not needed for it.
SpacedInv ==
    \A j \in Jobs : timers[j] # NoTimer =>
        LET t == timers[j] IN
        /\ IsCron(t.schedule) /\ hit[j] =>
               t.left + (clock % TicksPerMinute) >= TicksPerMinute
        /\ IsInterval(t.schedule) =>
               \/ since[j] = Longest
               \/ since[j] + t.left >= Delay(t.schedule)

EveryMinute(s) == IsCron(s) /\ \A c \in Moments : MatchesCron(c, Parsed(s))

\* A job with an interval, and one whose expression names every minute, has a
\* callback that starts it again and again, whatever starts failed before.
FrequentJobsComeRound ==
    \A j \in Jobs :
        <>[](IsInterval(file[j]) \/ EveryMinute(file[j])) =>
            []<><<timers[j] # NoTimer /\ Fires(timers[j]) /\ TimerFires(j)>>_vars

\* Requirement 2.2: a job whose time is reached is started; so a job that names
\* some minute of each day is started again and again.
CronJobsComeRound ==
    \A j \in Jobs :
        <>[](IsCron(file[j]) /\ \E c \in Moments : MatchesCron(c, Parsed(file[j]))) =>
            []<><<timers[j] # NoTimer /\ Fires(timers[j]) /\ TimerFires(j)>>_vars
=============================================================================
