------------------------ MODULE BackupSchedulerProofs ------------------------
(***************************************************************************)
(* The scheduler of backup jobs: its types, its timers, the distance       *)
(* between two starts, and that it implements BackupSchedule, for any      *)
(* calendar, any jobs and schedules, and callbacks however late.           *)
(***************************************************************************)
EXTENDS BackupScheduler, TLAPS

Calendar == MinutesPerDay \in Nat \ {0} /\ Cycle \in Nat \ {0}

LEMMA ProductPositive ==
    ASSUME NEW a \in Nat \ {0}, NEW b \in Nat \ {0}
    PROVE  a * b \in Nat \ {0}
  OBVIOUS

LEMMA CalendarIsPositive == Calendar
<1>1. MinutesPerDay \in Nat \ {0}
  BY SchedulerAssumption, ProductPositive DEF MinutesPerDay
<1>2. TicksPerMinute * MinutesPerDay \in Nat \ {0}
  BY <1>1, SchedulerAssumption, ProductPositive
<1>3. (TicksPerMinute * MinutesPerDay) * Days \in Nat \ {0}
  BY <1>2, SchedulerAssumption, ProductPositive
<1>4. QED  BY <1>1, <1>3 DEF Calendar, Cycle

LEMMA MinuteInRange ==
    ASSUME NEW c \in Moments
    PROVE  MinuteOfDay(c) \in 0..(MinutesPerDay - 1)
<1>1. c \in Nat
  BY CalendarIsPositive DEF Moments, Calendar
<1>2. c \div TicksPerMinute \in Nat
  BY <1>1, SchedulerAssumption
<1>3. QED  BY <1>2, CalendarIsPositive DEF Calendar, MinuteOfDay

\* A number below n that is a multiple of n is 0.
LEMMA OnlyMultiple ==
    ASSUME NEW n \in Nat \ {0}, NEW k \in Int, n * k < n, n * k > -n
    PROVE  k = 0
<1>1. ASSUME k >= 1 PROVE FALSE
  <2>1. n * k >= n * 1  BY <1>1
  <2>2. QED  BY <2>1
<1>2. ASSUME k <= -1 PROVE FALSE
  <2>1. n * k <= n * (-1)  BY <1>2
  <2>2. QED  BY <2>1
<1>3. QED  BY <1>1, <1>2

LEMMA NextRemainder ==
    ASSUME NEW n \in Nat \ {0}, NEW c \in Nat, (c + 1) % n # 0
    PROVE  (c + 1) % n = (c % n) + 1
<1> DEFINE q == c \div n
           r == c % n
           p == (c + 1) \div n
           s == (c + 1) % n
<1>1. q \in Int /\ r \in 0..(n - 1) /\ c = n * q + r
  OBVIOUS
<1>2. p \in Int /\ s \in 0..(n - 1) /\ c + 1 = n * p + s
  OBVIOUS
<1> HIDE DEF q, r, p, s
<1>3. n * (p - q) = r + 1 - s
  BY <1>1, <1>2
<1>4. p - q = 0
  <2>1. s >= 1  BY <1>2 DEF s
  <2>2. r + 1 - s < n /\ r + 1 - s > -n  BY <2>1, <1>1, <1>2
  <2>3. QED  BY <2>2, <1>1, <1>2, <1>3, OnlyMultiple
<1>5. QED  BY <1>1, <1>2, <1>3, <1>4 DEF r, s

\* The place of a tick in its minute goes up by one, unless a minute begins.
LEMMA NextInMinute ==
    ASSUME NEW c \in Moments, ((c + 1) % Cycle) % TicksPerMinute # 0
    PROVE  ((c + 1) % Cycle) % TicksPerMinute = (c % TicksPerMinute) + 1
<1>1. c \in Nat /\ c + 1 <= Cycle /\ Cycle \in Nat \ {0}
  BY CalendarIsPositive DEF Moments, Calendar
<1>2. CASE c + 1 = Cycle
  <2>1. (c + 1) % Cycle = 0  BY <1>1, <1>2
  <2>2. QED  BY <2>1, SchedulerAssumption
<1>3. CASE c + 1 < Cycle
  <2>1. (c + 1) % Cycle = c + 1  BY <1>1, <1>3
  <2>2. QED  BY <2>1, <1>1, NextRemainder, SchedulerAssumption
<1>4. QED  BY <1>1, <1>2, <1>3

------------------------------------------------------------------------------
Timed == {s \in Schedules : IsCron(s) \/ IsInterval(s)}

Timer == [schedule : Timed,
          left : (-MaxLate)..Longest \cup (-MaxLate)..TicksPerMinute,
          lastFired : 0..(MinutesPerDay - 1) \cup {Never}]

LEMMA NoTimerIsNone == NoTimer \notin Timer
<1>1. Timer \subseteq [schedule : Schedules, left : Int, lastFired : Int]
  BY SchedulerAssumption, CalendarIsPositive DEF Timer, Timed, Calendar
<1>2. QED  BY <1>1, SchedulerAssumption

\* How long a timer of a valid schedule has to run.
LEMMA DelayInRange ==
    ASSUME NEW s \in Timed
    PROVE  /\ IsCron(s) => Delay(s) = TicksPerMinute
           /\ IsInterval(s) => /\ ~IsCron(s)
                               /\ Delay(s) \in 1..Longest /\ s.every \in 1..Longest
                               /\ IntervalsFit => Delay(s) = s.every
           /\ Delay(s) \in 1..Longest \cup 1..TicksPerMinute
  BY SchedulerAssumption DEF IntervalsFit, Timed, Delay, IsCron, IsInterval

LEMMA TimerForInRange ==
    ASSUME NEW s \in Schedules \cup {NoJob}
    PROVE  /\ TimerFor(s) \in Timer \cup {NoTimer}
           /\ TimerFor(s) # NoTimer =>
                 /\ s \in Timed
                 /\ TimerFor(s).schedule = s /\ TimerFor(s).left = Delay(s)
           /\ TimerFor(s) # NoTimer <=> IsCron(s) \/ IsInterval(s)
<1>1. CASE s \in Timed
  <2>1. TimerFor(s) = [schedule |-> s, left |-> Delay(s), lastFired |-> Never]
    BY <1>1 DEF TimerFor, Timed
  <2>2. Delay(s) \in (-MaxLate)..Longest \cup (-MaxLate)..TicksPerMinute
    BY <1>1, DelayInRange, SchedulerAssumption
  <2>3. TimerFor(s) \in Timer
    BY <1>1, <2>1, <2>2 DEF Timer
  <2>4. QED  BY <1>1, <2>1, <2>3, NoTimerIsNone DEF Timed
<1>2. CASE s \notin Timed
  <2>1. ~IsCron(s) /\ ~IsInterval(s)
    BY <1>2 DEF Timed, IsCron, IsInterval
  <2>2. QED  BY <2>1 DEF TimerFor
<1>3. QED  BY <1>1, <1>2

LEMMA RearmedInRange ==
    ASSUME NEW t \in Timer, clock \in Moments
    PROVE  /\ Rearmed(t) \in Timer
           /\ Rearmed(t).schedule = t.schedule
           /\ Rearmed(t).left = Delay(t.schedule)
<1>1. Delay(t.schedule) \in (-MaxLate)..Longest \cup (-MaxLate)..TicksPerMinute
  BY DelayInRange, SchedulerAssumption DEF Timer
<1>2. MinuteOfDay(clock) \in 0..(MinutesPerDay - 1)
  BY MinuteInRange
<1>3. QED  BY <1>1, <1>2 DEF Timer, Rearmed

------------------------------------------------------------------------------
(* Types. *)

LEMMA TypesInTimer ==
    ASSUME TypeOK
    PROVE  timers \in [Jobs -> Timer \cup {NoTimer}]
  BY DEF TypeOK, Timer, Timed

LEMMA InitTypes == SchedulerInit => TypeOK
<1> SUFFICES ASSUME SchedulerInit PROVE TypeOK
  OBVIOUS
<1> USE DEF SchedulerInit, Init
<1>1. 0 \in Moments
  BY CalendarIsPositive DEF Moments, Calendar
<1>2. timers \in [Jobs -> Timer \cup {NoTimer}]
  BY TimerForInRange DEF AllScheduled
<1>3. changes \in 0..MaxChanges /\ since \in [Jobs -> 0..Longest]
  BY SchedulerAssumption
<1>4. QED  BY <1>1, <1>2, <1>3 DEF TypeOK, Timer, Timed

LEMMA TypesKept == TypeOK /\ [SchedulerNext]_vars => TypeOK'
<1> SUFFICES ASSUME TypeOK, [SchedulerNext]_vars PROVE TypeOK'
  OBVIOUS
<1> DEFINE Typed == timers' \in [Jobs -> Timer \cup {NoTimer}]
           Kept == /\ file' \in [Jobs -> Schedules \cup {NoJob}]
                   /\ clock' \in Moments
                   /\ hit' \in [Jobs -> BOOLEAN]
                   /\ since' \in [Jobs -> 0..Longest]
                   /\ Typed
                   /\ changes' \in 0..MaxChanges
<1>0. /\ timers \in [Jobs -> Timer \cup {NoTimer}] /\ file \in [Jobs -> Schedules \cup {NoJob}]
      /\ clock \in Moments /\ hit \in [Jobs -> BOOLEAN] /\ since \in [Jobs -> 0..Longest]
      /\ changes \in 0..MaxChanges
  BY TypesInTimer DEF TypeOK
<1>q. SUFFICES Kept
  BY DEF TypeOK, Timer, Timed
<1>c. ASSUME Changes PROVE changes' \in 0..MaxChanges
  BY <1>0, <1>c, SchedulerAssumption DEF Changes
<1>1. CASE TimePasses
  <2>1. clock' \in Moments
    BY <1>0, <1>1, CalendarIsPositive DEF TimePasses, Tick, Moments, Calendar
  <2>2. since' \in [Jobs -> 0..Longest]
    BY <1>0, <1>1, SchedulerAssumption DEF TimePasses, Tick, Later
  <2>3. Typed
    <3>1. ASSUME NEW j \in Jobs, timers[j] # NoTimer
          PROVE  [timers[j] EXCEPT !.left = @ - 1] \in Timer
      <4>1. timers[j] \in Timer /\ timers[j].left > -MaxLate
        BY <1>0, <1>1, <3>1 DEF TimePasses
      <4>2. QED  BY <4>1, SchedulerAssumption DEF Timer
    <3>2. QED  BY <1>0, <1>1, <3>1 DEF TimePasses
  <2>4. QED  BY <1>0, <1>1, <2>1, <2>2, <2>3 DEF TimePasses, Tick
<1>2. ASSUME NEW j \in Jobs, TimerFires(j) PROVE Kept
  <2>1. timers[j] \in Timer
    BY <1>0, <1>2 DEF TimerFires
  <2>2. Typed
    BY <1>0, <1>2, <2>1, RearmedInRange DEF TimerFires
  <2>3. hit' \in [Jobs -> BOOLEAN] /\ since' \in [Jobs -> 0..Longest]
    <3>1. Trigger(j) \/ UNCHANGED <<hit, since>>
      BY <1>2 DEF TimerFires
    <3>2. \/ hit' = [hit EXCEPT ![j] = TRUE] /\ since' = [since EXCEPT ![j] = 0]
          \/ UNCHANGED <<hit, since>>
      BY <3>1 DEF Trigger
    <3>3. hit' \in [Jobs -> BOOLEAN]
      BY <1>0, <3>2
    <3>4. 0 \in 0..Longest
      BY SchedulerAssumption
    <3>5. since' \in [Jobs -> 0..Longest]
      BY <1>0, <3>2, <3>4
    <3>6. QED  BY <3>3, <3>5
  <2>4. QED  BY <1>0, <1>2, <2>2, <2>3 DEF TimerFires
<1>3. ASSUME NEW j \in Jobs, CreateJob(j) PROVE Kept
  <2>1. file' \in [Jobs -> Schedules \cup {NoJob}]
    BY <1>0, <1>3 DEF CreateJob, Create
  <2>2. Typed
    BY <1>0, <1>3, <2>1, TimerForInRange DEF CreateJob
  <2>3. QED  BY <1>0, <1>3, <1>c, <2>1, <2>2, SchedulerAssumption DEF CreateJob, Create
<1>4. ASSUME NEW j \in Jobs, UpdateJob(j) \/ DeleteJob(j) PROVE Kept
  <2>1. file' \in [Jobs -> Schedules \cup {NoJob}]
    BY <1>0, <1>4 DEF UpdateJob, DeleteJob, Change
  <2>2. Typed
    BY <1>0, <1>4, <2>1, TimerForInRange DEF UpdateJob, DeleteJob
  <2>3. QED  BY <1>0, <1>4, <1>c, <2>1, <2>2 DEF UpdateJob, DeleteJob, Change
<1>5. CASE Restart
  <2>1. Typed
    BY <1>0, <1>5, TimerForInRange DEF Restart, AllScheduled
  <2>2. QED  BY <1>0, <1>5, <1>c, <2>1 DEF Restart
<1>6. CASE UNCHANGED vars
  BY <1>0, <1>6 DEF vars
<1>7. QED  BY <1>1, <1>2, <1>3, <1>4, <1>5, <1>6 DEF SchedulerNext

\* The scheduler's variables keep their types: scheduleJob, rescheduleJob,
\* unscheduleJob and the callbacks, for any calendar, jobs and schedules.
THEOREM SchedulerTypeCorrect == SchedulerSpec => []TypeOK
<1>1. QED  BY InitTypes, TypesKept, PTL DEF SchedulerSpec

------------------------------------------------------------------------------
(* The timers are those of the file. *)

Follows(s, t) ==
    IF IsCron(s) \/ IsInterval(s) THEN t # NoTimer /\ t.schedule = s
    ELSE t = NoTimer

LEMMA TimerForFollows ==
    ASSUME NEW s \in Schedules \cup {NoJob}
    PROVE  Follows(s, TimerFor(s))
  BY TimerForInRange DEF Follows, TimerFor

LEMMA InitFollows == SchedulerInit => TimersFollowFile
  BY TimerForFollows DEF SchedulerInit, Init, AllScheduled, TimersFollowFile, Follows

LEMMA FollowsKept ==
    TypeOK /\ TimersFollowFile /\ [SchedulerNext]_vars => TimersFollowFile'
<1> SUFFICES ASSUME TypeOK, TimersFollowFile, [SchedulerNext]_vars,
                    NEW i \in Jobs
             PROVE  Follows(file[i], timers[i])'
  BY DEF TimersFollowFile, Follows
<1>0. /\ Follows(file[i], timers[i])
      /\ timers \in [Jobs -> Timer \cup {NoTimer}]
      /\ file \in [Jobs -> Schedules \cup {NoJob}] /\ clock \in Moments
  BY TypesInTimer DEF TimersFollowFile, Follows, TypeOK
<1>n. NoTimer \notin Timer
  BY NoTimerIsNone
<1>1. CASE TimePasses
  <2>1. file' = file
    BY <1>1 DEF TimePasses, Tick
  <2>2. timers[i] = NoTimer => timers'[i] = NoTimer
    BY <1>1 DEF TimePasses
  <2>3. timers[i] # NoTimer => timers'[i] # NoTimer /\ timers'[i].schedule = timers[i].schedule
    <3>1. SUFFICES ASSUME timers[i] # NoTimer
                   PROVE  timers'[i] # NoTimer /\ timers'[i].schedule = timers[i].schedule
      OBVIOUS
    <3>2. timers[i] \in Timer /\ timers'[i] = [timers[i] EXCEPT !.left = @ - 1]
      BY <1>0, <1>1, <3>1 DEF TimePasses
    <3>3. timers[i].left > -MaxLate
      BY <1>1, <3>1 DEF TimePasses
    <3>4. timers'[i] \in Timer /\ timers'[i].schedule = timers[i].schedule
      BY <3>2, <3>3, SchedulerAssumption DEF Timer
    <3>5. QED  BY <3>4, <1>n
  <2>4. QED  BY <1>0, <2>1, <2>2, <2>3 DEF Follows
<1>2. ASSUME NEW j \in Jobs, TimerFires(j) PROVE Follows(file[i], timers[i])'
  <2>1. timers[j] \in Timer
    BY <1>0, <1>2 DEF TimerFires
  <2>2. Rearmed(timers[j]) # NoTimer /\ Rearmed(timers[j]).schedule = timers[j].schedule
    BY <1>0, <1>n, <2>1, RearmedInRange
  <2>3. file' = file /\ timers' = [timers EXCEPT ![j] = Rearmed(timers[j])]
    BY <1>2 DEF TimerFires
  <2>4. timers[j] # NoTimer
    BY <1>2 DEF TimerFires
  <2>5. QED  BY <1>0, <2>2, <2>3, <2>4 DEF Follows
<1>3. ASSUME NEW j \in Jobs, CreateJob(j) \/ UpdateJob(j)
      PROVE  Follows(file[i], timers[i])'
  <2>1. file' \in [Jobs -> Schedules \cup {NoJob}]
    BY <1>0, <1>3 DEF CreateJob, UpdateJob, Create, Change
  <2>2. i # j => file'[i] = file[i]
    BY <1>0, <1>3 DEF CreateJob, UpdateJob, Create, Change
  <2>3. timers' = [timers EXCEPT ![j] = TimerFor(file'[j])]
    BY <1>3 DEF CreateJob, UpdateJob
  <2>4. QED  BY <1>0, <2>1, <2>2, <2>3, TimerForFollows DEF Follows
<1>4. ASSUME NEW j \in Jobs, DeleteJob(j) PROVE Follows(file[i], timers[i])'
  <2>1. file'[j] = NoJob /\ timers' = [timers EXCEPT ![j] = NoTimer]
    BY <1>4 DEF DeleteJob
  <2>2. i # j => file'[i] = file[i]
    BY <1>0, <1>4 DEF DeleteJob, Change
  <2>3. QED  BY <1>0, <2>1, <2>2 DEF Follows, IsCron, IsInterval
<1>5. CASE Restart
  <2>1. file' = file /\ timers'[i] = TimerFor(file[i])
    BY <1>5 DEF Restart, AllScheduled
  <2>2. QED  BY <1>0, <2>1, TimerForFollows DEF Follows
<1>6. CASE UNCHANGED vars
  BY <1>0, <1>6 DEF vars, Follows
<1>7. QED  BY <1>1, <1>2, <1>3, <1>4, <1>5, <1>6 DEF SchedulerNext

\* However jobs are created, edited and deleted and the process restarted, the
\* timers are those the job file asks for (req. 2.4).
THEOREM TimersFollow == SchedulerSpec => []TimersFollowFile
<1>1. QED  BY SchedulerTypeCorrect, InitFollows, FollowsKept, PTL DEF SchedulerSpec

------------------------------------------------------------------------------
(* Two starts of a job keep their distance. *)

\* What SpacedInv says of one job.
Spaced(t, h, n, c) ==
    t # NoTimer =>
        /\ IsCron(t.schedule) /\ h => t.left + (c % TicksPerMinute) >= TicksPerMinute
        /\ IsInterval(t.schedule) =>
               n = Longest \/ n + t.left >= Delay(t.schedule)

LEMMA SpacedByJob ==
    SpacedInv <=> \A j \in Jobs : Spaced(timers[j], hit[j], since[j], clock)
  BY DEF SpacedInv, Spaced

\* A timer that has its whole delay before it.
LEMMA FreshIsSpaced ==
    ASSUME NEW t, t # NoTimer => t.schedule \in Timed /\ t.left = Delay(t.schedule),
           NEW h \in BOOLEAN, NEW n \in 0..Longest, NEW c \in Moments
    PROVE  Spaced(t, h, n, c)
<1> SUFFICES ASSUME t # NoTimer
             PROVE  /\ IsCron(t.schedule) => t.left + (c % TicksPerMinute) >= TicksPerMinute
                    /\ IsInterval(t.schedule) => n + t.left >= Delay(t.schedule)
  BY DEF Spaced
<1>1. c \in Nat
  BY CalendarIsPositive DEF Moments, Calendar
<1>2. c % TicksPerMinute \in Nat
  BY <1>1, SchedulerAssumption
<1>3. t.schedule \in Timed /\ t.left = Delay(t.schedule)
  OBVIOUS
<1>4. Delay(t.schedule) \in Int
  BY <1>3, DelayInRange, SchedulerAssumption
<1>5. CASE IsCron(t.schedule)
  <2>1. t.left = TicksPerMinute /\ ~IsInterval(t.schedule)
    BY <1>3, <1>5, DelayInRange
  <2>2. QED  BY <1>2, <2>1, SchedulerAssumption
<1>6. CASE ~IsCron(t.schedule)
  BY <1>3, <1>4, <1>6, SchedulerAssumption
<1>7. QED  BY <1>5, <1>6

LEMMA InitSpaced == SchedulerInit => SpacedInv
<1> SUFFICES ASSUME SchedulerInit, NEW j \in Jobs
             PROVE  Spaced(timers[j], hit[j], since[j], clock)
  BY SpacedByJob
<1>1. timers[j] # NoTimer => timers[j].schedule \in Timed /\ timers[j].left = Delay(timers[j].schedule)
  BY TimerForInRange DEF SchedulerInit, Init, AllScheduled
<1>2. hit[j] \in BOOLEAN /\ since[j] \in 0..Longest /\ clock \in Moments
  BY InitTypes DEF TypeOK
<1>3. QED  BY <1>1, <1>2, FreshIsSpaced

\* A tick takes one from the timer and gives one to the time since the start
\* and to the place in the minute, unless another minute begins.
LEMMA TickKeepsSpaced ==
    ASSUME NEW t \in Timer, NEW h \in BOOLEAN, NEW n \in 0..Longest, NEW c \in Moments,
           Spaced(t, h, n, c)
    PROVE  Spaced([t EXCEPT !.left = @ - 1],
                  h /\ ((c + 1) % Cycle) % TicksPerMinute # 0, Later(n), (c + 1) % Cycle)
<1> DEFINE u == [t EXCEPT !.left = @ - 1]
           d == (c + 1) % Cycle
<1>1. t \in [schedule : Timed, left : Int, lastFired : Int]
  BY SchedulerAssumption, CalendarIsPositive DEF Timer, Calendar
<1>2. u.schedule = t.schedule /\ u.left = t.left - 1 /\ t.left \in Int /\ t.schedule \in Timed
  BY <1>1
<1>3. t # NoTimer
  BY NoTimerIsNone
<1> HIDE DEF u
<1>4. IsCron(u.schedule) /\ h /\ d % TicksPerMinute # 0 => u.left + (d % TicksPerMinute) >= TicksPerMinute
  <2>1. SUFFICES ASSUME IsCron(t.schedule), h, d % TicksPerMinute # 0
                 PROVE  u.left + (d % TicksPerMinute) >= TicksPerMinute
    BY <1>2
  <2>2. t.left + (c % TicksPerMinute) >= TicksPerMinute
    BY <1>3, <2>1 DEF Spaced
  <2>3. d % TicksPerMinute = (c % TicksPerMinute) + 1
    BY <2>1, NextInMinute
  <2>4. c % TicksPerMinute \in Int
    BY CalendarIsPositive, SchedulerAssumption DEF Moments, Calendar
  <2> HIDE DEF d
  <2>5. QED  BY <1>2, <2>2, <2>3, <2>4, SchedulerAssumption
<1>5. IsInterval(u.schedule) => Later(n) = Longest \/ Later(n) + u.left >= Delay(u.schedule)
  <2>1. SUFFICES ASSUME IsInterval(t.schedule)
                 PROVE  Later(n) = Longest \/ Later(n) + u.left >= Delay(t.schedule)
    BY <1>2
  <2>2. n = Longest \/ n + t.left >= Delay(t.schedule)
    BY <1>3, <2>1 DEF Spaced
  <2>3. Delay(t.schedule) \in Int
    BY <1>2, DelayInRange, SchedulerAssumption
  <2>4. QED  BY <1>2, <2>2, <2>3, SchedulerAssumption DEF Later
<1>6. QED  BY <1>4, <1>5 DEF Spaced, u

LEMMA SpacedKept ==
    TypeOK /\ TypeOK' /\ SpacedInv /\ [SchedulerNext]_vars => SpacedInv'
<1> SUFFICES ASSUME TypeOK, TypeOK', SpacedInv, [SchedulerNext]_vars, NEW i \in Jobs
             PROVE  Spaced(timers[i], hit[i], since[i], clock)'
  BY DEF SpacedInv, Spaced
<1> DEFINE Kept == Spaced(timers'[i], hit'[i], since'[i], clock')
<1>0. /\ Spaced(timers[i], hit[i], since[i], clock)
      /\ timers \in [Jobs -> Timer \cup {NoTimer}] /\ file \in [Jobs -> Schedules \cup {NoJob}]
      /\ clock \in Moments /\ hit \in [Jobs -> BOOLEAN] /\ since \in [Jobs -> 0..Longest]
  BY TypesInTimer, SpacedByJob DEF TypeOK
<1>t. /\ file' \in [Jobs -> Schedules \cup {NoJob}] /\ clock' \in Moments
      /\ hit' \in [Jobs -> BOOLEAN] /\ since' \in [Jobs -> 0..Longest]
  BY DEF TypeOK
<1>s. SUFFICES Kept
  BY DEF Spaced
\* A job whose timer is made anew.
<1>f. ASSUME NEW s \in Schedules \cup {NoJob}, timers'[i] = TimerFor(s)
      PROVE  Kept
  <2>1. timers'[i] # NoTimer =>
            timers'[i].schedule \in Timed /\ timers'[i].left = Delay(timers'[i].schedule)
    BY <1>f, TimerForInRange
  <2>2. QED  BY <1>t, <2>1, FreshIsSpaced
\* A job nothing happens to.
<1>u. ASSUME clock' = clock, timers'[i] = timers[i], hit'[i] = hit[i], since'[i] = since[i]
      PROVE  Kept
  BY <1>0, <1>u
<1>1. CASE TimePasses
  <2>1. CASE timers[i] = NoTimer
    BY <1>1, <2>1 DEF TimePasses, Spaced
  <2>2. CASE timers[i] # NoTimer
    <3>1. timers[i] \in Timer
      BY <1>0, <2>2
    <3>2. /\ timers'[i] = [timers[i] EXCEPT !.left = @ - 1]
          /\ clock' = (clock + 1) % Cycle
          /\ hit'[i] = (hit[i] /\ clock' % TicksPerMinute # 0)
          /\ since'[i] = Later(since[i])
      BY <1>1, <2>2 DEF TimePasses, Tick
    <3>3. hit[i] \in BOOLEAN /\ since[i] \in 0..Longest
      BY <1>0
    <3>4. QED  BY <1>0, <3>1, <3>2, <3>3, TickKeepsSpaced
  <2>3. QED  BY <2>1, <2>2
<1>2. ASSUME NEW j \in Jobs, TimerFires(j) PROVE Kept
  <2>0. timers' = [timers EXCEPT ![j] = Rearmed(timers[j])] /\ clock' = clock
    BY <1>2 DEF TimerFires
  <2>1. CASE i = j
    <3>1. timers[i] \in Timer
      BY <1>0, <1>2, <2>1 DEF TimerFires
    <3>2. timers'[i] = Rearmed(timers[i])
      BY <1>0, <2>0, <2>1
    <3>3. timers'[i].schedule \in Timed /\ timers'[i].left = Delay(timers'[i].schedule)
      BY <1>0, <3>1, <3>2, RearmedInRange DEF Timer
    <3>4. QED  BY <1>t, <3>3, FreshIsSpaced
  <2>2. CASE i # j
    <3>1. Trigger(j) \/ UNCHANGED <<hit, since>>
      BY <1>2 DEF TimerFires
    <3>2. \/ hit' = [hit EXCEPT ![j] = TRUE] /\ since' = [since EXCEPT ![j] = 0]
          \/ UNCHANGED <<hit, since>>
      BY <3>1 DEF Trigger
    <3>3. hit'[i] = hit[i] /\ since'[i] = since[i] /\ timers'[i] = timers[i]
      BY <1>0, <2>0, <2>2, <3>2
    <3>4. QED  BY <1>u, <2>0, <3>3
  <2>3. QED  BY <2>1, <2>2
<1>3. ASSUME NEW j \in Jobs, CreateJob(j) \/ UpdateJob(j) PROVE Kept
  <2>1. CASE i = j
    <3>1. timers'[i] = TimerFor(file'[i]) /\ file'[i] \in Schedules \cup {NoJob}
      BY <1>0, <1>3, <1>t, <2>1 DEF CreateJob, UpdateJob
    <3>2. QED  BY <1>f, <3>1
  <2>2. CASE i # j
    BY <1>0, <1>3, <1>u, <2>2 DEF CreateJob, UpdateJob, Create, Change
  <2>3. QED  BY <2>1, <2>2
<1>4. ASSUME NEW j \in Jobs, DeleteJob(j) PROVE Kept
  <2>1. CASE i = j
    <3>1. timers'[i] = NoTimer
      BY <1>0, <1>4, <2>1 DEF DeleteJob
    <3>2. QED  BY <3>1 DEF Spaced
  <2>2. CASE i # j
    BY <1>0, <1>4, <1>u, <2>2 DEF DeleteJob, Change
  <2>3. QED  BY <2>1, <2>2
<1>5. CASE Restart
  <2>1. timers'[i] = TimerFor(file[i]) /\ file[i] \in Schedules \cup {NoJob}
    BY <1>0, <1>5 DEF Restart, AllScheduled
  <2>2. QED  BY <1>f, <2>1
<1>6. CASE UNCHANGED vars
  BY <1>u, <1>6 DEF vars
<1>7. QED  BY <1>1, <1>2, <1>3, <1>4, <1>5, <1>6 DEF SchedulerNext

\* However late a callback runs, the next start of the job keeps its distance:
\* a started cron job's timer runs to the end of the minute at least, and an
\* interval job's to the end of its delay.
THEOREM StartsAreSpaced == SchedulerSpec => []SpacedInv
<1>1. QED  BY SchedulerTypeCorrect, InitSpaced, SpacedKept, PTL DEF SchedulerSpec

------------------------------------------------------------------------------
(* The scheduler implements BackupSchedule. *)

\* A callback that is due starts its job only when the stored schedule says so,
\* and the distance says that it has not been started for it yet.
LEMMA FiresWhenDue ==
    ASSUME IntervalsFit, TypeOK, TimersFollowFile, SpacedInv, NEW j \in Jobs,
           timers[j] # NoTimer, timers[j].left <= 0, Fires(timers[j])
    PROVE  Due(j)
<1> DEFINE t == timers[j]
<1>1. t \in Timer /\ clock \in Moments /\ since[j] \in 0..Longest
  BY TypesInTimer DEF TypeOK
<1>2. t.schedule = file[j]
  BY DEF TimersFollowFile
<1>3. Spaced(t, hit[j], since[j], clock)
  BY SpacedByJob
<1>4. t.left \in Int /\ t.schedule \in Timed
  BY <1>1, SchedulerAssumption DEF Timer
<1>5. CASE IsCron(file[j])
  <2>1. MatchesCron(clock, Parsed(file[j]))
    BY <1>2, <1>5 DEF Fires, IsInterval, IsCron
  <2>2. clock % TicksPerMinute \in 0..(TicksPerMinute - 1)
    BY <1>1, CalendarIsPositive, SchedulerAssumption DEF Moments, Calendar
  <2>3. ~hit[j]
    <3>1. SUFFICES ASSUME hit[j] PROVE FALSE
      OBVIOUS
    <3>2. t.left + (clock % TicksPerMinute) >= TicksPerMinute
      BY <1>2, <1>3, <1>5, <3>1 DEF Spaced
    <3>3. QED  BY <1>4, <2>2, <3>2, SchedulerAssumption
  <2>4. QED  BY <1>5, <2>1, <2>3 DEF Due
<1>6. CASE IsInterval(file[j])
  <2>1. since[j] = Longest \/ since[j] + t.left >= Delay(t.schedule)
    BY <1>2, <1>3, <1>6 DEF Spaced
  <2>2. Delay(t.schedule) = file[j].every /\ file[j].every \in 1..Longest
    BY <1>2, <1>4, <1>6, DelayInRange
  <2>3. since[j] >= file[j].every
    BY <1>1, <1>4, <2>1, <2>2, SchedulerAssumption
  <2>4. QED  BY <1>6, <2>3 DEF Due
<1>7. QED  BY <1>2, <1>4, <1>5, <1>6 DEF Timed

LEMMA StepImplements ==
    IntervalsFit /\ TypeOK /\ TimersFollowFile /\ SpacedInv /\ [SchedulerNext]_vars
        => [Next]_scheduleVars
<1> SUFFICES ASSUME IntervalsFit, TypeOK, TimersFollowFile, SpacedInv, [SchedulerNext]_vars
             PROVE  Next \/ UNCHANGED scheduleVars
  OBVIOUS
<1>1. CASE TimePasses
  BY <1>1 DEF TimePasses, Next
<1>2. ASSUME NEW j \in Jobs, TimerFires(j) PROVE Next \/ UNCHANGED scheduleVars
  <2>1. UNCHANGED <<file, clock>>
    BY <1>2 DEF TimerFires
  <2>2. CASE UNCHANGED <<hit, since>>
    BY <2>1, <2>2 DEF scheduleVars
  <2>3. CASE ~UNCHANGED <<hit, since>>
    <3>1. Fires(timers[j]) /\ Trigger(j)
      BY <1>2, <2>3 DEF TimerFires
    <3>2. hit' = [hit EXCEPT ![j] = TRUE] /\ since' = [since EXCEPT ![j] = 0]
      BY <2>3, <3>1 DEF Trigger
    <3>3. Due(j)
      BY <1>2, <3>1, FiresWhenDue DEF TimerFires
    <3>4. QED  BY <2>1, <3>2, <3>3 DEF Start, Next
  <2>4. QED  BY <2>2, <2>3
<1>3. ASSUME NEW j \in Jobs, CreateJob(j) PROVE Next
  BY <1>3 DEF CreateJob, Next
<1>4. ASSUME NEW j \in Jobs, UpdateJob(j) \/ DeleteJob(j) PROVE Next
  BY <1>4 DEF UpdateJob, DeleteJob, Next
<1>5. CASE Restart
  BY <1>5 DEF Restart, scheduleVars
<1>6. CASE UNCHANGED vars
  BY <1>6 DEF vars, scheduleVars
<1>7. QED  BY <1>1, <1>2, <1>3, <1>4, <1>5, <1>6 DEF SchedulerNext

\* If no interval is longer than a timer of Node can be, 2^31 - 1 ms, the
\* scheduler keeps its promise: it starts a job only at a moment its stored
\* schedule names, once in a minute or an interval at most, however jobs are
\* changed, the process restarted and callbacks late.  Jobs with longer
\* intervals are accepted, and started every millisecond (scheduleJob).
THEOREM SchedulerKeepsPromise == IntervalsFit => (SchedulerSpec => KeepsPromise)
<1> SUFFICES ASSUME IntervalsFit PROVE SchedulerSpec => KeepsPromise
  OBVIOUS
<1>1. SchedulerInit => Init
  BY DEF SchedulerInit
<1>2. TypeOK /\ TimersFollowFile /\ SpacedInv /\ [SchedulerNext]_vars => [Next]_scheduleVars
  BY StepImplements
<1>3. QED  BY <1>1, <1>2, SchedulerTypeCorrect, TimersFollow, StartsAreSpaced, PTL
           DEF SchedulerSpec, KeepsPromise, Spec
=============================================================================
