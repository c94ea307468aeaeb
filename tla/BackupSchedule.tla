---------------------------- MODULE BackupSchedule ----------------------------
(***************************************************************************)
(* What the scheduler of backup jobs promises, without its timers: a job   *)
(* is started only at a moment its stored schedule names, at most once in  *)
(* a minute when the schedule is a cron expression, and never sooner after *)
(* its last start than its interval.  BackupScheduler implements this.     *)
(*                                                                         *)
(* Time is a clock that counts ticks and wraps around after some days, so  *)
(* that nothing has to be bounded.  A cron expression is three fields: the *)
(* day field stands for the day of the month, the month and the day of the *)
(* week, which the code treats alike.                                      *)
(***************************************************************************)
EXTENDS Integers

CONSTANTS
    Jobs,             \* identifiers of backup jobs
    Schedules,        \* the schedules a job can have
    NoJob,            \* no job under an identifier
    TicksPerMinute,
    MinutesPerHour, HoursPerDay, Days,  \* 60, 24 and a cycle of days
    Longest           \* no interval is longer: `since' stops counting here

MinutesPerDay == MinutesPerHour * HoursPerDay
Cycle == TicksPerMinute * MinutesPerDay * Days

Moments == 0..(Cycle - 1)

MinuteOfDay(c) == (c \div TicksPerMinute) % MinutesPerDay

(***************************************************************************)
(* Cron fields.  A field is a set of parts (its comma-separated list); a   *)
(* part is "*", "a", "a-b" or "a/s" ("*/s" has the field's minimum as a).  *)
(***************************************************************************)
PartValues(p, lo, hi) ==
    CASE p.kind = "star"  -> lo..hi
      [] p.kind = "step"  -> {i \in p.from..hi : (i - p.from) % p.by = 0}
      [] p.kind = "range" -> p.from..p.to
      [] p.kind = "value" -> {p.from}

FieldValues(field, lo, hi) == UNION {PartValues(p, lo, hi) : p \in field}

\* A parsed expression: the minutes, hours and days it names.
Parsed(s) ==
    [minute |-> FieldValues(s.minute, 0, MinutesPerHour - 1),
     hour   |-> FieldValues(s.hour, 0, HoursPerDay - 1),
     day    |-> FieldValues(s.day, 1, Days)]

MatchesCron(c, cron) ==
    /\ MinuteOfDay(c) % MinutesPerHour \in cron.minute
    /\ MinuteOfDay(c) \div MinutesPerHour \in cron.hour
    /\ 1 + c \div (TicksPerMinute * MinutesPerDay) \in cron.day

IsCron(s)     == s # NoJob /\ s.type = "cron"
IsInterval(s) == s # NoJob /\ s.type = "every"

VARIABLES
    file,   \* backup-jobs.json: the schedule of each job
    clock,
    hit,    \* the job was started in the current minute
    since   \* ticks since the job was last started, Longest at most

scheduleVars == <<file, clock, hit, since>>

Init ==
    /\ file \in [Jobs -> Schedules \cup {NoJob}]
    /\ clock = 0
    /\ hit = [j \in Jobs |-> FALSE]
    /\ since = [j \in Jobs |-> Longest]

Later(n) == IF n < Longest THEN n + 1 ELSE n

\* The last tick of a minute ends it.
Tick ==
    /\ clock' = (clock + 1) % Cycle
    /\ hit' = [j \in Jobs |->
                  hit[j] /\ clock' % TicksPerMinute # 0]
    /\ since' = [j \in Jobs |-> Later(since[j])]
    /\ UNCHANGED file

\* A new identifier has not been started yet; an edit changes the schedule only.
Create(j) ==
    /\ file[j] = NoJob
    /\ \E s \in Schedules : file' = [file EXCEPT ![j] = s]
    /\ hit' = [hit EXCEPT ![j] = FALSE]
    /\ since' = [since EXCEPT ![j] = Longest]
    /\ UNCHANGED clock

Change(j) ==
    /\ file[j] # NoJob
    /\ \E s \in Schedules \cup {NoJob} : file' = [file EXCEPT ![j] = s]
    /\ UNCHANGED <<clock, hit, since>>

Due(j) ==
    \/ IsCron(file[j]) /\ MatchesCron(clock, Parsed(file[j])) /\ ~hit[j]
    \/ IsInterval(file[j]) /\ since[j] >= file[j].every

Start(j) ==
    /\ Due(j)
    /\ hit' = [hit EXCEPT ![j] = TRUE]
    /\ since' = [since EXCEPT ![j] = 0]
    /\ UNCHANGED <<file, clock>>

Next == Tick \/ \E j \in Jobs : Create(j) \/ Change(j) \/ Start(j)

Spec == Init /\ [][Next]_scheduleVars
=============================================================================
