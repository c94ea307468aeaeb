-------------------------- MODULE MCBackupScheduler --------------------------
(* Days of two hours of two minutes; one schedule of every form. *)
EXTENDS BackupScheduler

star == [kind |-> "star"]
Cron(m, h, d) == [type |-> "cron", minute |-> {m}, hour |-> {h}, day |-> {d}]

\* "* * * * *", "0 1 * * *", "*/2,1 * 2 * *" in that small calendar
everyMinute == Cron(star, star, star)
daily       == Cron([kind |-> "value", from |-> 0], [kind |-> "value", from |-> 1], star)
lists       == [type |-> "cron",
                minute |-> {[kind |-> "step", from |-> 0, by |-> 2],
                            [kind |-> "value", from |-> 1]},
                hour |-> {[kind |-> "range", from |-> 0, to |-> 0]},
                day |-> {[kind |-> "value", from |-> 2]}]
interval    == [type |-> "every", every |-> 3]
none        == [type |-> "none"]
invalid     == [type |-> "invalid"]

NoMinute       == -1
AllSchedules   == {everyMinute, daily, lists, interval, none, invalid}
DailySchedules == {daily}
=============================================================================
