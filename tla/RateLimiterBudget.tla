------------------------- MODULE RateLimiterBudget -------------------------
(***************************************************************************)
(* RateLimiter with two history variables that measure what the limiter    *)
(* promises: over any stretch of time in which the limit stays the same,   *)
(* how many bytes were let through (`granted') and how long it lasted      *)
(* (`clock').  A stretch may be started at any moment.                     *)
(***************************************************************************)
EXTENDS RateLimiter

CONSTANT MaxClock   \* bound: the longest stretch measured, in ticks

VARIABLES granted, clock

budgetVars == <<vars, granted, clock>>

BudgetInit == Init /\ granted = 0 /\ clock = 0

Uncounted ==
    /\ \/ \E c \in Transfers, b \in ChunkSizes : Consume(c, b)
       \/ FinishDrain
       \/ TimerFires
       \/ \E c \in Transfers : Abandon(c)
    /\ UNCHANGED <<granted, clock>>

CountGrant == DispatchHead /\ granted' = granted + Head(queue).bytes /\ UNCHANGED clock

\* After MaxClock ticks a new stretch begins.
CountTick ==
    /\ Tick
    /\ IF clock < MaxClock
         THEN clock' = clock + 1 /\ UNCHANGED granted
         ELSE clock' = 0 /\ granted' = 0

NewLimit == (\E r \in Rates : SetLimit(r)) /\ granted' = 0 /\ clock' = 0

NewStretch == granted' = 0 /\ clock' = 0 /\ UNCHANGED vars

BudgetNext == Uncounted \/ CountGrant \/ CountTick \/ NewLimit \/ NewStretch

BudgetSpec == BudgetInit /\ [][BudgetNext]_budgetVars

BudgetFairSpec == BudgetSpec /\ Fairness

-----------------------------------------------------------------------------
\* The bytes let through in any stretch are at most one bucket plus the
\* limit times its length: the "true total limit" rateLimiter.js:2 promises
\* for all transfers together.
ThroughputBounded == granted <= Bucket(rate) + rate * clock

\* The inductive form: what is granted and what could be granted right now.
\* Inside drain() the bucket has just been refilled.
BudgetInv ==
    /\ granted + Balance <= Bucket(rate) + rate * clock
    /\ draining => elapsed = 0
=============================================================================
