---------------------------- MODULE RateLimiter ----------------------------
(***************************************************************************)
(* The shared token bucket of src/rateLimiter.js.  All concurrent          *)
(* transfers draw from one bucket: createByteTracker (src/syncEngine.js)   *)
(* calls consume(chunk.length) for every chunk and forwards the chunk when *)
(* the promise resolves, so a transfer has at most one chunk waiting.      *)
(*                                                                         *)
(* Time is counted in ticks, TicksPerSecond of them in a second.  `rate'   *)
(* is in bytes per tick: the code's maxBps is rate * TicksPerSecond, and   *)
(* rate = 0 is "unlimited".  `elapsed' is Date.now() - lastRefill; it is   *)
(* capped at one second because a refill of one second fills the bucket.   *)
(*                                                                         *)
(* drain() is synchronous.  Its loop is the pair DispatchHead, FinishDrain *)
(* and nothing else can happen while `draining' holds.                     *)
(***************************************************************************)
EXTENDS Integers, Sequences

CONSTANTS
    Transfers,      \* the byte trackers of the transfers in flight
    Nobody,         \* owner of a queued chunk whose transfer was destroyed
    Rates,          \* the limits setLimit is called with, in bytes per tick
    ChunkSizes,     \* the sizes of the chunks the S3 body stream delivers
    TicksPerSecond,
    MaxQueue        \* bound: chunks queued at once, abandoned ones included

ASSUME RateLimiterAssumption ==
    /\ Nobody \notin Transfers
    /\ Rates \subseteq Nat
    /\ ChunkSizes \subseteq Nat \ {0}
    /\ TicksPerSecond \in Nat \ {0}
    /\ MaxQueue \in Nat

VARIABLES
    rate,       \* maxBps / TicksPerSecond
    tokens,     \* the token balance
    elapsed,    \* ticks since lastRefill
    queue,      \* the waiting consumers, oldest first
    scheduled,  \* a drain timer is pending
    wait,       \* ticks before that timer may fire
    draining    \* control is inside drain()

vars == <<rate, tokens, elapsed, queue, scheduled, wait, draining>>

Item == [owner : Transfers \cup {Nobody}, bytes : ChunkSizes]

Bucket(r) == r * TicksPerSecond

AtMost(a, b) == IF a <= b THEN a ELSE b

\* Fault for the mutation runs: refill() without Math.min.
BalanceUncapped == tokens + elapsed * rate

\* What refill() would leave in the bucket now.
Balance == AtMost(Bucket(rate), tokens + elapsed * rate)

Waiting(c) == \E i \in 1..Len(queue) : queue[i].owner = c

\* Fault for the mutation runs: any balance lets the head through.
AffordableOnCredit == queue # <<>> /\ tokens > 0

Affordable == queue # <<>> /\ tokens >= Head(queue).bytes

\* Fault for the mutation runs: the timer polls at its shortest delay.
TicksForPolling(b) == 1

\* The delay of the timer for a head of b bytes: the time to earn what is
\* missing, at least one tick (the code waits at least 10 ms).  The code does
\* not round it up and setTimeout drops its fraction.
TicksFor(b) ==
    LET ticks == (b - tokens) \div rate
    IN IF ticks < 1 THEN 1 ELSE ticks

Init ==
    /\ rate = 0
    /\ tokens = 0
    /\ elapsed = 0
    /\ queue = <<>>
    /\ scheduled = FALSE
    /\ wait = 0
    /\ draining = FALSE

-----------------------------------------------------------------------------
\* drain() up to its loop: the timer is no longer pending and the bucket is
\* topped up.
EnterDrain ==
    /\ scheduled' = FALSE
    /\ wait' = 0
    /\ draining' = TRUE
    /\ tokens' = Balance
    /\ elapsed' = 0

\* consume(bytes) with a limit set: the chunk joins the queue, and drain()
\* runs at once unless a timer will run it.
Consume(c, b) ==
    /\ ~draining
    /\ rate > 0
    /\ ~Waiting(c)
    /\ Len(queue) < MaxQueue
    /\ queue' = Append(queue, [owner |-> c, bytes |-> b])
    /\ UNCHANGED rate
    /\ IF scheduled
         THEN UNCHANGED <<tokens, elapsed, scheduled, wait, draining>>
         ELSE EnterDrain

\* One turn of drain()'s loop: only the head is looked at.
DispatchHead ==
    /\ draining
    /\ Affordable
    /\ tokens' = tokens - Head(queue).bytes
    /\ queue' = Tail(queue)
    /\ UNCHANGED <<rate, elapsed, scheduled, wait, draining>>

\* Fault for the mutation runs: the timer is not set again.
FinishDrainForgetsTimer ==
    /\ draining
    /\ ~Affordable
    /\ draining' = FALSE
    /\ scheduled' = FALSE
    /\ wait' = 0
    /\ UNCHANGED <<rate, tokens, elapsed, queue>>

\* The loop stops; a timer is set if somebody still waits.
FinishDrain ==
    /\ draining
    /\ ~Affordable
    /\ draining' = FALSE
    /\ scheduled' = (queue # <<>>)
    /\ wait' = IF queue # <<>> THEN TicksFor(Head(queue).bytes) ELSE 0
    /\ UNCHANGED <<rate, tokens, elapsed, queue>>

\* The timer set by FinishDrain runs drain(), which returns at once when the
\* limit has been lifted in the meantime.
TimerFires ==
    /\ ~draining
    /\ scheduled
    /\ wait = 0
    /\ UNCHANGED <<rate, queue>>
    /\ IF rate = 0
         THEN scheduled' = FALSE /\ UNCHANGED <<tokens, elapsed, wait, draining>>
         ELSE EnterDrain

\* Faults for the mutation runs: the balance survives a lower limit; the
\* pending timer is taken for cancelled.
SetLimitKeepsTokens(r) ==
    /\ ~draining
    /\ rate' = r
    /\ elapsed' = 0
    /\ queue' = IF r = 0 THEN <<>> ELSE queue
    /\ UNCHANGED <<tokens, scheduled, wait, draining>>

SetLimitDropsTimer(r) ==
    /\ ~draining
    /\ rate' = r
    /\ tokens' = Bucket(r)
    /\ elapsed' = 0
    /\ queue' = IF r = 0 THEN <<>> ELSE queue
    /\ scheduled' = FALSE
    /\ UNCHANGED <<wait, draining>>

\* setLimit(mbps): every run and every retry sets its own limit.  Lifting the
\* limit resolves everybody; a pending timer is left alone.
SetLimit(r) ==
    /\ ~draining
    /\ rate' = r
    /\ tokens' = Bucket(r)
    /\ elapsed' = 0
    /\ queue' = IF r = 0 THEN <<>> ELSE queue
    /\ UNCHANGED <<scheduled, wait, draining>>

\* A transfer fails or times out while its chunk is queued.  Nobody removes
\* the chunk: it keeps its place and will still be paid for.
Abandon(c) ==
    /\ ~draining
    /\ Waiting(c)
    /\ queue' = [i \in 1..Len(queue) |->
                    IF queue[i].owner = c
                      THEN [owner |-> Nobody, bytes |-> queue[i].bytes]
                      ELSE queue[i]]
    /\ UNCHANGED <<rate, tokens, elapsed, scheduled, wait, draining>>

Tick ==
    /\ ~draining
    /\ elapsed' = AtMost(elapsed + 1, TicksPerSecond)
    /\ wait' = IF wait > 0 THEN wait - 1 ELSE 0
    /\ UNCHANGED <<rate, tokens, queue, scheduled, draining>>

Next ==
    \/ \E c \in Transfers, b \in ChunkSizes : Consume(c, b)
    \/ DispatchHead
    \/ FinishDrain
    \/ TimerFires
    \/ \E r \in Rates : SetLimit(r)
    \/ \E c \in Transfers : Abandon(c)
    \/ Tick

\* Synchronous code runs to its end, the clock advances, a due timer fires.
Fairness ==
    /\ WF_vars(DispatchHead \/ FinishDrain)
    /\ WF_vars(TimerFires)
    /\ WF_vars(Tick)

Spec == Init /\ [][Next]_vars

-----------------------------------------------------------------------------
\* Types of the limiter's module-level variables.
TypeOK ==
    /\ rate \in Rates \cup {0}
    /\ tokens \in Nat
    /\ elapsed \in 0..TicksPerSecond
    /\ queue \in Seq(Item)
    /\ scheduled \in BOOLEAN
    /\ wait \in Nat
    /\ draining \in BOOLEAN

\* No lost wake-up: while a consumer waits, either a drain timer is pending
\* or drain() is running, and a limit is set.  setLimit, a late timer and
\* consume all touch `scheduled' and the queue in different orders.
NoLostWakeup ==
    queue # <<>> => (scheduled \/ draining) /\ rate > 0

\* The bucket never holds more than one second's worth of the limit in force,
\* so lowering the limit takes effect at once.
BurstBounded == tokens <= Bucket(rate)

\* A transfer's chunk is eventually let through, whatever the other transfers
\* queue, abandon or the limit becomes, when no chunk exceeds the bucket of
\* any limit.  (A larger chunk blocks the head of the queue for ever.)
ChunkEventuallySent ==
    \A c \in Transfers : Waiting(c) ~> ~Waiting(c)

\* rateLimiter.js:37 "Wait enough time to accumulate tokens for the next
\* item", as far as a delay without its fraction can: when the timer fires
\* the head lacks less than a tick's worth, however limits changed while the
\* timer was pending, so the timer set after it is the last the head needs.
TimerMissesLessThanATick ==
    [][(TimerFires /\ queue # <<>>) => Head(queue').bytes < tokens' + rate]_vars
-----------------------------------------------------------------------------
(* The inductive invariant behind TimerMissesLessThanATick.                *)

\* Every chunk fits the one-second bucket of every limit.
ChunksFit == \A r \in Rates \ {0}, b \in ChunkSizes : b <= Bucket(r)

\* One tick after the pending timer may fire, the head of the queue is
\* earned.  A timer without a queue is left over from a limit that was
\* lifted, and the limit set since has filled the bucket.
TimerInv ==
    scheduled /\ ~draining =>
        IF queue = <<>>
          THEN tokens = Bucket(rate)
          ELSE Head(queue).bytes < tokens + (elapsed + wait) * rate + rate
=============================================================================
