------------------------- MODULE RateLimiterProofs -------------------------
(***************************************************************************)
(* Theorems about the token bucket, for every set of transfers, limits and *)
(* chunk sizes.                                                            *)
(***************************************************************************)
EXTENDS RateLimiterBudget, TLAPS

(***************************************************************************)
(* Arithmetic of a refill, for any limit, balance and time.                *)
(***************************************************************************)
LEMMA RefillArithmetic ==
    ASSUME NEW r \in Nat, NEW t \in Nat, NEW e \in Nat
    PROVE  /\ Bucket(r) \in Nat
           /\ AtMost(Bucket(r), t + e * r) \in Nat
           /\ AtMost(Bucket(r), t + e * r) <= Bucket(r)
           /\ r * 0 = 0 /\ 0 * r = 0
<1>1. r * TicksPerSecond \in Nat /\ e * r \in Nat
  BY RateLimiterAssumption
<1>2. r * 0 = 0 /\ 0 * r = 0
  OBVIOUS
<1>3. QED
  BY <1>1, <1>2 DEF AtMost, Bucket

(***************************************************************************)
(* The bucket of a limit and what a refill leaves in it are natural        *)
(* numbers, and a refill never exceeds the bucket.                         *)
(***************************************************************************)
LEMMA BalanceBounds ==
    ASSUME TypeOK
    PROVE  /\ rate \in Nat
           /\ Bucket(rate) \in Nat
           /\ Balance \in Nat
           /\ Balance <= Bucket(rate)
<1>1. rate \in Nat /\ tokens \in Nat /\ elapsed \in Nat
  BY RateLimiterAssumption DEF TypeOK
<1>2. QED
  BY <1>1, RefillArithmetic DEF Balance

(***************************************************************************)
(* The wait computed for a timer is a natural number.                      *)
(***************************************************************************)
LEMMA WaitIsNat ==
    ASSUME TypeOK, rate > 0, NEW b \in Nat
    PROVE  TicksFor(b) \in Nat
<1>1. rate \in Nat /\ tokens \in Nat
  BY RateLimiterAssumption DEF TypeOK
<1>2. (b - tokens) \div rate \in Int
  BY <1>1
<1>3. QED
  BY <1>2 DEF TicksFor

(***************************************************************************)
(* Type correctness together with the two invariants the code relies on:   *)
(* a waiting consumer always has a timer and a limit, and the bucket never *)
(* overflows.  NoLostWakeup is needed for the type of `wait': the code     *)
(* divides by maxBps when it sets the timer.                               *)
(***************************************************************************)
LimiterInv == TypeOK /\ NoLostWakeup /\ BurstBounded

LEMMA LimiterInit == Init => LimiterInv
<1>1. <<>> \in Seq(Item)
  OBVIOUS
<1>2. TicksPerSecond \in Nat /\ 0 * TicksPerSecond = 0
  BY RateLimiterAssumption
<1>3. Init => TypeOK
  <2>1. 0 \in Nat /\ 0 \in 0..TicksPerSecond
    BY RateLimiterAssumption
  <2>2. QED
    BY <1>1, <2>1, Zenon DEF Init, TypeOK
<1>4. Init => NoLostWakeup /\ BurstBounded
  BY <1>2 DEF Init, NoLostWakeup, BurstBounded, Bucket
<1>5. QED
  BY <1>3, <1>4 DEF LimiterInv

(***************************************************************************)
(* Entering drain() keeps the types and the bucket within its bound.       *)
(***************************************************************************)
LEMMA EnterDrainKeeps ==
    ASSUME LimiterInv, EnterDrain
    PROVE  /\ scheduled' = FALSE /\ draining' = TRUE
           /\ wait' \in Nat /\ elapsed' \in 0..TicksPerSecond
           /\ tokens' \in Nat /\ tokens' <= Bucket(rate)
  BY BalanceBounds, RateLimiterAssumption DEF LimiterInv, EnterDrain

LEMMA LimiterStep == LimiterInv /\ [Next]_vars => LimiterInv'
<1> SUFFICES ASSUME LimiterInv, [Next]_vars
             PROVE  LimiterInv'
  OBVIOUS
<1> USE DEF LimiterInv
<1>1. ASSUME NEW c \in Transfers, NEW b \in ChunkSizes, Consume(c, b)
      PROVE  LimiterInv'
  <2>1. [owner |-> c, bytes |-> b] \in Item
    BY DEF Item
  <2>2. queue' \in Seq(Item) /\ rate' = rate /\ rate > 0
    BY <1>1, <2>1 DEF Consume, TypeOK
  <2>3. CASE scheduled
    BY <1>1, <2>2, <2>3 DEF Consume, TypeOK, NoLostWakeup, BurstBounded
  <2>4. CASE ~scheduled
    <3>1. EnterDrain
      BY <1>1, <2>4 DEF Consume
    <3>2. QED
      BY <2>2, <3>1, EnterDrainKeeps DEF TypeOK, NoLostWakeup, BurstBounded
  <2>5. QED
    BY <2>3, <2>4
<1>2. CASE DispatchHead
  <2>1. /\ queue \in Seq(Item) /\ queue # <<>>
        /\ Head(queue) \in Item /\ Tail(queue) \in Seq(Item)
    BY <1>2 DEF DispatchHead, Affordable, TypeOK
  <2>2. Head(queue).bytes \in Nat /\ tokens >= Head(queue).bytes
    BY <1>2, <2>1, RateLimiterAssumption DEF DispatchHead, Affordable, Item
  <2>3. Bucket(rate) \in Nat
    BY BalanceBounds
  <2>4. QED
    BY <1>2, <2>1, <2>2, <2>3
       DEF DispatchHead, TypeOK, NoLostWakeup, BurstBounded
<1>3. CASE FinishDrain
  <2>1. wait' \in Nat
    <3>1. CASE queue = <<>>
      BY <1>3, <3>1 DEF FinishDrain
    <3>2. CASE queue # <<>>
      <4>1. Head(queue) \in Item
        BY <3>2 DEF TypeOK
      <4>2. Head(queue).bytes \in Nat
        BY <4>1, RateLimiterAssumption DEF Item
      <4>3. TicksFor(Head(queue).bytes) \in Nat
        BY <3>2, <4>2, WaitIsNat DEF NoLostWakeup
      <4>4. QED
        BY <1>3, <3>2, <4>3 DEF FinishDrain
    <3>3. QED
      BY <3>1, <3>2
  <2>2. QED
    BY <1>3, <2>1 DEF FinishDrain, TypeOK, NoLostWakeup, BurstBounded
<1>4. CASE TimerFires
  <2>1. CASE rate = 0
    <3>1. /\ UNCHANGED <<rate, tokens, elapsed, queue, wait, draining>>
          /\ scheduled' = FALSE
      BY <1>4, <2>1 DEF TimerFires
    <3>2. queue = <<>>
      BY <2>1 DEF NoLostWakeup
    <3>3. TypeOK'
      BY <3>1 DEF TypeOK
    <3>4. NoLostWakeup' /\ BurstBounded'
      BY <3>1, <3>2 DEF NoLostWakeup, BurstBounded, Bucket
    <3>5. QED
      BY <3>3, <3>4
  <2>2. CASE rate # 0
    <3>1. EnterDrain /\ UNCHANGED <<rate, queue>>
      BY <1>4, <2>2 DEF TimerFires
    <3>2. QED
      BY <3>1, EnterDrainKeeps DEF TypeOK, NoLostWakeup, BurstBounded
  <2>3. QED
    BY <2>1, <2>2
<1>5. ASSUME NEW r \in Rates, SetLimit(r)
      PROVE  LimiterInv'
  <2>1. r \in Nat /\ Bucket(r) \in Nat
    BY RateLimiterAssumption DEF Bucket
  <2>2. queue' \in Seq(Item)
    BY <1>5 DEF SetLimit, TypeOK
  <2>3. QED
    BY <1>5, <2>1, <2>2, RateLimiterAssumption
       DEF SetLimit, TypeOK, NoLostWakeup, BurstBounded
<1>6. ASSUME NEW c \in Transfers, Abandon(c)
      PROVE  LimiterInv'
  <2>1. \A i \in 1..Len(queue) : queue[i] \in Item
    BY DEF TypeOK
  <2>2. \A i \in 1..Len(queue) :
           [owner |-> Nobody, bytes |-> queue[i].bytes] \in Item
    BY <2>1 DEF Item
  <2>3. queue' \in Seq(Item) /\ Len(queue') = Len(queue)
    BY <1>6, <2>1, <2>2 DEF Abandon, TypeOK
  <2>4. queue' # <<>> => queue # <<>>
    BY <2>3 DEF TypeOK
  <2>5. QED
    BY <1>6, <2>3, <2>4 DEF Abandon, TypeOK, NoLostWakeup, BurstBounded
<1>7. CASE Tick
  BY <1>7, RateLimiterAssumption
     DEF Tick, TypeOK, NoLostWakeup, BurstBounded, AtMost
<1>8. CASE UNCHANGED vars
  BY <1>8 DEF vars, TypeOK, NoLostWakeup, BurstBounded
<1>9. QED
  BY <1>1, <1>2, <1>3, <1>4, <1>5, <1>6, <1>7, <1>8 DEF Next

(***************************************************************************)
(* Every variable keeps its type, in particular the balance never becomes  *)
(* negative (src/rateLimiter.js drain).                                    *)
(***************************************************************************)
THEOREM TypeCorrect == Spec => []TypeOK
<1>1. LimiterInv => TypeOK
  BY DEF LimiterInv
<1>2. QED
  BY LimiterInit, LimiterStep, <1>1, PTL DEF Spec

(***************************************************************************)
(* No consume() is ever left waiting without a timer that will look at it, *)
(* whatever setLimit does meanwhile.                                       *)
(***************************************************************************)
THEOREM NoWakeupIsLost == Spec => []NoLostWakeup
<1>1. LimiterInv => NoLostWakeup
  BY DEF LimiterInv
<1>2. QED
  BY LimiterInit, LimiterStep, <1>1, PTL DEF Spec

(***************************************************************************)
(* The balance never exceeds one second of the limit in force.             *)
(***************************************************************************)
THEOREM BurstIsBounded == Spec => []BurstBounded
<1>1. LimiterInv => BurstBounded
  BY DEF LimiterInv
<1>2. QED
  BY LimiterInit, LimiterStep, <1>1, PTL DEF Spec

-----------------------------------------------------------------------------
(***************************************************************************)
(* The budget.  BudgetIInv is inductive: ThroughputBounded alone is not,   *)
(* for it forgets what is still in the bucket.                             *)
(***************************************************************************)
BudgetIInv == LimiterInv /\ BudgetInv /\ granted \in Nat /\ clock \in Nat

LEMMA BudgetInitHolds == BudgetInit => BudgetIInv
<1> SUFFICES ASSUME BudgetInit PROVE BudgetIInv
  OBVIOUS
<1>1. LimiterInv /\ granted = 0 /\ clock = 0
  BY LimiterInit DEF BudgetInit
<1>2. Balance \in Nat /\ Balance <= Bucket(rate) /\ rate \in Nat
  BY <1>1, BalanceBounds DEF LimiterInv
<1>3. rate * clock = 0 /\ Bucket(rate) \in Nat
  BY <1>1, <1>2, BalanceBounds DEF LimiterInv
<1>4. draining = FALSE
  BY DEF BudgetInit, Init
<1>5. QED
  BY <1>1, <1>2, <1>3, <1>4 DEF BudgetIInv, BudgetInv

(***************************************************************************)
(* A refill moves no money: the balance before is the balance after.       *)
(***************************************************************************)
LEMMA RefillKeepsBalance ==
    ASSUME LimiterInv, EnterDrain, rate' = rate
    PROVE  Balance' = Balance /\ elapsed' = 0
<1>1. /\ tokens' = Balance /\ elapsed' = 0
      /\ Balance \in Nat /\ Balance <= Bucket(rate)
      /\ rate \in Nat /\ Bucket(rate) \in Nat
  BY BalanceBounds DEF EnterDrain, LimiterInv
<1>2. Bucket(rate') = Bucket(rate) /\ elapsed' * rate' = 0
  BY <1>1
<1>3. QED
  BY <1>1, <1>2 DEF Balance, AtMost

(***************************************************************************)
(* A tick adds at most the rate to the balance.                            *)
(***************************************************************************)
LEMMA TickEarnsAtMostRate ==
    ASSUME LimiterInv, Tick
    PROVE  Balance' <= Balance + rate
<1>1. /\ rate \in Nat /\ tokens \in Nat /\ elapsed \in Nat
      /\ elapsed <= TicksPerSecond /\ TicksPerSecond \in Nat
      /\ Bucket(rate) \in Nat /\ Balance \in Nat
  BY BalanceBounds, RateLimiterAssumption DEF LimiterInv, TypeOK
<1>2. rate' = rate /\ tokens' = tokens /\ Bucket(rate') = Bucket(rate)
  BY DEF Tick
<1>3. CASE elapsed < TicksPerSecond
  <2>1. elapsed' = elapsed + 1
    BY <1>1, <1>3 DEF Tick, AtMost
  <2>2. (elapsed + 1) * rate = elapsed * rate + rate /\ elapsed * rate \in Nat
    BY <1>1
  <2>3. QED
    BY <1>1, <1>2, <2>1, <2>2 DEF Balance, AtMost
<1>4. CASE ~(elapsed < TicksPerSecond)
  <2>1. elapsed' = elapsed
    BY <1>1, <1>4 DEF Tick, AtMost
  <2>2. QED
    BY <1>1, <1>2, <2>1 DEF Balance
<1>5. QED
  BY <1>3, <1>4

LEMMA BudgetStep == BudgetIInv /\ [BudgetNext]_budgetVars => BudgetIInv'
<1> SUFFICES ASSUME BudgetIInv, [BudgetNext]_budgetVars
             PROVE  BudgetIInv'
  OBVIOUS
<1> USE DEF BudgetIInv
<1>0. /\ LimiterInv /\ granted \in Nat /\ clock \in Nat
      /\ granted + Balance <= Bucket(rate) + rate * clock
      /\ draining => elapsed = 0
      /\ rate \in Nat /\ Bucket(rate) \in Nat
      /\ Balance \in Nat /\ Balance <= Bucket(rate)
      /\ tokens \in Nat /\ elapsed \in Nat
  BY BalanceBounds, RateLimiterAssumption DEF BudgetInv, LimiterInv, TypeOK
<1>1. LimiterInv'
  BY LimiterStep DEF BudgetNext, Uncounted, CountGrant, CountTick, NewLimit,
     NewStretch, budgetVars, Next
<1>2. /\ Bucket(rate') \in Nat /\ Balance' \in Nat
      /\ Balance' <= Bucket(rate') /\ rate' \in Nat
  <2>1. rate' \in Nat /\ tokens' \in Nat /\ elapsed' \in Nat
    BY <1>1, RateLimiterAssumption DEF LimiterInv, TypeOK
  <2>2. QED
    BY <2>1, RefillArithmetic DEF Balance
<1>3. ASSUME UNCHANGED <<rate, tokens, elapsed, draining, granted, clock>>
      PROVE  BudgetInv'
  BY <1>0, <1>3 DEF BudgetInv, Balance
<1>4. ASSUME EnterDrain, UNCHANGED <<rate, granted, clock>>
      PROVE  BudgetInv'
  BY <1>0, <1>4, RefillKeepsBalance DEF BudgetInv
<1>5. CASE Uncounted
  <2>1. ASSUME NEW c \in Transfers, NEW b \in ChunkSizes, Consume(c, b)
        PROVE  BudgetInv'
    BY <1>3, <1>4, <1>5, <2>1 DEF Uncounted, Consume
  <2>2. ASSUME FinishDrain PROVE BudgetInv'
    <3>1. UNCHANGED <<rate, tokens, elapsed, granted, clock>> /\ ~draining'
      BY <1>5, <2>2 DEF Uncounted, FinishDrain
    <3>2. QED
      BY <1>0, <3>1 DEF BudgetInv, Balance
  <2>3. ASSUME TimerFires PROVE BudgetInv'
    BY <1>3, <1>4, <1>5, <2>3 DEF Uncounted, TimerFires
  <2>4. ASSUME NEW c \in Transfers, Abandon(c)
        PROVE  BudgetInv'
    BY <1>3, <1>5, <2>4 DEF Uncounted, Abandon
  <2>5. granted' = granted /\ clock' = clock
    BY <1>5 DEF Uncounted
  <2>6. BudgetInv'
    BY <1>5, <2>1, <2>2, <2>3, <2>4 DEF Uncounted
  <2>7. QED
    BY <1>0, <1>1, <2>5, <2>6
<1>6. CASE CountGrant
  <2>1. /\ draining /\ elapsed = 0 /\ draining' = draining
        /\ UNCHANGED <<rate, elapsed, clock>>
        /\ tokens' = tokens - Head(queue).bytes
        /\ granted' = granted + Head(queue).bytes
        /\ queue # <<>> /\ tokens >= Head(queue).bytes
    BY <1>0, <1>6 DEF CountGrant, DispatchHead, Affordable
  <2>2. Head(queue).bytes \in Nat
    <3>1. Head(queue) \in Item
      BY <1>0, <2>1 DEF LimiterInv, TypeOK
    <3>2. QED
      BY <3>1, RateLimiterAssumption DEF Item
  <2>3. tokens <= Bucket(rate)
    BY <1>0 DEF LimiterInv, BurstBounded
  <2>4. elapsed * rate = 0
    BY <1>0, <2>1
  <2>5. Balance = tokens
    BY <1>0, <2>3, <2>4 DEF Balance, AtMost
  <2>6. Balance' = tokens'
    <3>1. /\ Balance' = AtMost(Bucket(rate'), tokens' + elapsed' * rate')
          /\ elapsed' * rate' = 0 /\ Bucket(rate') = Bucket(rate)
      BY <2>1, <2>4 DEF Balance
    <3>2. tokens' \in Nat /\ tokens' <= Bucket(rate)
      BY <1>0, <2>1, <2>2, <2>3
    <3>3. QED
      BY <1>0, <3>1, <3>2 DEF AtMost
  <2>7. rate * clock \in Nat
    BY <1>0
  <2>8. granted' + Balance' <= Bucket(rate') + rate' * clock'
    BY <1>0, <2>1, <2>2, <2>5, <2>6, <2>7
  <2>9. QED
    BY <1>0, <1>1, <2>1, <2>2, <2>8 DEF BudgetInv
<1>7. CASE CountTick
  <2>1. Tick
    BY <1>7 DEF CountTick
  <2>2. rate' = rate /\ ~draining'
    BY <2>1 DEF Tick
  <2>3. Balance' <= Balance + rate
    BY <1>0, <2>1, TickEarnsAtMostRate
  <2>4. Bucket(rate') = Bucket(rate)
    BY <2>2
  <2>5. CASE clock < MaxClock
    <3>1. clock' = clock + 1 /\ granted' = granted
      BY <1>7, <2>5 DEF CountTick
    <3>2. rate * (clock + 1) = rate * clock + rate /\ rate * clock \in Nat
      BY <1>0
    <3>3. granted' + Balance' <= Bucket(rate') + rate' * clock'
      BY <1>0, <1>2, <2>2, <2>3, <2>4, <3>1, <3>2
    <3>4. QED
      BY <1>0, <1>1, <2>2, <3>1, <3>3 DEF BudgetInv
  <2>6. CASE ~(clock < MaxClock)
    <3>1. granted' = 0 /\ clock' = 0
      BY <1>7, <2>6 DEF CountTick
    <3>2. rate' * clock' = 0
      BY <1>0, <2>2, <3>1
    <3>3. QED
      BY <1>1, <1>2, <2>2, <3>1, <3>2 DEF BudgetInv
  <2>7. QED
    BY <2>5, <2>6
<1>8. CASE NewLimit
  <2>1. granted' = 0 /\ clock' = 0 /\ ~draining'
    BY <1>8 DEF NewLimit, SetLimit
  <2>2. rate' * clock' = 0
    BY <1>2, <2>1, RefillArithmetic
  <2>3. QED
    BY <1>1, <1>2, <2>1, <2>2 DEF BudgetInv
<1>9. CASE NewStretch
  <2>1. granted' = 0 /\ clock' = 0 /\ UNCHANGED vars
    BY <1>9 DEF NewStretch
  <2>2. rate' * clock' = 0 /\ (draining' => elapsed' = 0)
    BY <1>0, <1>2, <2>1 DEF vars
  <2>3. QED
    BY <1>1, <1>2, <2>1, <2>2 DEF BudgetInv
<1>10. CASE UNCHANGED budgetVars
  BY <1>0, <1>1, <1>3, <1>10 DEF budgetVars, vars
<1>11. QED
  BY <1>5, <1>6, <1>7, <1>8, <1>9, <1>10 DEF BudgetNext

(***************************************************************************)
(* Over any stretch of time with one limit, all transfers together send at *)
(* most one bucket plus the limit times the length of the stretch.         *)
(***************************************************************************)
THEOREM ThroughputIsBounded == BudgetSpec => []ThroughputBounded
<1>1. BudgetIInv => ThroughputBounded
  <2> SUFFICES ASSUME BudgetIInv PROVE ThroughputBounded
    OBVIOUS
  <2>1. /\ granted \in Nat /\ clock \in Nat /\ rate \in Nat
        /\ Balance \in Nat /\ Bucket(rate) \in Nat
        /\ granted + Balance <= Bucket(rate) + rate * clock
    BY BalanceBounds DEF BudgetIInv, BudgetInv, LimiterInv
  <2>2. rate * clock \in Nat
    BY <2>1
  <2>3. QED
    BY <2>1, <2>2 DEF ThroughputBounded
<1>2. QED
  BY BudgetInitHolds, BudgetStep, <1>1, PTL DEF BudgetSpec

-----------------------------------------------------------------------------
(* How much the head of the queue lacks when the timer fires. *)

(***************************************************************************)
(* A division rounds down by less than one.                                *)
(***************************************************************************)
LEMMA DivisionBound ==
    ASSUME NEW m \in Nat, NEW d \in Nat, d > 0
    PROVE  m \div d \in Nat /\ d * (m \div d) + d > m
<1>1. m \div d \in Nat
  OBVIOUS
<1>2. d * (m \div d) + d > m
  OBVIOUS
<1>3. QED
  BY <1>1, <1>2

(***************************************************************************)
(* Earning for the computed number of ticks misses the bytes asked for by  *)
(* less than one more tick.                                                *)
(***************************************************************************)
LEMMA TicksNearlySuffice ==
    ASSUME TypeOK, rate > 0, NEW b \in Nat, b > tokens
    PROVE  b < tokens + TicksFor(b) * rate + rate
<1>1. rate \in Nat /\ tokens \in Nat /\ rate > 0
  BY RateLimiterAssumption DEF TypeOK
<1>2. PICK n \in Nat : n = b - tokens
  BY <1>1
<1>3. n \div rate \in Nat /\ rate * (n \div rate) + rate > n
  BY <1>1, DivisionBound
<1>4. TicksFor(b) = IF n \div rate < 1 THEN 1 ELSE n \div rate
  BY <1>2 DEF TicksFor
<1>5. CASE n \div rate < 1
  <2>1. n \div rate = 0
    BY <1>3, <1>5
  <2>2. rate * 0 = 0 /\ 1 * rate = rate
    BY <1>1
  <2>3. n < rate
    BY <1>1, <1>3, <2>1, <2>2
  <2>4. QED
    BY <1>1, <1>2, <1>4, <1>5, <2>2, <2>3
<1>6. CASE ~(n \div rate < 1)
  <2>1. rate * (n \div rate) = TicksFor(b) * rate /\ TicksFor(b) * rate \in Nat
    BY <1>1, <1>3, <1>4, <1>6
  <2>2. QED
    BY <1>1, <1>2, <1>3, <2>1
<1>7. QED
  BY <1>5, <1>6

(***************************************************************************)
(* What was earned before a tick, or is earned by it, is not lost; a       *)
(* bucket that overflows is full, and pays for any chunk.                  *)
(***************************************************************************)
LEMMA TickEarns ==
    ASSUME TypeOK, Tick, rate \in Nat, NEW b \in Nat, b <= Bucket(rate),
           rate > 0, b < tokens + (elapsed + wait) * rate + rate
    PROVE  b < tokens + (elapsed' + wait') * rate + rate
<1>1. /\ TicksPerSecond \in Nat /\ tokens \in Nat /\ elapsed \in Nat /\ wait \in Nat
      /\ elapsed' = AtMost(elapsed + 1, TicksPerSecond)
      /\ wait' = IF wait > 0 THEN wait - 1 ELSE 0
  BY RateLimiterAssumption DEF TypeOK, Tick
<1>2. elapsed' \in Nat /\ wait' \in Nat
  BY <1>1 DEF AtMost
<1>3. CASE elapsed + 1 <= TicksPerSecond
  <2>1. elapsed + wait <= elapsed' + wait'
    BY <1>1, <1>3 DEF AtMost
  <2>2. \A m \in Nat, n \in Nat : m <= n => m * rate <= n * rate
    <3>1. ASSUME NEW m \in Nat, NEW n \in Nat, m <= n PROVE m * rate <= n * rate
      <4>1. n * rate = m * rate + (n - m) * rate
        OBVIOUS
      <4>2. n - m \in Nat
        BY <3>1
      <4>3. (n - m) * rate \in Nat /\ m * rate \in Nat
        BY <4>2
      <4>4. QED
        BY <4>1, <4>3
    <3>2. QED
      BY <3>1
  <2>3. elapsed + wait \in Nat /\ elapsed' + wait' \in Nat
    BY <1>1, <1>2
  <2>4. (elapsed + wait) * rate <= (elapsed' + wait') * rate
    BY <2>1, <2>2, <2>3
  <2>5. (elapsed + wait) * rate \in Nat /\ (elapsed' + wait') * rate \in Nat
    BY <2>3
  <2>6. QED
    BY <1>1, <2>4, <2>5
<1>4. CASE ~(elapsed + 1 <= TicksPerSecond)
  <2>1. elapsed' = TicksPerSecond
    BY <1>1, <1>4 DEF AtMost
  <2>2. (TicksPerSecond + wait') * rate = rate * TicksPerSecond + wait' * rate
    BY <1>1, <1>2
  <2>3. wait' * rate \in Nat /\ rate * TicksPerSecond \in Nat
    BY <1>1, <1>2
  <2>4. QED
    BY <1>1, <2>1, <2>2, <2>3 DEF Bucket
<1>5. QED
  BY <1>3, <1>4

(***************************************************************************)
(* The head of a queue is a chunk, and chunks fit the limit in force.      *)
(***************************************************************************)
LEMMA HeadFits ==
    ASSUME TypeOK, ChunksFit, rate > 0, queue # <<>>
    PROVE  Head(queue).bytes \in Nat /\ Head(queue).bytes <= Bucket(rate)
<1>1. Head(queue) \in Item /\ rate \in Rates \ {0}
  BY RateLimiterAssumption DEF TypeOK
<1>2. QED
  BY <1>1, RateLimiterAssumption DEF Item, ChunksFit

LEMMA TimerInit == Init => TimerInv
  BY DEF Init, TimerInv

LEMMA TimerStep ==
    ASSUME LimiterInv, TimerInv, ChunksFit, [Next]_vars
    PROVE  TimerInv'
<1> USE DEF LimiterInv
<1>0. /\ rate \in Nat /\ tokens \in Nat /\ elapsed \in Nat /\ wait \in Nat
      /\ queue \in Seq(Item) /\ Bucket(rate) \in Nat
  BY BalanceBounds, RateLimiterAssumption DEF TypeOK
<1>1. ASSUME NEW c \in Transfers, NEW b \in ChunkSizes, Consume(c, b)
      PROVE  TimerInv'
  <2>1. CASE ~scheduled
    BY <1>1, <2>1 DEF Consume, EnterDrain, TimerInv
  <2>2. CASE scheduled
    <3>1. /\ UNCHANGED <<tokens, elapsed, scheduled, wait, draining, rate>>
          /\ ~draining /\ rate > 0
          /\ queue' = Append(queue, [owner |-> c, bytes |-> b])
      BY <1>1, <2>2 DEF Consume
    <3>2. [owner |-> c, bytes |-> b] \in Item
      BY DEF Item
    <3>3. queue' # <<>>
      BY <1>0, <3>1, <3>2
    <3>4. CASE queue = <<>>
      <4>1. Head(queue') = [owner |-> c, bytes |-> b]
        BY <3>1, <3>4
      <4>2. b \in Nat /\ b <= Bucket(rate)
        BY <1>0, <3>1, RateLimiterAssumption DEF ChunksFit, TypeOK
      <4>3. tokens = Bucket(rate) /\ (elapsed + wait) * rate \in Nat
        BY <1>0, <2>2, <3>1, <3>4 DEF TimerInv
      <4>4. b < tokens + (elapsed + wait) * rate + rate
        BY <1>0, <3>1, <4>2, <4>3
      <4>5. QED
        BY <3>1, <3>3, <4>1, <4>4 DEF TimerInv
    <3>5. CASE queue # <<>>
      <4>1. Head(queue') = Head(queue)
        BY <1>0, <3>1, <3>2, <3>5
      <4>2. Head(queue).bytes < tokens + (elapsed + wait) * rate + rate
        BY <2>2, <3>1, <3>5 DEF TimerInv
      <4>3. QED
        BY <3>1, <3>3, <4>1, <4>2 DEF TimerInv
    <3>6. QED
      BY <3>4, <3>5
  <2>3. QED
    BY <2>1, <2>2
<1>2. CASE DispatchHead
  BY <1>2 DEF DispatchHead, TimerInv
<1>3. CASE FinishDrain
  <2>1. CASE queue = <<>>
    BY <1>3, <2>1 DEF FinishDrain, TimerInv
  <2>2. CASE queue # <<>>
    <3>1. rate > 0
      BY <2>2 DEF NoLostWakeup
    <3>2. Head(queue).bytes \in Nat /\ Head(queue).bytes > tokens
      BY <1>0, <1>3, <2>2, <3>1, HeadFits DEF FinishDrain, Affordable
    <3>3. /\ wait' = TicksFor(Head(queue).bytes)
          /\ UNCHANGED <<rate, tokens, elapsed, queue>>
      BY <1>3, <2>2 DEF FinishDrain
    <3>4. TicksFor(Head(queue).bytes) \in Nat
      BY <3>1, <3>2, WaitIsNat
    <3>5. Head(queue).bytes < tokens + wait' * rate + rate
      BY <3>1, <3>2, <3>3, TicksNearlySuffice
    <3>6. (elapsed + wait') * rate = elapsed * rate + wait' * rate
      BY <1>0, <3>3, <3>4
    <3>7. elapsed * rate \in Nat /\ wait' * rate \in Nat
      BY <1>0, <3>3, <3>4
    <3>8. Head(queue).bytes < tokens + (elapsed + wait') * rate + rate
      BY <1>0, <3>2, <3>5, <3>6, <3>7
    <3>9. QED
      BY <2>2, <3>3, <3>8 DEF TimerInv
  <2>3. QED
    BY <2>1, <2>2
<1>4. CASE TimerFires
  BY <1>4 DEF TimerFires, EnterDrain, TimerInv
<1>5. ASSUME NEW r \in Rates, SetLimit(r)
      PROVE  TimerInv'
  <2>1. /\ rate' = r /\ tokens' = Bucket(r) /\ elapsed' = 0 /\ wait' = wait
        /\ queue' = IF r = 0 THEN <<>> ELSE queue
        /\ UNCHANGED <<scheduled, draining>>
    BY <1>5 DEF SetLimit
  <2>2. r \in Nat /\ Bucket(r) \in Nat
    BY RateLimiterAssumption DEF Bucket
  <2>3. CASE queue' = <<>>
    BY <2>1, <2>3 DEF TimerInv
  <2>4. CASE queue' # <<>>
    <3>1. r > 0 /\ queue' = queue /\ r \in Rates \ {0}
      BY <2>1, <2>2, <2>4
    <3>2. Head(queue) \in Item
      BY <1>0, <2>4, <3>1
    <3>3. Head(queue).bytes \in Nat /\ Head(queue).bytes <= Bucket(r)
      BY <3>1, <3>2, RateLimiterAssumption DEF Item, ChunksFit
    <3>4. (0 + wait) * r \in Nat
      BY <1>0, <2>2
    <3>5. Head(queue').bytes < tokens' + (elapsed' + wait') * rate' + rate'
      BY <2>1, <2>2, <3>1, <3>3, <3>4
    <3>6. QED
      BY <2>4, <3>5 DEF TimerInv
  <2>5. QED
    BY <2>3, <2>4
<1>6. ASSUME NEW c \in Transfers, Abandon(c)
      PROVE  TimerInv'
  <2>1. /\ UNCHANGED <<rate, tokens, elapsed, scheduled, wait, draining>>
        /\ Len(queue) \in Nat /\ Len(queue) > 0 /\ queue # <<>>
    BY <1>0, <1>6 DEF Abandon, Waiting
  <2>2. /\ queue' # <<>>
        /\ Head(queue').bytes = Head(queue).bytes
    <3>1. 1 \in 1..Len(queue)
      BY <2>1
    <3>2. queue' = [i \in 1..Len(queue) |->
                      IF queue[i].owner = c
                        THEN [owner |-> Nobody, bytes |-> queue[i].bytes]
                        ELSE queue[i]]
      BY <1>6 DEF Abandon
    <3>3. Len(queue') = Len(queue) /\ queue' # <<>>
      BY <2>1, <3>2
    <3>4. Head(queue') = queue'[1] /\ Head(queue) = queue[1]
      BY <1>0, <3>2
    <3>5. queue'[1].bytes = queue[1].bytes
      BY <3>1, <3>2
    <3>6. QED
      BY <3>3, <3>4, <3>5
  <2>3. QED
    BY <2>1, <2>2 DEF TimerInv
<1>7. CASE Tick
  <2>1. /\ UNCHANGED <<rate, tokens, queue, scheduled, draining>>
        /\ elapsed' = AtMost(elapsed + 1, TicksPerSecond)
        /\ wait' = IF wait > 0 THEN wait - 1 ELSE 0
    BY <1>7 DEF Tick
  <2>2. CASE queue = <<>> \/ ~scheduled \/ draining
    BY <2>1, <2>2 DEF TimerInv
  <2>3. CASE queue # <<>> /\ scheduled /\ ~draining
    <3>1. rate > 0
      BY <2>3 DEF NoLostWakeup
    <3>2. Head(queue).bytes \in Nat /\ Head(queue).bytes <= Bucket(rate)
      BY <2>3, <3>1, HeadFits
    <3>4. Head(queue).bytes < tokens + (elapsed + wait) * rate + rate
      BY <2>3 DEF TimerInv
    <3>5. Head(queue).bytes < tokens + (elapsed' + wait') * rate + rate
      BY <1>0, <1>7, <3>1, <3>2, <3>4, TickEarns
    <3>6. QED
      BY <2>1, <2>3, <3>5 DEF TimerInv
  <2>4. QED
    BY <2>2, <2>3
<1>8. CASE UNCHANGED vars
  BY <1>8 DEF vars, TimerInv
<1>9. QED
  BY <1>1, <1>2, <1>3, <1>4, <1>5, <1>6, <1>7, <1>8 DEF Next

(***************************************************************************)
(* What a timer that fires leaves in the bucket.                           *)
(***************************************************************************)
LEMMA TimerNearlyPays ==
    ASSUME LimiterInv, TimerInv, ChunksFit, TimerFires, queue # <<>>
    PROVE  Head(queue').bytes < tokens' + rate
<1>1. /\ ~draining /\ scheduled /\ wait = 0 /\ rate > 0
      /\ tokens' = Balance /\ queue' = queue
  BY DEF TimerFires, EnterDrain, LimiterInv, NoLostWakeup
<1>2. Head(queue).bytes \in Nat /\ Head(queue).bytes <= Bucket(rate)
  BY <1>1, HeadFits DEF LimiterInv
<1>3. rate \in Nat /\ tokens \in Nat /\ elapsed \in Nat /\ Bucket(rate) \in Nat
  BY BalanceBounds, RateLimiterAssumption DEF LimiterInv, TypeOK
<1>4. Head(queue).bytes < tokens + (elapsed + wait) * rate + rate
  BY <1>1 DEF TimerInv
<1>5. elapsed + wait = elapsed
  BY <1>1, <1>3
<1>6. Head(queue).bytes < tokens + elapsed * rate + rate /\ elapsed * rate \in Nat
  BY <1>3, <1>4, <1>5
<1>7. Head(queue).bytes < Balance + rate
  BY <1>1, <1>2, <1>3, <1>6 DEF Balance, AtMost
<1>8. QED
  BY <1>1, <1>7

(***************************************************************************)
(* When every chunk fits a bucket, the drain timer (src/rateLimiter.js:37) *)
(* is never more than its dropped fraction too early: however limits       *)
(* change while it is pending, the head of the queue lacks less than one   *)
(* tick's worth when it fires.  Without the assumption the head may never  *)
(* be paid for.                                                            *)
(***************************************************************************)
THEOREM TimerIsNearlyLongEnough ==
    ASSUME ChunksFit
    PROVE  Spec => TimerMissesLessThanATick
<1>1. LimiterInv /\ TimerInv /\ [Next]_vars => TimerInv'
  BY TimerStep
<1>2. LimiterInv /\ TimerInv /\ [Next]_vars =>
         [(TimerFires /\ queue # <<>>) => Head(queue').bytes < tokens' + rate]_vars
  BY TimerNearlyPays
<1>3. QED
  BY LimiterInit, LimiterStep, TimerInit, <1>1, <1>2, PTL
     DEF Spec, TimerMissesLessThanATick
=============================================================================
