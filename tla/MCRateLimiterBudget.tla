------------------------ MODULE MCRateLimiterBudget ------------------------
(* An instance of RateLimiterBudget small enough for TLC. *)
EXTENDS RateLimiterBudget

\* Chunks never exceed a bucket (two ticks of the lowest positive limit).
FittingRates == {0, 2, 3}
FittingChunks == {1, 4}
=============================================================================
