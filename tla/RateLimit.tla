----------------------------- MODULE RateLimit ------------------------------
(***************************************************************************)
(* Delivery with the clock of the processor's rate limiter (golang.org/x/  *)
(* time/rate).  Time advances by the interval in which a limiter gains one *)
(* token, RATE_LIMIT_PER_MINUTE of them in a minute, a positive number.    *)
(***************************************************************************)
EXTENDS Delivery

CONSTANT MaxRenewals   \* bound on the limiters made after the first

VARIABLES
    tokens,    \* of the limiter of the processor's current run
    budget,    \* what the same goroutines leave in one limiter that is never replaced
    renewals   \* how many limiters have been made after the first

rateVars == <<tokens, budget, renewals>>

\* A limiter is full when it is made.
RateInit ==
    /\ Init
    /\ tokens = RateLimitBurst /\ budget = RateLimitBurst
    /\ renewals = 0

Refill(bucket) == IF bucket < RateLimitBurst THEN bucket + 1 ELSE bucket

Elapse ==
    /\ tokens' = Refill(tokens) /\ budget' = Refill(budget)
    /\ UNCHANGED <<vars, renewals>>
    /\ rateVars' # rateVars

\* throttle.Wait takes a token for each goroutine.
Grant ==
    /\ tokens > 0
    /\ SpawnTask /\ Process
    /\ tokens' = tokens - 1 /\ budget' = budget - 1
    /\ UNCHANGED renewals

\* Process makes a limiter of its own in each run.
NewLimiter ==
    /\ renewals < MaxRenewals
    /\ (StartProcessor /\ Operate) \/ Restart
    /\ tokens' = RateLimitBurst
    /\ renewals' = renewals + 1
    /\ UNCHANGED budget

Other == Next /\ ~(SpawnTask \/ StartProcessor \/ Restart) /\ UNCHANGED rateVars

RateNext == Elapse \/ Grant \/ NewLimiter \/ Other

RateSpec == RateInit /\ [][RateNext]_<<vars, rateVars>>

\* README: "Rate-limited message processing (configurable messages per
\* minute)".  The goroutines that are started stay within the configured rate
\* and burst.
RateHolds == budget >= 0

Allowance == RateLimitBurst * renewals

\* What the goroutines can be ahead of the configured rate is a burst for each
\* limiter that has replaced another (processor.go:165-166).
ExcessBounded == budget >= -Allowance
=============================================================================
