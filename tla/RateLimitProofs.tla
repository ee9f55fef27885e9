-------------------------- MODULE RateLimitProofs ---------------------------
(***************************************************************************)
(* The configured rate is exceeded only by starting the processor again,   *)
(* and by no more than a burst each time.                                  *)
(***************************************************************************)
EXTENDS RateLimit, TLAPS

\* The current limiter never has less than one that is never replaced, nor
\* more than it by a burst for each replacement.
Ahead == tokens - budget

RateInv ==
    /\ tokens \in 0..RateLimitBurst
    /\ budget \in Int /\ renewals \in Nat
    /\ 0 <= Ahead /\ Ahead <= Allowance

LEMMA AllowanceType == renewals \in Nat => Allowance \in Nat
  BY ProcessorAssumption DEF Allowance

LEMMA AllowanceGrows ==
    renewals \in Nat /\ renewals' = renewals + 1 => Allowance' = Allowance + RateLimitBurst
  BY ProcessorAssumption DEF Allowance

LEMMA InitRateInv == RateInit => RateInv
<1> SUFFICES ASSUME RateInit PROVE RateInv
  OBVIOUS
<1>1. tokens = RateLimitBurst /\ budget = RateLimitBurst /\ renewals = 0
  BY DEF RateInit
<1>2. Allowance \in Nat
  BY <1>1, AllowanceType
<1> QED
  BY <1>1, <1>2, ProcessorAssumption DEF RateInv, Ahead

LEMMA StepRateInv == RateInv /\ [RateNext]_<<vars, rateVars>> => RateInv'
<1> SUFFICES ASSUME RateInv, [RateNext]_<<vars, rateVars>> PROVE RateInv'
  OBVIOUS
<1> USE ProcessorAssumption DEF RateInv, Ahead
<1>n. Allowance \in Nat
  BY AllowanceType
<1>1. CASE Elapse
  <2>1. renewals' = renewals /\ Allowance' = Allowance
    BY <1>1 DEF Elapse, Allowance
  <2>2. tokens' = Refill(tokens) /\ budget' = Refill(budget)
    BY <1>1 DEF Elapse
  <2> QED
    BY <1>n, <2>1, <2>2 DEF Refill
<1>2. CASE Grant
  <2>1. renewals' = renewals /\ Allowance' = Allowance
    BY <1>2 DEF Grant, Allowance
  <2> QED
    BY <1>2, <1>n, <2>1 DEF Grant
<1>3. CASE NewLimiter
  <2>1. tokens' = RateLimitBurst /\ budget' = budget /\ renewals' = renewals + 1
    BY <1>3 DEF NewLimiter
  <2>2. Allowance' = Allowance + RateLimitBurst
    BY <2>1, AllowanceGrows
  <2> QED
    BY <1>n, <2>1, <2>2
<1>4. CASE UNCHANGED rateVars
  BY <1>4 DEF rateVars, Allowance
<1> QED
  BY <1>1, <1>2, <1>3, <1>4 DEF RateNext, Other

\* Whatever is stopped, started or restarted, the goroutines are never further
\* ahead of the configured rate and burst than by one burst for each limiter
\* after the first, for every burst and every pace of the webhook
\* (processor.go:165-166).
THEOREM ExcessIsBounded == RateSpec => []ExcessBounded
<1>1. RateInv => ExcessBounded
  BY AllowanceType, ProcessorAssumption DEF RateInv, Ahead, ExcessBounded
<1> QED
  BY <1>1, InitRateInv, StepRateInv, PTL DEF RateSpec

\* So the configured rate and burst hold as long as neither the processor nor
\* the program is started a second time.
THEOREM RateHoldsInOneRun ==
    ASSUME "stop" \notin Faults, MaxRestarts = 0
    PROVE  RateSpec => []RateHolds
<1> DEFINE OneRun == renewals = 0 /\ restarts = 0
<1>1. RateInit => OneRun
  BY DEF RateInit, Init
<1>2. OneRun /\ [RateNext]_<<vars, rateVars>> => OneRun'
  <2> SUFFICES ASSUME OneRun, [RateNext]_<<vars, rateVars>> PROVE OneRun'
    OBVIOUS
  <2>1. ~NewLimiter /\ ~Restart
    BY DEF NewLimiter, Operate, Restart
  <2>2. CASE Elapse \/ Grant
    BY <2>2 DEF Elapse, Grant, Process, vars
  <2>3. CASE Other
    BY <2>1, <2>3 DEF Other, Next, Insert, ProcessMessage, Operate, Populate, Process, rateVars
  <2> QED
    BY <2>1, <2>2, <2>3 DEF RateNext, vars, rateVars
<1>3. OneRun /\ ExcessBounded => RateHolds
  <2>1. renewals = 0 => Allowance = 0
    BY ProcessorAssumption DEF Allowance
  <2> QED
    BY <2>1 DEF ExcessBounded, RateHolds
<1> QED
  BY <1>1, <1>2, <1>3, ExcessIsBounded, PTL DEF RateSpec
=============================================================================
