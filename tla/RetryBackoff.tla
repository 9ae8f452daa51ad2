---------------------------- MODULE RetryBackoff ----------------------------
(* The waits between the attempts of one batch (app/internal/seeder/retry)    *)
(* under every configuration that Load accepts: Duration over integers, and   *)
(* the loop of sendWithRetry while every attempt fails.                       *)
(*                                                                            *)
(* The fractions of the code, the jitter and the random number, are multiples *)
(* of 1/Scale; durations are integers of a width that ends at MaxInt.         *)
EXTENDS SeederConfig

CONSTANT MaxInt         \* the largest time.Duration

ASSUME WidthAssumption == MaxInt \in Nat \ {0}

MinInt == -MaxInt - 1

-----------------------------------------------------------------------------
(* math.Pow(2, n) *)
Power[n \in Nat] == IF n = 0 THEN 1 ELSE 2 * Power[n - 1]

(* Capped with an exponent that starts at one, and without the cap. *)
Capped_OffByOne(attempt, cfg) ==
    LET raw == cfg.RetryInitialBackoff * Power[attempt]
    IN  IF raw > cfg.RetryMaxBackoff THEN cfg.RetryMaxBackoff ELSE raw

Capped_Never(attempt, cfg) == cfg.RetryInitialBackoff * Power[attempt - 1]

Capped(attempt, cfg) ==
    LET raw == cfg.RetryInitialBackoff * Power[(IF attempt < 1 THEN 1 ELSE attempt) - 1]
    IN  IF raw > cfg.RetryMaxBackoff THEN cfg.RetryMaxBackoff ELSE raw

(* Jittered that spreads by twice the jitter. *)
Jittered_Twice(backoff, jitter, random) ==
    (backoff * (Scale * Scale + 4 * jitter * random - 2 * jitter * Scale)) \div (Scale * Scale)

(* The multiplier is 1 + 2 * random * jitter - jitter; the conversion to      *)
(* time.Duration cuts off the fraction.                                       *)
Jittered(backoff, jitter, random) ==
    (backoff * (Scale * Scale + 2 * jitter * random - jitter * Scale)) \div (Scale * Scale)

(* No backoff is negative. *)
AtLeastZero(d) == IF d < 0 THEN 0 ELSE d

(* A float beyond the width converts to what the processor makes of it. *)
Converted(d) == IF d <= MaxInt THEN {d} ELSE {MaxInt, MinInt}

(* The values Duration may return, one or two for each random number; a       *)
(* jitter of NaN is not greater than zero.                                    *)
Duration(attempt, cfg) ==
    LET backoff == Capped(attempt, cfg)
    IN  UNION {Converted(AtLeastZero(IF Above(cfg.RetryJitter, 0)
                                       THEN Jittered(backoff, cfg.RetryJitter.n, random)
                                       ELSE backoff)) : random \in 0..(Scale - 1)}

-----------------------------------------------------------------------------
VARIABLES
    attempt,    \* the attempt that is about to be made
    waited,     \* the backoff waited last, ...
    before,     \* ... and the one before that
    total       \* the sum of all waits of the batch

waitVars == <<attempt, waited, before, total>>
vars     == <<input, at, args, config, attempt, waited, before, total>>

Init ==
    /\ ConfigInit
    /\ attempt = 1
    /\ waited = 0 /\ before = 0 /\ total = 0

(* An attempt that is not the last fails.  A timer set to a negative duration *)
(* fires at once.                                                             *)
BackOff ==
    /\ at = "accepted"
    /\ attempt < config.RetryAttempts
    /\ waited' \in Duration(attempt, config)
    /\ before' = waited
    /\ total' = total + IF waited' > 0 THEN waited' ELSE 0
    /\ attempt' = attempt + 1
    /\ UNCHANGED configVars

Next == (Load /\ UNCHANGED waitVars) \/ BackOff
Spec == Init /\ [][Next]_vars

-----------------------------------------------------------------------------
(* No jittered wait overflows. *)
Fits == attempt > 1 /\ 2 * config.RetryMaxBackoff <= MaxInt

(* The backoff as it is usually defined: it starts with the initial one and   *)
(* doubles until it meets the maximum.                                        *)
Doubling ==
    LET double[n \in 1..config.RetryAttempts] ==
          IF n = 1 THEN config.RetryInitialBackoff
          ELSE IF 2 * double[n - 1] < config.RetryMaxBackoff THEN 2 * double[n - 1]
          ELSE config.RetryMaxBackoff
    IN  double

(* Each wait lies within the jitter around the doubled and capped backoff,    *)
(* is never negative with any jitter that validate accepts, and is the plain  *)
(* backoff when the jitter is NaN (backoff.go:10-30).                         *)
WaitsAroundDoubling ==
    Fits =>
        LET backoff == Doubling[attempt - 1]
            jitter  == IF config.RetryJitter.nan THEN 0 ELSE config.RetryJitter.n
        IN  /\ waited >= 0
            /\ Scale * (waited + 1) > backoff * (Scale - jitter)
            /\ Scale * waited <= backoff * (Scale + jitter)

(* With a jitter of at most a third, which the default of 0.2 is, a batch     *)
(* never waits less than the time before while the maximum is not reached     *)
(* (backoff.go:15-22).                                                        *)
NeverShortensBelowMax ==
    Fits /\ attempt > 2 /\ ~Above([config.RetryJitter EXCEPT !.n = 3 * @], Scale)
         /\ 2 * Doubling[attempt - 2] <= config.RetryMaxBackoff
      => waited >= before

(* All waits of a batch together are less than twice the maximum for each     *)
(* retry, and less than twice the full doubling when it is never capped: the  *)
(* backoff adds a bounded time to a drain (backoff.go:15-22, worker.go:141).  *)
TotalBounded ==
    Fits => /\ total <= 2 * (attempt - 1) * config.RetryMaxBackoff
            /\ total <= 2 * config.RetryInitialBackoff * (Power[attempt - 1] - 1)
=============================================================================
