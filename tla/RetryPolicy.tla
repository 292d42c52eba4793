---------------------------- MODULE RetryPolicy ----------------------------
(***************************************************************************)
(* The retry policy of internal/task/retry.go: pure operators that read a  *)
(* policy from a spider's config and decide whether, and after how long, a *)
(* failed attempt is tried again.                                          *)
(*                                                                         *)
(* A duration is a 64-bit count of nanoseconds in the code. Here it is an  *)
(* integer in MinDuration .. MaxDuration, in a unit the instance chooses;  *)
(* products wrap around, and a float64 beyond the range becomes            *)
(* OutOfRange, which Go leaves to the platform (the least integer on       *)
(* amd64, the greatest on arm64).                                          *)
(***************************************************************************)
EXTENDS Integers

CONSTANTS
  MaxDuration,     \* the greatest time.Duration, in the unit of the instance
  OutOfRange,      \* what time.Duration(f) gives for an f above MaxDuration
  DefaultBase,     \* retryDefault.BaseDelay (30 s)
  DefaultMaxDelay, \* retryDefault.MaxDelay (30 min)
  Absent           \* a config field that is missing or has the wrong type

MinDuration == -MaxDuration - 1

Duration == MinDuration .. MaxDuration

ASSUME RetryAssumption ==
  /\ MaxDuration \in Nat \ {0}
  /\ OutOfRange \in {MinDuration, MaxDuration}
  /\ DefaultBase \in 1 .. MaxDuration
  /\ DefaultMaxDelay \in 1 .. MaxDuration
  /\ Absent \notin Int

\* int64 multiplication keeps the low 64 bits.
Wrap(x) == ((x + MaxDuration + 1) % (2 * (MaxDuration + 1))) + MinDuration

\* The error classes an author may opt into; "captcha" is not one of them.
RetryableClass == {"timeout", "exit", "deps", "build_assign"}

MaxAttemptsLimit == 100

\* RetryPolicy, as PolicyFromSpiderConfig can return it.
Policy == [maxAttempts : 1 .. MaxAttemptsLimit, backoff : {"exp", "linear"},
           base : Duration, maxDelay : Duration, retryOn : SUBSET RetryableClass]

retryDefault ==
  [maxAttempts |-> 1, backoff |-> "exp", base |-> DefaultBase,
   maxDelay |-> DefaultMaxDelay, retryOn |-> {"timeout", "exit"}]

\* A field of the "retry" block, when it is a number the parser accepts.
Accepted(v, ok, result, default) ==
  IF v = Absent THEN default ELSE IF ok THEN result ELSE default

AtLeastZero(v) == v >= 0

\* Mutant: max_attempts has no upper limit.
AttemptsUnlimited(v) == v >= 1

AttemptsInRange(v) == v >= 1 /\ v <= MaxAttemptsLimit

\* The values are the author's: numbers of any size (the delays in the unit of
\* the instance), any strings, taken in lower case and without blanks around them.
PolicyFromSpiderConfig(cfg) ==
  [maxAttempts |-> Accepted(cfg.maxAttempts, AttemptsInRange(cfg.maxAttempts), cfg.maxAttempts,
                            retryDefault.maxAttempts),
   backoff     |-> IF cfg.backoff = "linear" THEN "linear"
                   ELSE IF cfg.backoff \in {"exp", "exponential"} THEN "exp"
                   ELSE retryDefault.backoff,
   base        |-> Accepted(cfg.base, AtLeastZero(cfg.base), Wrap(cfg.base), retryDefault.base),
   maxDelay    |-> Accepted(cfg.maxDelay, AtLeastZero(cfg.maxDelay), Wrap(cfg.maxDelay),
                            retryDefault.maxDelay),
   retryOn     |-> IF cfg.retryOn = Absent THEN retryDefault.retryOn
                   ELSE cfg.retryOn \cap RetryableClass]

Least(a, b) == IF a <= b THEN a ELSE b

\* Mutant: one doubling too many.
MultiplierOffByOne(n) == 2 ^ (IF n < 0 THEN 0 ELSE Least(n, 29))

\* 2^(n-1), the exponent clamped to 0 .. 30.
Multiplier(n) == 2 ^ (IF n < 1 THEN 0 ELSE Least(n - 1, 30))

FloatToDuration(x) == IF x \in Duration THEN x ELSE OutOfRange

\* backoffFor before the cap.
RawDelay(p, n) ==
  IF p.backoff = "linear" THEN Wrap(n * p.base)
  ELSE FloatToDuration(p.base * Multiplier(n))

\* Mutant: the cap is for exponential pauses only.
backoffForExpCap(p, n) ==
  IF p.base <= 0 THEN 0
  ELSE IF p.maxDelay > 0 /\ p.backoff = "exp" THEN Least(RawDelay(p, n), p.maxDelay)
  ELSE RawDelay(p, n)

backoffFor(p, n) ==
  IF p.base <= 0 THEN 0
  ELSE IF p.maxDelay > 0 THEN Least(RawDelay(p, n), p.maxDelay)
  ELSE RawDelay(p, n)

\* Mutant: max_attempts counts the retries alone.
ShouldRetryOneMore(p, n, class) ==
  /\ p.maxAttempts > 1
  /\ n <= p.maxAttempts
  /\ class \notin {"", "captcha"}
  /\ class \in p.retryOn

\* Decide's yes or no for attempt n that failed with this class.
ShouldRetry(p, n, class) ==
  /\ p.maxAttempts > 1
  /\ n < p.maxAttempts
  /\ class \notin {"", "captcha"}
  /\ class \in p.retryOn

Decide(p, n, class) ==
  [retry |-> ShouldRetry(p, n, class),
   delay |-> IF ShouldRetry(p, n, class) THEN backoffFor(p, n) ELSE 0]
=============================================================================
