-------------------------- MODULE RetryChain_proofs -------------------------
(***************************************************************************)
(* Proofs about the retry policy and the chains it allows, for any config  *)
(* an author can write and any size of a duration.                         *)
(***************************************************************************)
EXTENDS RetryChain, TLAPS

\* A product that wraps around is a duration.
LEMMA WrapType ==
  ASSUME NEW x \in Int
  PROVE  Wrap(x) \in Duration
<1>1. \A a \in Int, n \in Int : n > 0 => a % n \in 0 .. n - 1
  OBVIOUS
<1>2. (x + MaxDuration + 1) % (2 * (MaxDuration + 1)) \in 0 .. 2 * (MaxDuration + 1) - 1
  BY <1>1, RetryAssumption
<1> QED
  BY <1>2, RetryAssumption DEF Wrap, Duration, MinDuration

\* The author's config, whatever is in it, is read into a policy.
LEMMA PolicyType ==
  ASSUME NEW c \in Config
  PROVE  PolicyFromSpiderConfig(c) \in Policy
<1>1. retryDefault \in Policy
  BY RetryAssumption DEF retryDefault, Policy, RetryableClass, MaxAttemptsLimit, Duration,
                         MinDuration
<1>3. /\ c.maxAttempts = Absent \/ c.maxAttempts \in Int
      /\ c.base = Absent \/ c.base \in Int
      /\ c.maxDelay = Absent \/ c.maxDelay \in Int
  BY ConfigAssumption
<1>4. Accepted(c.maxAttempts, AttemptsInRange(c.maxAttempts), c.maxAttempts, retryDefault.maxAttempts)
        \in 1 .. MaxAttemptsLimit
  BY <1>1, <1>3 DEF Accepted, AttemptsInRange, Policy, MaxAttemptsLimit
<1>5. /\ Accepted(c.base, AtLeastZero(c.base), Wrap(c.base), retryDefault.base) \in Duration
      /\ Accepted(c.maxDelay, AtLeastZero(c.maxDelay), Wrap(c.maxDelay), retryDefault.maxDelay) \in Duration
  BY <1>1, <1>3, WrapType DEF Accepted, AtLeastZero, Policy
<1>6. /\ (IF c.backoff = "linear" THEN "linear"
          ELSE IF c.backoff \in {"exp", "exponential"} THEN "exp" ELSE retryDefault.backoff)
           \in {"exp", "linear"}
      /\ (IF c.retryOn = Absent THEN retryDefault.retryOn ELSE c.retryOn \cap RetryableClass)
           \in SUBSET RetryableClass
  BY <1>1 DEF Policy
<1> QED
  BY <1>4, <1>5, <1>6 DEF PolicyFromSpiderConfig, Policy

\* The product before the cap, wrapped around or converted, is a duration.
LEMMA RawType ==
  ASSUME NEW p \in Policy, NEW n \in Nat
  PROVE  RawDelay(p, n) \in Duration
<1>1. n * p.base \in Int
  BY RetryAssumption DEF Policy, Duration, MinDuration
<1>2. Wrap(n * p.base) \in Duration
  BY <1>1, WrapType
<1>3. OutOfRange \in Duration
  BY RetryAssumption DEF Duration, MinDuration
<1>4. \A x : FloatToDuration(x) \in Duration
  BY <1>3 DEF FloatToDuration
<1> QED
  BY <1>2, <1>4 DEF RawDelay

\* Whatever the product does, the pause is a duration and respects a positive cap.
LEMMA BackoffType ==
  ASSUME NEW p \in Policy, NEW n \in Nat
  PROVE  /\ backoffFor(p, n) \in Duration
         /\ p.maxDelay > 0 => backoffFor(p, n) <= p.maxDelay
<1>1. /\ p.base \in Int /\ p.maxDelay \in Duration /\ n * p.base \in Int
      /\ 0 \in Duration /\ Duration \subseteq Int
  BY RetryAssumption DEF Policy, Duration, MinDuration
<1>2. RawDelay(p, n) \in Duration
  BY RawType
<1>3. \A a, b \in Duration : Least(a, b) \in Duration /\ Least(a, b) <= b
  BY <1>1 DEF Least
<1>4. CASE p.base <= 0
  <2>1. backoffFor(p, n) = 0
    BY <1>4 DEF backoffFor
  <2>2. p.maxDelay \in Int
    BY <1>1
  <2> QED
    BY <1>1, <2>1, <2>2
<1>5. CASE ~(p.base <= 0) /\ p.maxDelay > 0
  <2>1. backoffFor(p, n) = Least(RawDelay(p, n), p.maxDelay)
    BY <1>5 DEF backoffFor
  <2> QED
    BY <1>1, <1>2, <1>3, <2>1
<1>6. CASE ~(p.base <= 0) /\ ~(p.maxDelay > 0)
  <2>1. backoffFor(p, n) = RawDelay(p, n)
    BY <1>6 DEF backoffFor
  <2> QED
    BY <1>2, <1>6, <2>1
<1> QED
  BY <1>4, <1>5, <1>6

-----------------------------------------------------------------------------
ChainInv ==
  /\ config \in Config
  /\ attempt \in 1 .. policy.maxAttempts
  /\ delay \in Duration
  /\ PauseCapped
  /\ over \in BOOLEAN

LEMMA ChainInit == Init => ChainInv
<1> SUFFICES ASSUME Init PROVE ChainInv
  OBVIOUS
<1>1. policy \in Policy
  BY PolicyType DEF Init, policy
<1>2. policy.maxAttempts \in 1 .. MaxAttemptsLimit /\ policy.maxDelay \in Duration
  BY <1>1 DEF Policy
<1>3. 1 \in 1 .. policy.maxAttempts
  BY <1>2 DEF MaxAttemptsLimit
<1>4. 0 \in Duration /\ (policy.maxDelay > 0 => 0 <= policy.maxDelay)
  BY <1>2, RetryAssumption DEF Duration, MinDuration
<1> QED
  BY <1>3, <1>4 DEF Init, ChainInv, PauseCapped

LEMMA ChainStep ==
  ASSUME ChainInv, [Next]_vars
  PROVE  ChainInv'
<1>1. CASE UNCHANGED vars
  BY <1>1 DEF vars, ChainInv, PauseCapped, policy
<1>2. ASSUME NEW class \in FailureClass, AttemptFails(class)
      PROVE  ChainInv'
  <2>1. policy \in Policy /\ policy' = policy /\ config' \in Config
    BY <1>2, PolicyType DEF AttemptFails, ChainInv, policy
  <2>2. CASE ShouldRetry(policy, attempt, class)
    <3>1. attempt' = attempt + 1 /\ delay' = backoffFor(policy, attempt) /\ over' = over
      BY <1>2, <2>2 DEF AttemptFails, Decide
    <3>2. attempt \in Nat /\ policy.maxAttempts \in Nat
      BY <2>1 DEF ChainInv, Policy, MaxAttemptsLimit
    <3>3. attempt' \in 1 .. policy.maxAttempts
      <4>1. attempt < policy.maxAttempts
        BY <2>2 DEF ShouldRetry
      <4> QED
        BY <3>1, <3>2, <4>1
    <3>4. delay' \in Duration /\ (policy.maxDelay > 0 => delay' <= policy.maxDelay)
      BY <2>1, <3>1, <3>2, BackoffType
    <3> QED
      BY <2>1, <3>1, <3>3, <3>4 DEF ChainInv, PauseCapped
  <2>3. CASE ~ShouldRetry(policy, attempt, class)
    <3>1. attempt' = attempt /\ delay' = delay /\ over' = TRUE
      BY <1>2, <2>3 DEF AttemptFails, Decide
    <3> QED
      BY <2>1, <3>1 DEF ChainInv, PauseCapped
  <2> QED
    BY <2>2, <2>3
<1> QED
  BY <1>1, <1>2 DEF Next

\* The inductive invariant of a chain.
THEOREM ChainCorrect == Spec => []ChainInv
BY ChainInit, ChainStep, PTL DEF Spec

\* No config makes more attempts than it asks for, or than the parser allows; a
\* config that asks for something else makes one (PolicyFromSpiderConfig, Decide).
THEOREM AttemptsCorrect == Spec => []AttemptsWithinConfig
<1>1. ChainInv => AttemptsWithinConfig
  <2> SUFFICES ASSUME ChainInv PROVE AttemptsWithinConfig
    OBVIOUS
  <2>1. config \in Config
    BY DEF ChainInv
  <2>2. policy.maxAttempts = IF config.maxAttempts \in 1 .. MaxAttemptsLimit
                             THEN config.maxAttempts ELSE 1
    BY <2>1, ConfigAssumption, RetryAssumption
       DEF policy, PolicyFromSpiderConfig, Accepted, AttemptsInRange, retryDefault,
           MaxAttemptsLimit
  <2>3. policy.maxAttempts \in Int
    BY <2>2 DEF MaxAttemptsLimit
  <2> QED
    BY <2>2, <2>3 DEF ChainInv, AttemptsWithinConfig
<1> QED
  BY <1>1, ChainCorrect, PTL

\* The cap is a cap for every policy, even where the product wraps around or leaves
\* the range of a duration (backoffFor).
THEOREM CapCorrect == Spec => []PauseCapped
<1>1. ChainInv => PauseCapped
  BY DEF ChainInv
<1> QED
  BY <1>1, ChainCorrect, PTL

\* Attempts stay within the hundred the parser allows and pauses are durations.
THEOREM ChainTypeCorrect == Spec => []TypeOK
<1>1. ChainInv => TypeOK
  <2> SUFFICES ASSUME ChainInv PROVE TypeOK
    OBVIOUS
  <2>1. policy \in Policy
    BY PolicyType DEF ChainInv, policy
  <2> QED
    BY <2>1 DEF ChainInv, TypeOK, Policy, MaxAttemptsLimit
<1> QED
  BY <1>1, ChainCorrect, PTL

-----------------------------------------------------------------------------
(* How pauses grow.                                                        *)

\* The powers of two the exponent can reach, which a float64 holds exactly.
LEMMA Doubling ==
  ASSUME NEW k \in 0 .. 29
  PROVE  2 ^ (k + 1) = 2 * 2 ^ k /\ 2 ^ k \in Nat
<1> DEFINE power == [i \in 0 .. 30 |-> 2 ^ i]
<1>1. /\ power[0] = 1 /\ power[1] = 2 /\ power[2] = 4 /\ power[3] = 8 /\ power[4] = 16
      /\ power[5] = 32 /\ power[6] = 64 /\ power[7] = 128 /\ power[8] = 256 /\ power[9] = 512
      /\ power[10] = 1024 /\ power[11] = 2048 /\ power[12] = 4096 /\ power[13] = 8192
      /\ power[14] = 16384 /\ power[15] = 32768 /\ power[16] = 65536 /\ power[17] = 131072
      /\ power[18] = 262144 /\ power[19] = 524288 /\ power[20] = 1048576 /\ power[21] = 2097152
      /\ power[22] = 4194304 /\ power[23] = 8388608 /\ power[24] = 16777216
      /\ power[25] = 33554432 /\ power[26] = 67108864 /\ power[27] = 134217728
      /\ power[28] = 268435456 /\ power[29] = 536870912 /\ power[30] = 1073741824
  OBVIOUS
<1>2. power[k] = 2 ^ k /\ power[k + 1] = 2 ^ (k + 1)
  OBVIOUS
<1> HIDE DEF power
<1>3. power[k + 1] = 2 * power[k] /\ power[k] \in Nat
  BY <1>1
<1> QED
  BY <1>2, <1>3

\* A sum that stays within the remainders is the remainder of the sum.
LEMMA ModShift ==
  ASSUME NEW a \in Int, NEW n \in Nat \ {0}, NEW k \in Int, (a % n) + k \in 0 .. n - 1
  PROVE  (a + k) % n = (a % n) + k
<1> DEFINE q == a \div n
           r == a % n
           q2 == (a + k) \div n
           r2 == (a + k) % n
<1>1. a = n * q + r /\ q \in Int /\ r \in 0 .. n - 1
  OBVIOUS
<1>2. a + k = n * q2 + r2 /\ q2 \in Int /\ r2 \in 0 .. n - 1
  OBVIOUS
<1>3. r + k \in 0 .. n - 1
  OBVIOUS
<1> HIDE DEF q, r, q2, r2
<1> DEFINE x == q2 - q
<1>4. n * x = (r + k) - r2 /\ x \in Int
  BY <1>1, <1>2
<1>5. x >= 1 => n * x >= n
  BY <1>4
<1>6. x <= -1 => n * x <= -n
  BY <1>4
<1> HIDE DEF x
<1>7. x = 0
  BY <1>2, <1>3, <1>4, <1>5, <1>6
<1>8. r + k = r2
  BY <1>1, <1>2, <1>4, <1>7
<1> QED
  BY <1>8 DEF r, r2

\* A duration is its own wrapped value, and adding to a wrapped value is adding
\* under the wrap, as long as the sum is a duration.
LEMMA WrapAdds ==
  /\ \A x \in Duration : Wrap(x) = x
  /\ \A x \in Int, b \in Int : Wrap(x) + b \in Duration => Wrap(x + b) = Wrap(x) + b
<1> DEFINE half == MaxDuration + 1
           n == 2 * half
<1>1. half \in Nat \ {0} /\ n \in Nat \ {0} /\ n = 2 * half
  BY RetryAssumption
<1>2. Duration = -half .. half - 1 /\ MinDuration = -half /\ half \in Nat
  BY RetryAssumption DEF Duration, MinDuration
<1>3. ASSUME NEW x \in Int
      PROVE  Wrap(x) = ((x + half) % n) - half
  <2>1. x + MaxDuration + 1 = x + half
    BY RetryAssumption
  <2> DEFINE rest == (x + half) % n
  <2>2. rest \in Int
    BY <1>1
  <2>3. Wrap(x) = rest + MinDuration
    BY <2>1 DEF Wrap
  <2> HIDE DEF rest, half
  <2>4. rest + MinDuration = rest - half
    BY <1>2, <2>2
  <2> QED
    BY <2>3, <2>4 DEF rest
<1> HIDE DEF half, n
<1>4. ASSUME NEW x \in Duration
      PROVE  Wrap(x) = x
  <2>1. x + half \in 0 .. n - 1
    BY <1>1, <1>2
  <2>2. (x + half) % n = x + half
    BY <1>1, <2>1
  <2>3. x \in Int /\ (x + half) - half = x
    BY <1>1, <1>2
  <2> QED
    BY <1>3, <2>2, <2>3
<1>5. ASSUME NEW x \in Int, NEW b \in Int, Wrap(x) + b \in Duration
      PROVE  Wrap(x + b) = Wrap(x) + b
  <2> DEFINE a == x + half
  <2>1. a \in Int /\ a % n \in Int /\ (x + b) + half = a + b
    BY <1>1
  <2>2. Wrap(x) = (a % n) - half /\ Wrap(x + b) = ((a + b) % n) - half
    BY <1>3, <2>1
  <2> HIDE DEF a
  <2>3. (a % n) + b \in 0 .. n - 1
    BY <1>1, <1>2, <1>5, <2>1, <2>2
  <2>4. (a + b) % n = (a % n) + b
    BY <1>1, <2>1, <2>3, ModShift
  <2> QED
    BY <1>1, <2>1, <2>2, <2>4
<1> QED
  BY <1>4, <1>5

\* The cap, or the limit of the type where there is none.
CeilingOf(p) == IF p.maxDelay > 0 THEN p.maxDelay ELSE MaxDuration

\* A pause of a positive base is the lesser of its product and its ceiling.
LEMMA PauseIsLeast ==
  ASSUME NEW p \in Policy, p.base > 0, NEW n \in Nat
  PROVE  /\ p.base \in Duration /\ CeilingOf(p) \in 1 .. MaxDuration
         /\ RawDelay(p, n) \in Int
         /\ backoffFor(p, n) = Least(RawDelay(p, n), CeilingOf(p))
<1>1. p.base \in Duration /\ p.maxDelay \in Duration /\ RawDelay(p, n) \in Duration
  BY RawType DEF Policy
<1>2. CeilingOf(p) \in 1 .. MaxDuration
  BY <1>1, RetryAssumption DEF CeilingOf, Duration, MinDuration
<1>3. RawDelay(p, n) \in Int /\ RawDelay(p, n) <= MaxDuration
  BY <1>1, RetryAssumption DEF Duration, MinDuration
<1>4. ~(p.base <= 0)
  BY <1>1, RetryAssumption DEF Duration, MinDuration
<1>5. p.base \in Int /\ p.maxDelay \in Int
  BY <1>1, RetryAssumption DEF Duration, MinDuration
<1>6. backoffFor(p, n) = Least(RawDelay(p, n), CeilingOf(p))
  <2>1. CASE p.maxDelay > 0
    BY <1>4, <1>5, <2>1 DEF backoffFor, CeilingOf
  <2>2. CASE ~(p.maxDelay > 0)
    <3>1. backoffFor(p, n) = RawDelay(p, n) /\ CeilingOf(p) = MaxDuration
      BY <1>4, <1>5, <2>2 DEF backoffFor, CeilingOf
    <3> QED
      BY <1>3, <3>1 DEF Least
  <2> QED
    BY <2>1, <2>2
<1> QED
  BY <1>1, <1>2, <1>3, <1>6

\* The first pause is the base.
LEMMA FirstPause ==
  ASSUME NEW p \in Policy, p.base > 0
  PROVE  backoffFor(p, 1) = Least(p.base, CeilingOf(p))
<1>1. p.base \in Duration /\ p.base \in Int
  BY PauseIsLeast, RetryAssumption DEF Duration, MinDuration
<1>2. RawDelay(p, 1) = p.base
  <2>1. CASE p.backoff = "linear"
    <3>1. 1 * p.base = p.base
      BY <1>1
    <3> QED
      BY <1>1, <2>1, <3>1, WrapAdds DEF RawDelay
  <2>2. CASE p.backoff # "linear"
    <3>1. Multiplier(1) = 1
      <4>1. Least(1 - 1, 30) = 0 /\ ~(1 < 1)
        BY DEF Least
      <4>2. 2 ^ 0 = 1
        OBVIOUS
      <4> QED
        BY <4>1, <4>2 DEF Multiplier
    <3>2. p.base * 1 = p.base
      BY <1>1
    <3> QED
      BY <1>1, <2>2, <3>1, <3>2 DEF RawDelay, FloatToDuration
  <2> QED
    BY <2>1, <2>2
<1> QED
  BY <1>2, PauseIsLeast

\* A pause below the ceiling is followed by twice that pause, or one base more,
\* where that is a duration and the exponent is not clamped.
LEMMA NextPause ==
  ASSUME NEW p \in Policy, p.base > 0, NEW n \in Nat, n > 1,
         NEW d, d = backoffFor(p, n - 1), d \in 0 .. CeilingOf(p) - 1,
         NEW exact, exact = (IF p.backoff = "exp" THEN 2 * d ELSE d + p.base),
         exact \in Duration, ~(p.backoff = "exp" /\ n > 31)
  PROVE  backoffFor(p, n) = Least(exact, CeilingOf(p))
<1> DEFINE m == n - 1
<1>1. m \in Nat /\ m >= 1 /\ n = m + 1
  OBVIOUS
<1>2. /\ p.base \in Int /\ CeilingOf(p) \in 1 .. MaxDuration /\ RawDelay(p, m) \in Int
      /\ d = Least(RawDelay(p, m), CeilingOf(p))
      /\ backoffFor(p, n) = Least(RawDelay(p, n), CeilingOf(p))
  BY <1>1, PauseIsLeast, RetryAssumption DEF Duration, MinDuration
<1> HIDE DEF m
<1>3. RawDelay(p, m) = d /\ d \in Int
  BY <1>2, RetryAssumption DEF Least
<1>4. RawDelay(p, n) = exact
  <2>1. CASE p.backoff = "linear"
    <3> DEFINE b == p.base
           x == m * p.base
    <3>1. \A i \in Int, j \in Int : (i + 1) * j = i * j + j /\ i * j \in Int
      OBVIOUS
    <3>2. x \in Int /\ n * p.base = x + p.base
      <4>1. b \in Int /\ m \in Int
        BY <1>1, <1>2
      <4> HIDE DEF b
      <4>2. (m + 1) * b = m * b + b /\ m * b \in Int
        BY <3>1, <4>1
      <4> QED
        BY <1>1, <4>2 DEF b
    <3> HIDE DEF x
    <3>3. Wrap(x) = d
      BY <1>3, <2>1 DEF RawDelay, x
    <3>4. Wrap(x) + p.base \in Duration /\ exact = d + p.base
      BY <2>1, <3>3
    <3>5. Wrap(x + p.base) = d + p.base
      BY <1>2, <3>2, <3>3, <3>4, WrapAdds
    <3> QED
      BY <2>1, <3>2, <3>4, <3>5 DEF RawDelay
  <2>2. CASE p.backoff # "linear"
    <3>1. p.backoff = "exp"
      BY <2>2 DEF Policy
    <3>2. m \in 1 .. 30
      BY <1>1, <3>1
    <3> DEFINE k == m - 1
    <3>3. k \in 0 .. 29 /\ k + 1 = m
      BY <3>2
    <3> DEFINE f == 2 ^ k
    <3>4. Multiplier(m) = f /\ Multiplier(n) = 2 * f /\ f \in Nat
      <4>1. Least(m - 1, 30) = k /\ ~(m < 1)
        BY <3>2, <3>3 DEF Least
      <4>2. Least(n - 1, 30) = k + 1 /\ ~(n < 1)
        BY <1>1, <3>2, <3>3 DEF Least
      <4>3. 2 ^ (k + 1) = 2 * 2 ^ k /\ 2 ^ k \in Nat
        BY <3>3, Doubling
      <4> QED
        BY <4>1, <4>2, <4>3 DEF Multiplier
    <3> HIDE DEF f, k
    <3> DEFINE x == p.base * f
    <3>5. x \in Int /\ p.base * (2 * f) = 2 * x
      BY <1>2, <3>4
    <3>6. RawDelay(p, m) = FloatToDuration(x) /\ RawDelay(p, n) = FloatToDuration(2 * x)
      BY <2>2, <3>4, <3>5 DEF RawDelay
    <3> HIDE DEF x
    <3>7. x = d
      <4>1. d # OutOfRange
        BY <1>2, RetryAssumption DEF MinDuration
      <4> QED
        BY <1>3, <3>6, <4>1 DEF FloatToDuration
    <3> QED
      BY <3>1, <3>6, <3>7 DEF FloatToDuration
  <2> QED
    BY <2>1, <2>2
<1> QED
  BY <1>2, <1>4

\* The pause of a chain is the one that followed its last failure.
PauseIsLast == attempt > 1 => delay = backoffFor(policy, attempt - 1)

LEMMA PauseIsLastStep ==
  ASSUME ChainInv, PauseIsLast, [Next]_vars
  PROVE  PauseIsLast'
<1>1. CASE UNCHANGED vars
  BY <1>1 DEF vars, PauseIsLast, policy
<1>2. ASSUME NEW class \in FailureClass, AttemptFails(class)
      PROVE  PauseIsLast'
  <2>1. policy' = policy /\ attempt \in Nat
    BY <1>2, PolicyType DEF AttemptFails, ChainInv, policy, Policy, MaxAttemptsLimit
  <2>2. CASE ShouldRetry(policy, attempt, class)
    <3>1. attempt' = attempt + 1 /\ delay' = backoffFor(policy, attempt)
      BY <1>2, <2>2 DEF AttemptFails, Decide
    <3>2. attempt' - 1 = attempt
      BY <2>1, <3>1
    <3> QED
      BY <2>1, <3>1, <3>2 DEF PauseIsLast
  <2>3. CASE ~ShouldRetry(policy, attempt, class)
    <3>1. attempt' = attempt /\ delay' = delay
      BY <1>2, <2>3 DEF AttemptFails, Decide
    <3> QED
      BY <2>1, <3>1 DEF PauseIsLast
  <2> QED
    BY <2>2, <2>3
<1> QED
  BY <1>1, <1>2 DEF Next

\* Every pause is the base, or follows from the one before it by doubling or by one
\* base more, up to the cap: for every config, every size of a duration and whatever
\* was wrapped around before (backoffFor).
THEOREM GrowthCorrect == Spec => PausesGrow
<1> DEFINE ceiling == IF policy.maxDelay > 0 THEN policy.maxDelay ELSE MaxDuration
           exact == IF attempt = 1 THEN policy.base
                    ELSE IF policy.backoff = "exp" THEN 2 * delay ELSE delay + policy.base
           clamped == policy.backoff = "exp" /\ attempt > 31
           Grows == attempt' > attempt /\ policy.base > 0 /\ delay \in 0 .. ceiling - 1
                    /\ exact \in Duration /\ ~clamped
                      => delay' = Least(exact, ceiling)
<1>1. Init => ChainInv /\ PauseIsLast
  BY ChainInit DEF Init, PauseIsLast
<1>2. ChainInv /\ PauseIsLast /\ [Next]_vars => [Grows]_vars
  <2> SUFFICES ASSUME ChainInv, PauseIsLast, NEW class \in FailureClass, AttemptFails(class),
                      attempt' > attempt, policy.base > 0,
                      delay \in 0 .. CeilingOf(policy) - 1,
                      exact \in Duration, ~(policy.backoff = "exp" /\ attempt > 31)
               PROVE  delay' = Least(exact, CeilingOf(policy))
    BY DEF Next, CeilingOf
  <2>1. policy \in Policy /\ attempt \in Nat \ {0}
    BY PolicyType DEF ChainInv, policy, Policy, MaxAttemptsLimit
  <2>2. delay' = backoffFor(policy, attempt)
    BY <2>1 DEF AttemptFails, Decide
  <2>3. CASE attempt = 1
    BY <2>1, <2>2, <2>3, FirstPause
  <2>4. CASE attempt # 1
    <3>1. attempt > 1 /\ delay = backoffFor(policy, attempt - 1)
      BY <2>1, <2>4 DEF PauseIsLast
    <3>2. exact = IF policy.backoff = "exp" THEN 2 * delay ELSE delay + policy.base
      BY <2>4
    <3> HIDE DEF exact
    <3> QED
      BY <2>1, <2>2, <3>1, <3>2, NextPause
  <2> QED
    BY <2>3, <2>4
<1>3. ChainInv /\ PauseIsLast /\ [Next]_vars => (ChainInv /\ PauseIsLast)'
  BY ChainStep, PauseIsLastStep
<1>4. Spec => [][Grows]_vars
  BY <1>1, <1>2, <1>3, PTL DEF Spec
<1> QED
  BY <1>4 DEF PausesGrow
=============================================================================
