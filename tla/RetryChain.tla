----------------------------- MODULE RetryChain ----------------------------
(***************************************************************************)
(* The attempts one queued run of a spider can lead to: each failed        *)
(* attempt is put to the retry policy of the spider's config, as           *)
(* maybeScheduleRetry does (internal/task/service.go), and a yes makes one *)
(* more attempt after the delay the policy gives. The spider's config does *)
(* not change on the way. What interleaves with this is in TaskControl.    *)
(***************************************************************************)
EXTENDS RetryPolicy

CONSTANTS Config,       \* what authors put in a spider's "retry" block
          FailureClass  \* error classes a failed attempt can carry

\* A field is Absent when it is missing or not of the type the parser asks for.
ASSUME ConfigAssumption ==
  Config \subseteq [maxAttempts : {Absent} \cup Int, backoff : STRING,
                    base : {Absent} \cup Int, maxDelay : {Absent} \cup Int,
                    retryOn : {Absent} \cup SUBSET STRING]

VARIABLES config, attempt, delay, over

vars == <<config, attempt, delay, over>>

policy == PolicyFromSpiderConfig(config)

Init ==
  /\ config \in Config
  /\ attempt = 1
  /\ delay = 0
  /\ over = FALSE

\* The current attempt failed; delay is the pause before the next one.
AttemptFails(class) ==
  /\ ~over
  /\ LET d == Decide(policy, attempt, class) IN
       IF d.retry
       THEN attempt' = attempt + 1 /\ delay' = d.delay /\ UNCHANGED over
       ELSE over' = TRUE /\ UNCHANGED <<attempt, delay>>
  /\ UNCHANGED config

Next == \E class \in FailureClass : AttemptFails(class)

Spec == Init /\ [][Next]_vars

-----------------------------------------------------------------------------
TypeOK ==
  /\ config \in Config
  /\ attempt \in 1 .. MaxAttemptsLimit
  /\ delay \in Duration
  /\ over \in BOOLEAN

\* retry.go, header: max_attempts counts the first attempt too, and 1 is what a
\* missing or malformed value means; so no config makes more attempts than it
\* asks for, and none more than the hundred the parser allows.
AttemptsWithinConfig ==
  attempt <= (IF config.maxAttempts \in 1 .. MaxAttemptsLimit THEN config.maxAttempts ELSE 1)

\* retry.go, header: max_delay_s is a cap. Whatever the product does (it may wrap
\* or leave the range), the pause of a config with a positive cap is never above it.
PauseCapped == policy.maxDelay > 0 => delay <= policy.maxDelay

\* The pause "base * 2^(N-1), capped" starts at the base and doubles until it meets
\* the cap, for as long as the product is a duration and the exponent is not
\* clamped; the linear pause grows by the base instead (backoffFor).
PausesGrow ==
  [][ LET ceiling == IF policy.maxDelay > 0 THEN policy.maxDelay ELSE MaxDuration
          exact == IF attempt = 1 THEN policy.base
                   ELSE IF policy.backoff = "exp" THEN 2 * delay ELSE delay + policy.base
          clamped == policy.backoff = "exp" /\ attempt > 31
      IN attempt' > attempt /\ policy.base > 0 /\ delay \in 0 .. ceiling - 1
         /\ exact \in Duration /\ ~clamped
           => delay' = Least(exact, ceiling) ]_vars
=============================================================================
