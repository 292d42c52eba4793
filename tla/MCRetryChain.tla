---------------------------- MODULE MCRetryChain ---------------------------
(* Values for the constants of RetryChain. A duration counts units of 30 s:  *)
(* an int64 of nanoseconds holds 307445734 of them.                             *)
EXTENDS RetryChain

Block(n, backoffs, bases, caps, classes) ==
  [maxAttempts : n, backoff : backoffs, base : bases, maxDelay : caps, retryOn : classes]

\* Any mix of sound, missing and malformed fields, on short chains.
ShortChains ==
  Block({Absent, 0, 1, 2, 7}, {"exponential", "linear", "other"}, {Absent, -1, 0, 1, 5},
        {Absent, -1, 0, 17}, {Absent, {}, {"timeout", "captcha"}})

\* The longest chains, where a product leaves the range of a duration.
LongChains ==
  Block({40, 100, 101}, {"exp", "linear"}, {Absent, 1}, {Absent, 0}, {{"timeout"}})

\* A linear pause that wraps around.
WrappingChains ==
  Block({100}, {"linear"}, {10000000}, {Absent, 0}, {{"exit"}})

MCConfig == ShortChains \cup LongChains \cup WrappingChains

MCFailureClass == {"", "exit", "deps", "timeout", "captcha"}

Int64Max == 307445734

Amd64OutOfRange == -307445735
=============================================================================
