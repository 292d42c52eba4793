--------------------------- MODULE MCTaskControl ---------------------------
(* Values for the constants of TaskControl. Durations do not matter to it: a *)
(* delay is over at any later moment.                                        *)
EXTENDS TaskControl, TLC

PolicyOf(n, classes) ==
  [maxAttempts |-> n, backoff |-> "exp", base |-> 1, maxDelay |-> 60, retryOn |-> classes]

\* Sessions are used once each and told apart by nothing else.
SessionSymmetry == Permutations(Session)

Successes == {<<"SUCCEEDED", "">>}

TwoEndings == {<<"SUCCEEDED", "">>, <<"TIMEOUT", "timeout">>}

MCPolicy == PolicyOf(2, {"timeout", "exit", "build_assign"})
=============================================================================
