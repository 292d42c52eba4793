-------------------------- MODULE ExecutionResults -------------------------
(***************************************************************************)
(* The results an execution can have, as <<state, error class>>, when all  *)
(* that is known of it is whether it was cancelled and whether its spider  *)
(* met a captcha (internal/runner/executor.go, classifyOutcome).           *)
(***************************************************************************)

\* How a spider left alone may end.
EveryEnding == {<<"SUCCEEDED", "">>, <<"FAILED", "exit">>, <<"FAILED", "deps">>,
                <<"TIMEOUT", "timeout">>}

\* Cancellation comes first, then the deadline, then a captcha, then the exit status.
\* "deps" stands for the failures before the spider's process runs: a cancellation that
\* arrives then is reported as one of them.
ResultsOf(cancelled, captcha, ending) ==
  CASE cancelled /\ ~captcha  -> {<<"CANCELLED", "">>, <<"FAILED", "deps">>}
    [] cancelled /\ captcha   -> {<<"CANCELLED", "">>}
    [] ~cancelled /\ captcha  -> {<<"CAPTCHA", "captcha">>, <<"TIMEOUT", "timeout">>}
    [] OTHER -> ending
=============================================================================
