-------------------------- MODULE ExecutionPromise -------------------------
(***************************************************************************)
(* An execution as the rest of the system takes it to be (WorkerRuntime):  *)
(* it runs, may be cancelled, its spider may meet a captcha, and it has    *)
(* one result, which fits both; all it had to say before was said by then. *)
(* Once at most, what it says may go unheard from some point on, and then  *)
(* the result may miss the captcha too. There is no process, no pipe and   *)
(* no deadline here.                                                       *)
(***************************************************************************)
EXTENDS ExecutionResults

CONSTANT Run

VARIABLES
  phase,      \* "none", "run", "ended" (it has a result) or "over" (reported)
  cancelled,  \* it was cancelled while it ran
  captcha,    \* its spider has met a captcha while it ran
  owing,      \* something the spider has emitted is not in the outbox yet
  unheard,    \* what the spider emits is lost by now
  result      \* the state of its result, "none" before and after

vars == <<phase, cancelled, captcha, owing, unheard, result>>

Init ==
  /\ phase = [r \in Run |-> "none"]
  /\ cancelled = [r \in Run |-> FALSE]
  /\ captcha = [r \in Run |-> FALSE]
  /\ owing = [r \in Run |-> FALSE]
  /\ unheard = [r \in Run |-> FALSE]
  /\ result = [r \in Run |-> "none"]

Begin(r) ==
  /\ phase[r] = "none"
  /\ phase' = [phase EXCEPT ![r] = "run"]
  /\ \E c \in BOOLEAN : cancelled' = [cancelled EXCEPT ![r] = c]
  /\ UNCHANGED <<captcha, owing, unheard, result>>

\* A cancellation of one task, or the end of the stream some executions belong to.
Cancelled(R) ==
  /\ cancelled' = [r \in Run |-> cancelled[r] \/ (r \in R /\ phase[r] = "run")]
  /\ UNCHANGED <<phase, captcha, owing, unheard, result>>

Emitted(r) ==
  /\ phase[r] = "run" /\ ~unheard[r]
  /\ owing' = [owing EXCEPT ![r] = TRUE]
  /\ \E c \in {captcha[r], TRUE} : captcha' = [captcha EXCEPT ![r] = c]
  /\ UNCHANGED <<phase, cancelled, unheard, result>>

\* The last frame of what was emitted so far is in the outbox.
Settled(r) ==
  /\ phase[r] = "run" /\ owing[r]
  /\ owing' = [owing EXCEPT ![r] = FALSE]
  /\ UNCHANGED <<phase, cancelled, captcha, unheard, result>>

\* What was emitted and not taken in yet is lost, and so is all that is still to come.
BrokenOff(r) ==
  /\ phase[r] = "run" /\ ~unheard[r]
  /\ unheard' = [unheard EXCEPT ![r] = TRUE]
  /\ owing' = [owing EXCEPT ![r] = FALSE]
  /\ \E c \in {captcha[r], FALSE} : captcha' = [captcha EXCEPT ![r] = c]
  /\ UNCHANGED <<phase, cancelled, result>>

\* The result is that of all the spider has emitted and was heard, all of it put before.
Ended(r) ==
  /\ phase[r] = "run" /\ ~owing[r]
  /\ phase' = [phase EXCEPT ![r] = "ended"]
  /\ \E o \in ResultsOf(cancelled[r], captcha[r], EveryEnding) :
       result' = [result EXCEPT ![r] = o[1]]
  /\ cancelled' = [cancelled EXCEPT ![r] = FALSE]
  /\ captcha' = [captcha EXCEPT ![r] = FALSE]
  /\ unheard' = [unheard EXCEPT ![r] = FALSE]
  /\ UNCHANGED owing

Reported(r) ==
  /\ phase[r] = "ended"
  /\ phase' = [phase EXCEPT ![r] = "over"]
  /\ result' = [result EXCEPT ![r] = "none"]
  /\ UNCHANGED <<cancelled, captcha, owing, unheard>>

Next ==
  \/ \E r \in Run : \/ Begin(r) \/ Emitted(r) \/ Settled(r) \/ BrokenOff(r)
                  \/ Ended(r) \/ Reported(r)
  \/ \E R \in SUBSET Run : Cancelled(R)

Spec == Init /\ [][Next]_vars
=============================================================================
