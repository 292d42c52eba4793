---------------------------- MODULE SpiderProcess ---------------------------
(***************************************************************************)
(* One execution of a task in a worker (internal/runner/executor.go, Run): *)
(* the spider's process, whatever it has forked, the pipe its events come  *)
(* through (FD 3), the goroutine that turns them into frames, and Run      *)
(* itself, which waits for the process, then for the goroutines, and then  *)
(* decides what is reported.                                               *)
(*                                                                         *)
(* The deadline and a cancellation kill the process, not what it has       *)
(* forked: the group is killed (killGroup, after a timeout) only when the  *)
(* reading of the pipe has ended, which is when nobody holds its writing   *)
(* end any more. So a forked process matters here while it holds the pipe. *)
(* A line that is too long, or an error, ends the reading at once, and the *)
(* rest of the events is lost without anybody noticing. The pumps of       *)
(* stdout and stderr are left out: the end of the process closes their     *)
(* pipes, and nothing waits for what was in them. So are the log lines of  *)
(* the preparation.                                                        *)
(***************************************************************************)
EXTENDS Integers, Sequences

CONSTANTS
  Run,        \* the executions, by task
  MaxEvents,  \* events a spider emits: a bound
  EventKind   \* the kinds of event emitted: some of "log", "item", "captcha"

ASSUME ProcessAssumption ==
  /\ MaxEvents \in Nat
  /\ EventKind \subseteq {"log", "item", "captcha"}

VARIABLES
  at,         \* Run: "none", "prepare", "wait" (cmd.Wait), "drain" (wg.Wait), "report", "over"
  cancelled,  \* its context is cancelled
  expired,    \* its deadline has passed
  child,      \* the process: "none", "alive", "ok" or "failed" (exited)
  forked,     \* what it has forked: "none", or a "holder" of the pipe
  pipe,       \* the events written and not read
  emitted,    \* events written so far, by kind
  frames,     \* frames pumpEvents has still to put for the event it has read
  events,     \* pumpEvents: "off", "on" or "cut" (it has ended before the events have)
  captcha,    \* captchaObs.seen
  outcome     \* the state of the result, "none" before

processVars ==
  <<at, cancelled, expired, child, forked, pipe, emitted, frames, events, captcha, outcome>>

ProcessInit ==
  /\ at = [r \in Run |-> "none"]
  /\ cancelled = [r \in Run |-> FALSE]
  /\ expired = [r \in Run |-> FALSE]
  /\ child = [r \in Run |-> "none"]
  /\ forked = [r \in Run |-> "none"]
  /\ pipe = [r \in Run |-> <<>>]
  /\ emitted = [r \in Run |-> <<>>]
  /\ frames = [r \in Run |-> 0]
  /\ events = [r \in Run |-> "off"]
  /\ captcha = [r \in Run |-> FALSE]
  /\ outcome = [r \in Run |-> "none"]

Active(r) == at[r] \notin {"none", "over"}

Cancel(R) == cancelled' = [r \in Run |-> cancelled[r] \/ (r \in R /\ Active(r))]

-----------------------------------------------------------------------------
(* Run, up to the start of the process.                                    *)

\* The goroutine of startTask begins; under a context that is done it begins cancelled.
Begin(r, done) ==
  /\ at[r] = "none"
  /\ at' = [at EXCEPT ![r] = "prepare"]
  /\ cancelled' = [cancelled EXCEPT ![r] = done]
  /\ UNCHANGED <<expired, child, forked, pipe, emitted, frames, events, captcha, outcome>>

\* The directory, the interpreter, a pipe or the process cannot be had.
PrepareFails(r) ==
  /\ at[r] = "prepare"
  /\ at' = [at EXCEPT ![r] = "report"]
  /\ outcome' = [outcome EXCEPT ![r] = "FAILED"]
  /\ UNCHANGED <<cancelled, expired, child, forked, pipe, emitted, frames, events, captcha>>

Spawn(r) ==
  /\ at[r] = "prepare" /\ ~cancelled[r]
  /\ at' = [at EXCEPT ![r] = "wait"]
  /\ child' = [child EXCEPT ![r] = "alive"]
  /\ events' = [events EXCEPT ![r] = "on"]
  /\ UNCHANGED <<cancelled, expired, forked, pipe, emitted, frames, captcha, outcome>>

-----------------------------------------------------------------------------
(* The processes.                                                          *)

Emit(r, k) ==
  /\ child[r] = "alive" /\ Len(emitted[r]) < MaxEvents
  /\ pipe' = [pipe EXCEPT ![r] = Append(@, k)]
  /\ emitted' = [emitted EXCEPT ![r] = Append(@, k)]
  /\ UNCHANGED <<at, cancelled, expired, child, forked, frames, events, captcha, outcome>>

Fork(r) ==
  /\ child[r] = "alive" /\ forked[r] = "none"
  /\ forked' = [forked EXCEPT ![r] = "holder"]
  /\ UNCHANGED <<at, cancelled, expired, child, pipe, emitted, frames, events, captcha, outcome>>

ForkedEnds(r) ==
  /\ forked[r] = "holder"
  /\ forked' = [forked EXCEPT ![r] = "none"]
  /\ UNCHANGED <<at, cancelled, expired, child, pipe, emitted, frames, events, captcha, outcome>>

ChildEnds(r, how) ==
  /\ child[r] = "alive"
  /\ child' = [child EXCEPT ![r] = how]
  /\ UNCHANGED <<at, cancelled, expired, forked, pipe, emitted, frames, events, captcha, outcome>>

\* Run's own deadline, which goes on while it waits for the goroutines.
Expire(r) ==
  /\ at[r] \in {"wait", "drain"} /\ ~expired[r]
  /\ expired' = [expired EXCEPT ![r] = TRUE]
  /\ UNCHANGED <<at, cancelled, child, forked, pipe, emitted, frames, events, captcha, outcome>>

\* Mutant: the deadline is not the context of the command.
KilledByCancel(r) == cancelled[r] /\ ChildEnds(r, "failed")

\* exec.CommandContext kills the process when the context is done.
Killed(r) == (cancelled[r] \/ expired[r]) /\ ChildEnds(r, "failed")

-----------------------------------------------------------------------------
(* pumpEvents.                                                             *)

\* A captcha is a log line and an early report.
FramesOf(k) == IF k = "captcha" THEN 2 ELSE 1

ReadEvent(r) ==
  /\ events[r] = "on" /\ frames[r] = 0 /\ pipe[r] # <<>>
  /\ frames' = [frames EXCEPT ![r] = FramesOf(Head(pipe[r]))]
  /\ captcha' = [captcha EXCEPT ![r] = @ \/ Head(pipe[r]) = "captcha"]
  /\ pipe' = [pipe EXCEPT ![r] = Tail(@)]
  /\ UNCHANGED <<at, cancelled, expired, child, forked, emitted, events, outcome>>

\* The next of its frames has gone into the outbox.
FramePut(r) ==
  /\ frames[r] > 0
  /\ frames' = [frames EXCEPT ![r] = @ - 1]
  /\ UNCHANGED <<at, cancelled, expired, child, forked, pipe, emitted, events, captcha, outcome>>

EndOfEvents(r) ==
  /\ events[r] = "on" /\ frames[r] = 0 /\ pipe[r] = <<>>
  /\ child[r] # "alive" /\ forked[r] # "holder"
  /\ events' = [events EXCEPT ![r] = "off"]
  /\ UNCHANGED <<at, cancelled, expired, child, forked, pipe, emitted, frames, captcha, outcome>>

\* The scanner meets a line above 4 MiB or an error of the pipe. The spider goes on.
EventsCutOff(r) ==
  /\ events[r] = "on" /\ frames[r] = 0
  /\ events' = [events EXCEPT ![r] = "cut"]
  /\ UNCHANGED <<at, cancelled, expired, child, forked, pipe, emitted, frames, captcha, outcome>>

-----------------------------------------------------------------------------
(* Run, from the end of the process.                                       *)

Waited(r) ==
  /\ at[r] = "wait" /\ child[r] \in {"ok", "failed"}
  /\ at' = [at EXCEPT ![r] = "drain"]
  /\ UNCHANGED <<cancelled, expired, child, forked, pipe, emitted, frames, events, captcha, outcome>>

classifyOutcome(r) ==
  CASE cancelled[r] -> "CANCELLED"
    [] ~cancelled[r] /\ expired[r] -> "TIMEOUT"
    [] ~cancelled[r] /\ ~expired[r] /\ captcha[r] -> "CAPTCHA"
    [] OTHER -> IF child[r] = "ok" THEN "SUCCEEDED" ELSE "FAILED"

\* Mutant: the result is decided when the process has ended, before the goroutines have.
DrainedEarly(r) ==
  /\ at[r] = "drain"
  /\ at' = [at EXCEPT ![r] = "report"]
  /\ outcome' = [outcome EXCEPT ![r] = classifyOutcome(r)]
  /\ UNCHANGED <<cancelled, expired, child, forked, pipe, emitted, frames, events, captcha>>

Drained(r) ==
  /\ at[r] = "drain" /\ events[r] # "on"
  /\ at' = [at EXCEPT ![r] = "report"]
  /\ outcome' = [outcome EXCEPT ![r] = classifyOutcome(r)]
  /\ UNCHANGED <<cancelled, expired, child, forked, pipe, emitted, frames, events, captcha>>

\* The final report has gone into the outbox, and what Run kept of the execution is gone.
Reported(r) ==
  /\ at[r] = "report"
  /\ at' = [at EXCEPT ![r] = "over"]
  /\ cancelled' = [cancelled EXCEPT ![r] = FALSE]
  /\ expired' = [expired EXCEPT ![r] = FALSE]
  /\ child' = [child EXCEPT ![r] = "none"]
  /\ forked' = [forked EXCEPT ![r] = "none"]
  /\ pipe' = [pipe EXCEPT ![r] = <<>>]
  /\ emitted' = [emitted EXCEPT ![r] = <<>>]
  /\ events' = [events EXCEPT ![r] = "off"]
  /\ captcha' = [captcha EXCEPT ![r] = FALSE]
  /\ outcome' = [outcome EXCEPT ![r] = "none"]
  /\ UNCHANGED frames

-----------------------------------------------------------------------------
Internal(r) ==
  \/ PrepareFails(r) \/ Spawn(r)
  \/ \E k \in EventKind : Emit(r, k)
  \/ Fork(r) \/ ForkedEnds(r) \/ Expire(r) \/ Killed(r)
  \/ \E how \in {"ok", "failed"} : ChildEnds(r, how)
  \/ ReadEvent(r) \/ EndOfEvents(r) \/ EventsCutOff(r) \/ Waited(r) \/ Drained(r)

ProcessTypeOK ==
  /\ at \in [Run -> {"none", "prepare", "wait", "drain", "report", "over"}]
  /\ cancelled \in [Run -> BOOLEAN] /\ expired \in [Run -> BOOLEAN]
  /\ child \in [Run -> {"none", "alive", "ok", "failed"}]
  /\ forked \in [Run -> {"none", "holder"}]
  /\ pipe \in [Run -> Seq(EventKind)] /\ emitted \in [Run -> Seq(EventKind)]
  /\ frames \in [Run -> 0 .. 2]
  /\ events \in [Run -> {"off", "on", "cut"}]
  /\ captcha \in [Run -> BOOLEAN]
  /\ outcome \in [Run -> {"none", "FAILED", "CANCELLED", "TIMEOUT", "CAPTCHA", "SUCCEEDED"}]

Emits(r, k) == \E i \in DOMAIN emitted[r] : emitted[r][i] = k

\* What is reported at the end takes in what the spider has emitted, in whatever order its
\* exit and the reading of its events come. A captcha that was read never ends as succeeded
\* or as failed (classifyOutcome: "must still land as captcha_blocked, not failed"), and one
\* that was emitted does only when the reading has broken off before it; and nothing that was
\* read is left to put when the result is reported (Run: cmd.Wait, then wg.Wait).
OutcomeIsWhole ==
  \A r \in Run :
    /\ outcome[r] \in {"SUCCEEDED", "FAILED"} =>
         ~captcha[r] /\ (Emits(r, "captcha") => events[r] = "cut")
    /\ at[r] \in {"report", "over"} =>
         frames[r] = 0 /\ (events[r] = "cut" \/ (events[r] = "off" /\ pipe[r] = <<>>))
=============================================================================
