----------------------------- MODULE WorkerProcess --------------------------
(***************************************************************************)
(* A worker's process: its loops and its executions, which share the       *)
(* outbox and the context of the stream an execution was started under.    *)
(***************************************************************************)
EXTENDS WorkerStream, SpiderProcess

ASSUME ProcessTasks == Run = Task

vars == <<streamVars, processVars>>

Init == StreamInit /\ ProcessInit

\* The loop of the stream does a step that the executions do not see.
StreamStep ==
  /\ \/ Connect \/ RunReturns \/ PumpJoined \/ BeatJoined
     \/ PumpTakes \/ PumpStops \/ SendSucceeds \/ SendFails
     \/ BeatTicks \/ BeatPuts \/ BeatStops \/ StreamBreaks
  /\ UNCHANGED processVars

Assign(t) == at[t] = "none" /\ RecvAssign(t) /\ UNCHANGED processVars

Accept(t) == PutAccepted(t) /\ UNCHANGED processVars

\* RUNNING is put, and the goroutine starts.
StartRun(t) == PutRunning(t) /\ Begin(t, ctx = "done")

RecvCancel(t) ==
  /\ Receives
  /\ Active(t) /\ ~cancelled[t]
  /\ Cancel({t})
  /\ UNCHANGED <<streamVars, at, expired, child, forked, pipe, emitted, frames, events,
                 captcha, outcome>>

\* The context of a stream ends, and with it that of every execution started under it.
Ends(A) ==
  /\ A
  /\ Cancel(Run)
  /\ UNCHANGED <<at, expired, child, forked, pipe, emitted, frames, events, captcha, outcome>>

RunStep(t) == Internal(t) /\ UNCHANGED streamVars

PutFrame(t) ==
  /\ Puts
  /\ FramePut(t)
  /\ UNCHANGED <<loop, pump, beat, stream, ctx, stopping, breaks, left, lost>>

Report(t) ==
  /\ at[t] = "report" /\ Puts
  /\ Reported(t)
  /\ UNCHANGED <<loop, pump, beat, stream, ctx, stopping, breaks, left, lost>>

TaskStep(t) ==
  Assign(t) \/ Accept(t) \/ StartRun(t) \/ RecvCancel(t) \/ RunStep(t) \/ PutFrame(t) \/ Report(t)

\* When Run has returned the process ends, and its goroutines with it.
Next ==
  /\ loop.pc # "returned"
  /\ StreamStep \/ Ends(RecvFails) \/ Ends(Stop) \/ \E t \in Task : TaskStep(t)

Spec == Init /\ [][Next]_vars

-----------------------------------------------------------------------------
(* Every goroutine that can go on does, a Send returns, the tick comes, a  *)
(* deadline passes and a killed process dies. Those who wait for room get  *)
(* their turn: a channel serves them in the order they came; and a select  *)
(* that always finds two cases ready does not always take the same one.    *)
(* Nothing makes a spider or what it forked end by itself, a preparation   *)
(* come to its end, or the master send, cancel, break or stop anything. A  *)
(* worker that connects is assumed to be answered in the end (Connect      *)
(* includes the master's Welcome).                                         *)

Own(A) == A /\ UNCHANGED processVars

LoopStep == Own(Connect \/ RunReturns \/ PumpJoined \/ BeatJoined) \/ Ends(RecvFails)

LoopPuts == \E t \in Task : Accept(t) \/ StartRun(t)

Fairness ==
  /\ WF_vars(LoopStep) /\ SF_vars(LoopPuts)
  /\ WF_vars(Own(PumpTakes \/ SendSucceeds \/ SendFails)) /\ SF_vars(Own(PumpStops))
  /\ WF_vars(Own(BeatTicks \/ BeatStops)) /\ SF_vars(Own(BeatPuts))
  /\ \A t \in Task :
       /\ WF_vars((ReadEvent(t) \/ EndOfEvents(t)) /\ UNCHANGED streamVars)
       /\ WF_vars((Waited(t) \/ Drained(t)) /\ UNCHANGED streamVars)
       /\ SF_vars(PutFrame(t) \/ Report(t))
       /\ WF_vars((Expire(t) \/ Killed(t)) /\ UNCHANGED streamVars)

FairSpec == Spec /\ Fairness

TypeOK == StreamTypeOK /\ ProcessTypeOK

\* While Run has not decided, the execution runs; what is in the pipe, or was read from it and
\* is not in the outbox, is still to be said, unless the reading has broken off.
Running(t) == at[t] \in {"prepare", "wait", "drain"}

Phase ==
  [t \in Run |-> IF Running(t) THEN "run" ELSE IF at[t] = "report" THEN "ended" ELSE at[t]]

CutShort == [t \in Run |-> Running(t) /\ cancelled[t]]

Unheard == [t \in Run |-> Running(t) /\ events[t] = "cut"]

CaptchaMet ==
  [t \in Run |-> Running(t) /\ IF Unheard[t] THEN captcha[t] ELSE Emits(t, "captcha")]

Owing == [t \in Run |-> frames[t] > 0 \/ (pipe[t] # <<>> /\ events[t] # "cut")]

Promise == INSTANCE ExecutionPromise WITH
  phase <- Phase, cancelled <- CutShort, captcha <- CaptchaMet, owing <- Owing,
  unheard <- Unheard, result <- outcome

\* An execution with its process, its pipe and its deadline is one as TaskControl takes it to
\* be: its result fits what was cancelled and what the spider met, however late that was read,
\* and everything emitted was put before there is a result, up to where the reading of the
\* events has broken off (Run, pumpEvents, classifyOutcome).
ExecutionKept == Promise!Spec

\* A worker whose stream has broken connects again, or returns when it is told to stop, unless
\* it is stuck: nobody makes room in a full outbox while the heartbeat loop, which is waited
\* for, or the receive loop itself waits for room (connectOnce joins both loops first). That
\* the master welcomes a worker that keeps trying is the fairness of Connect.
ReconnectsUnlessStuck ==
  stream = "broken" \/ loop.pc \in {"joinPump", "joinBeat", "connecting"}
    ~> (stream = "up" /\ loop.pc = "recv") \/ loop.pc = "returned" \/ Stuck

\* A spider that does not end is ended at its deadline and reported, unless the worker is
\* stuck or has returned, or something the spider has forked holds the pipe of its events for
\* good: Run waits for the end of the pipe before it kills the group. However long a forked
\* process outlives the deadline, the report comes once it has let go.
DeadlineEnds ==
  \A t \in Task :
    \/ <>[](forked[t] = "holder")
    \/ at[t] \in {"wait", "drain", "report"}
         ~> at[t] = "over" \/ Stuck \/ loop.pc = "returned"

\* Run "returns when ctx is cancelled" (worker.go).
ReturnsWhenCancelled == stopping ~> loop.pc = "returned"
=============================================================================
