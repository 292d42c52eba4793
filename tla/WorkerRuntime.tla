--------------------------- MODULE WorkerRuntime ---------------------------
(***************************************************************************)
(* The worker process (internal/runner/worker.go): its current stream, its *)
(* outbox (which outlives the stream), the executions it has started, the  *)
(* map from a task to the cancel function of an execution, and its own     *)
(* slot counter. What an execution may report is internal/runner/          *)
(* executor.go's: Run, pumpEvents and classifyOutcome.                     *)
(*                                                                         *)
(* Rules taken from the code:                                              *)
(*   - startTask checks neither the free slots nor whether the task is     *)
(*     already running; a second execution of a task takes over its entry  *)
(*     in the running map, and the first one to end deletes it;            *)
(*   - the context of an execution is a child of the stream's: losing the  *)
(*     stream cancels every execution of it, and their final reports wait  *)
(*     in the outbox for the next stream;                                  *)
(*   - the final report is queued before the slot is given back.           *)
(***************************************************************************)
EXTENDS Deployment, ExecutionResults

CONSTANTS
  Worker,        \* worker processes
  ExecId,        \* names for the executions alive at once: a bound
  Ending         \* how spiders left alone may end: a bound on EveryEnding

ASSUME WorkerAssumption ==
  /\ ExecId \subseteq Nat \ {0}
  /\ Ending \subseteq EveryEnding

VARIABLES
  link,     \* the session of the worker's current stream
  wout,     \* Worker.outbox, while there is no stream to drain it
  execs,    \* executions whose goroutine has not returned
  handle,   \* Worker.running: task -> id of the execution it can cancel, or 0
  wfree     \* Worker.freeSlots

workerVars == <<link, wout, execs, handle, wfree>>

\* phase: "run", then "done" once the final report is in the outbox;
\* cancelled: its context has been cancelled; captcha: a captcha event was seen.
Exec == [id : ExecId, worker : Worker, task : Task, phase : {"run", "done"},
         cancelled : BOOLEAN, captcha : BOOLEAN]

ExecsOf(w) == {e \in execs : e.worker = w}

WorkerInit ==
  /\ link = [w \in Worker |-> NoSession]
  /\ wout = [w \in Worker |-> <<>>]
  /\ execs = {}
  /\ handle = [w \in Worker |-> [t \in Task |-> 0]]
  /\ wfree = [w \in Worker |-> Concurrency]

\* sendUpdate and the other sends to Worker.outbox. While a stream is up, pumpOutbox
\* passes them on at once: they are part of that stream's frames (WorkerHub).
Send(w, ms) ==
  wout' = IF link[w] = NoSession THEN [wout EXCEPT ![w] = @ \o ms] ELSE wout

Replace(e, f) == execs' = (execs \ {e}) \cup {f}

-----------------------------------------------------------------------------
(* The stream.                                                             *)

\* connectOnce up to the Welcome of session s: the outbox can drain again.
Join(w, s) ==
  /\ link[w] = NoSession
  /\ link' = [link EXCEPT ![w] = s]
  /\ wout' = [wout EXCEPT ![w] = <<>>]
  /\ UNCHANGED <<execs, handle, wfree>>

\* The streams of the workers in W end, with the messages left[w] still in the
\* outbox; the context of every execution on them is cancelled.
LoseStreams(W, left) ==
  /\ link' = [w \in Worker |-> IF w \in W THEN NoSession ELSE link[w]]
  /\ wout' = [w \in Worker |-> IF w \in W THEN left[w] ELSE wout[w]]
  /\ execs' = {IF e.worker \in W THEN [e EXCEPT !.cancelled = TRUE] ELSE e : e \in execs}
  /\ UNCHANGED <<handle, wfree>>

\* The worker process dies and is started again: nothing of it is persistent.
WorkerCrash(w) ==
  /\ link' = [link EXCEPT ![w] = NoSession]
  /\ wout' = [wout EXCEPT ![w] = <<>>]
  /\ execs' = execs \ ExecsOf(w)
  /\ handle' = [handle EXCEPT ![w] = [t \in Task |-> 0]]
  /\ wfree' = [wfree EXCEPT ![w] = Concurrency]

\* heartbeatLoop's tick, which runs only while a stream is up.
Beat(w) ==
  /\ link[w] # NoSession
  /\ UNCHANGED workerVars

BeatOf(w) == [kind |-> "beat", free |-> wfree[w]]

-----------------------------------------------------------------------------
(* Executions.                                                             *)

StartOf(t) == Update(t, "RUNNING", "")
CaptchaOf(t) == Update(t, "CAPTCHA", "captcha")
FinalOf(t, o) == Update(t, o[1], o[2])

\* Mutant: an execution that replaces another one takes no slot of its own.
StartTaskSharesSlot(w, t) ==
  /\ \E i \in ExecId :
       /\ \A e \in execs : e.id # i
       /\ \A j \in ExecId : j < i => \E e \in execs : e.id = j
       /\ execs' = execs \cup {[id |-> i, worker |-> w, task |-> t, phase |-> "run",
                                cancelled |-> FALSE, captcha |-> FALSE]}
       /\ handle' = [handle EXCEPT ![w][t] = i]
  /\ wfree' = IF handle[w][t] = 0 THEN [wfree EXCEPT ![w] = @ - 1] ELSE wfree
  /\ Send(w, <<StartOf(t)>>)
  /\ UNCHANGED link

\* startTask: a slot is taken (the counter may go negative), the running map is
\* overwritten, the start is reported and the execution's goroutine starts. The
\* ACCEPTED and the RUNNING frame, sent back to back and mapped to one status,
\* are one frame here.
StartTask(w, t) ==
  /\ \E i \in ExecId :
       /\ \A e \in execs : e.id # i
       /\ \A j \in ExecId : j < i => \E e \in execs : e.id = j
       /\ execs' = execs \cup {[id |-> i, worker |-> w, task |-> t, phase |-> "run",
                                cancelled |-> FALSE, captcha |-> FALSE]}
       /\ handle' = [handle EXCEPT ![w][t] = i]
  /\ wfree' = [wfree EXCEPT ![w] = @ - 1]
  /\ Send(w, <<StartOf(t)>>)
  /\ UNCHANGED link

\* cancelTask: the context of the execution in the running map, if any.
CancelTask(w, t) ==
  /\ execs' = {IF e.worker = w /\ e.id = handle[w][t]
               THEN [e EXCEPT !.cancelled = TRUE] ELSE e : e \in execs}
  /\ UNCHANGED <<link, wout, handle, wfree>>

\* A captcha event on FD 3, the first or a later one: each is reported at once, while the
\* spider goes on.
ReportCaptcha(e) ==
  /\ e \in execs
  /\ e.phase = "run"
  /\ Replace(e, [e EXCEPT !.captcha = TRUE])
  /\ Send(e.worker, <<CaptchaOf(e.task)>>)
  /\ UNCHANGED <<link, handle, wfree>>

\* The results TaskExecutor.Run can return for an execution.
Outcomes(e) == ResultsOf(e.cancelled, e.captcha, Ending)

\* The executor returns and the final update is queued.
Finish(e, o) ==
  /\ e \in execs
  /\ e.phase = "run"
  /\ o \in Outcomes(e)
  /\ Replace(e, [e EXCEPT !.phase = "done"])
  /\ Send(e.worker, <<FinalOf(e.task, o)>>)
  /\ UNCHANGED <<link, handle, wfree>>

\* Mutant: the entry of the running map stays.
CleanUpKeepsHandle(e) ==
  /\ e \in execs
  /\ e.phase = "done"
  /\ execs' = execs \ {e}
  /\ wfree' = [wfree EXCEPT ![e.worker] = @ + 1]
  /\ UNCHANGED <<link, wout, handle>>

\* The deferred clean-up of the execution's goroutine.
CleanUp(e) ==
  /\ e \in execs
  /\ e.phase = "done"
  /\ execs' = execs \ {e}
  /\ handle' = [handle EXCEPT ![e.worker][e.task] = 0]
  /\ wfree' = [wfree EXCEPT ![e.worker] = @ + 1]
  /\ UNCHANGED <<link, wout>>

-----------------------------------------------------------------------------
(* The workers on their own, whatever the master sends and the streams do. *)

WorkerNext ==
  \/ \E w \in Worker : \/ \E s \in Session : Join(w, s)
                      \/ WorkerCrash(w) \/ Beat(w)
                      \/ \E t \in Task : StartTask(w, t) \/ CancelTask(w, t)
  \/ \E W \in SUBSET Worker : \E left \in [W -> Seq(WorkerMsg)] : LoseStreams(W, left)
  \/ \E e \in execs : \/ ReportCaptcha(e) \/ CleanUp(e)
                      \/ \E o \in Outcomes(e) : Finish(e, o)

WorkerSpec == WorkerInit /\ [][WorkerNext]_workerVars

WorkerTypeOK ==
  /\ link \in [Worker -> Session \cup {NoSession}]
  /\ wout \in [Worker -> Seq(WorkerMsg)]
  /\ execs \subseteq Exec
  /\ handle \in [Worker -> [Task -> ExecId \cup {0}]]
  /\ wfree \in [Worker -> Int]

\* The worker's own counter is exact: the concurrency less the executions whose
\* goroutine has not returned, however tasks were duplicated, cancelled or cut off.
WorkerSlotsExact ==
  \A w \in Worker : wfree[w] = Concurrency - Cardinality(ExecsOf(w))

\* An entry of the running map can always be acted on: it names a live execution
\* of that task on that worker.
HandleIsLive ==
  \A w \in Worker, t \in Task : handle[w][t] # 0 =>
    \E e \in execs : e.id = handle[w][t] /\ e.worker = w /\ e.task = t
=============================================================================
