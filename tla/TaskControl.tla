---------------------------- MODULE TaskControl ----------------------------
(***************************************************************************)
(* The life of tasks, from the row to the process and back: the task       *)
(* service, the hub and the workers, joined by the streams between them.   *)
(* Each action below is one step of one goroutine of the program, from one *)
(* point where another goroutine can come between to the next; it is put   *)
(* together from the actions of the components it calls into.              *)
(*                                                                         *)
(* Faults, each within a bound: a stream breaks, a worker process dies,    *)
(* the master process dies, a statement of the database fails (and may     *)
(* have been carried out all the same). The worker notices a broken stream *)
(* first; the master may go on reading what had arrived on it and finds    *)
(* the session closed at any later moment, and until then it keeps         *)
(* assigning to it. Statements made with the context of a broken stream    *)
(* fail without a further fault.                                           *)
(***************************************************************************)
EXTENDS WorkerHub, WorkerRuntime, TaskService
LOCAL INSTANCE FiniteSetsExt

CONSTANTS
  MaxRoots,     \* calls to Queue: a bound
  MaxCancels,   \* calls to Cancel: a bound
  MaxFaults,    \* faults: a bound
  MaxTries,     \* tries of all rows together: a bound
  MaxCaptchas,  \* early captcha reports of a task waiting to be handled: a bound
  WithBeats,    \* heartbeats are sent
  WithDelete    \* the spider may be deleted

VARIABLES
  cancels, faults,  \* how many there have been
  tries,   \* history: how often a row was handed to the hub or failed in buildAssign
  kept     \* history: the tasks whose release the hub has skipped since they were last
           \* handed to it, the statement of their final report having failed

budgetVars == <<cancels, faults, tries, kept>>

vars == <<hubVars, workerVars, serviceVars, budgetVars>>

Init == /\ HubInit /\ WorkerInit /\ ServiceInit 
        /\ cancels = 0 /\ faults = 0
        /\ tries = [t \in Task |-> 0] /\ kept = {}

Linked(s) == \E w \in Worker : link[w] = s

Fault == faults < MaxFaults /\ faults' = faults + 1

Tried(t) ==
  /\ MapThenSumSet(LAMBDA u : tries[u], Task) < MaxTries
  /\ tries' = [tries EXCEPT ![t] = @ + 1]

-----------------------------------------------------------------------------
(* Users, time and the spider.                                             *)

QueueTask(t) ==
  /\ Cardinality({u \in Task : status[u] # "none" /\ parent[u] = 0}) < MaxRoots
  /\ Queue(t)
  /\ UNCHANGED <<hubVars, workerVars, budgetVars>>

TimePasses(t) == BecomeReady(t) /\ UNCHANGED <<hubVars, workerVars, budgetVars>>

SpiderDeleted ==
  /\ WithDelete
  /\ DeleteSpider
  /\ UNCHANGED <<hubVars, workerVars, budgetVars>>

-----------------------------------------------------------------------------
(* The dispatch loop.                                                      *)

Scan == ListQueued /\ UNCHANGED <<hubVars, workerVars, budgetVars>>

Dispatch(t, s) ==
  /\ Dispatched(t)
  /\ Assign(t, s) \/ AssignOverHeartbeat(t, s)
  /\ Tried(t)
  /\ kept' = kept \ {t}
  /\ UNCHANGED <<workerVars, cancels, faults>>

\* Assign meets a session whose outbox is full while that session's read loop
\* changes the slot counter; it then goes on to the other sessions.
PassOver(s) ==
  /\ spiderUp
  /\ scan # {}
  /\ UndoOverHeartbeat(s) \/ UndoOverRelease(s)
  /\ UNCHANGED <<workerVars, serviceVars, budgetVars>>

DispatchRefused ==
  /\ Assignable = {}
  /\ Refused
  /\ UNCHANGED <<hubVars, workerVars, budgetVars>>

\* The spider is gone, for buildAssign and for the retry decision.
DispatchFails(t) ==
  /\ ~spiderUp
  /\ BuildAssignFails(t, TRUE, {})
  /\ Tried(t)
  /\ UNCHANGED <<hubVars, workerVars, cancels, faults, kept>>

\* The database fails buildAssign, and perhaps the statements that come after it.
DispatchErrs(t) ==
  /\ Fault
  /\ \E marked \in BOOLEAN, C \in {{}, RetryRow(t, "build_assign")} :
       BuildAssignFails(t, marked, C)
  /\ Tried(t)
  /\ UNCHANGED <<hubVars, workerVars, cancels, kept>>

-----------------------------------------------------------------------------
(* The Cancel call.                                                        *)

CancelBegins(t) ==
  /\ cancels < MaxCancels
  /\ CancelRow(t)
  /\ cancels' = cancels + 1
  /\ UNCHANGED <<hubVars, workerVars, faults, tries, kept>>

\* SetStatus returns an error, for one because the client has gone, and has been carried
\* out all the same: the call ends and no worker is told. (Not carried out, nothing happens.)
CancelErrs(t) ==
  /\ cancels < MaxCancels
  /\ status[t] # "none"
  /\ PersistUpdate(t, "cancelled")
  /\ cancels' = cancels + 1
  /\ UNCHANGED <<hubVars, workerVars, faults, tries, kept>>

CancelLooksUp ==
  /\ CancelLookedUp(SessionOf(canceller.task))
  /\ UNCHANGED <<hubVars, workerVars, budgetVars>>

CancelSends ==
  /\ CancelDone
  /\ PushCancel(canceller.session, canceller.task)
  /\ UNCHANGED <<workerVars, budgetVars>>

\* The other half of CancelRunning's send: the session was unregistered after the lookup,
\* the send on its closed outbox panics, and the HTTP server's recovery ends the call.
CancelPanics ==
  /\ CancelDone
  /\ session[canceller.session] # "open"
  /\ UNCHANGED <<hubVars, workerVars, budgetVars>>

-----------------------------------------------------------------------------
(* The read loop of a session.                                             *)

ReadHeartbeat(s) == Heartbeat(s) /\ UNCHANGED <<workerVars, serviceVars, budgetVars>>

ReadUpdate(s) ==
  /\ UpdatePersisted(s)
  /\ PersistUpdate(Head(inbox[s]).task, MapState(Head(inbox[s]).state))
  /\ UNCHANGED <<workerVars, budgetVars>>

\* A statement made for session s may fail: with the context of a broken stream by
\* itself, on a live one as a fault of the database.
StatementFails(s) == IF Linked(s) THEN Fault ELSE UNCHANGED faults

\* SetStatus returns an error, carried out or not. Nothing is released, also when the
\* update was the task's last one.
ReadUpdateFails(s) ==
  /\ StatementFails(s)
  /\ UpdateFailed(s)
  /\ LET m == Head(inbox[s]) IN
       /\ PersistUpdate(m.task, MapState(m.state)) \/ UNCHANGED serviceVars
       /\ kept' = IF m.state \in TerminalState THEN kept \cup {m.task} ELSE kept
  /\ UNCHANGED <<workerVars, cancels, tries>>

DecideRetry(s) ==
  /\ RetryDecided(s)
  /\ ScheduleRetry(Head(inbox[s]).task, Head(inbox[s]).class)
  /\ UNCHANGED <<workerVars, budgetVars>>

\* The lookups or the insert of maybeScheduleRetry return an error.
DecideRetryFails(s) ==
  /\ StatementFails(s)
  /\ RetryDecided(s)
  /\ ScheduleRetryFails(Head(inbox[s]).task, Head(inbox[s]).class)
  /\ UNCHANGED <<workerVars, cancels, tries, kept>>

GiveSlotBack(s) == ReleaseSlot(s) /\ UNCHANGED <<workerVars, serviceVars, budgetVars>>

ForgetOwner(s) == ForgetTask(s) /\ UNCHANGED <<workerVars, serviceVars, budgetVars>>

-----------------------------------------------------------------------------
(* Workers and streams.                                                    *)

\* The frames ms that worker w sends, on the stream it has, if any.
OnStream(w, ms) ==
  IF link[w] = NoSession THEN UNCHANGED hubVars ELSE Transfer(link[w], FALSE, ms)

\* The hub registers the session, and what the worker still had to say follows.
Connect(w, s) ==
  /\ Join(w, s)
  /\ Register(s, wout[w])
  /\ UNCHANGED <<serviceVars, budgetVars>>

\* Mutant: the start of a task is not reported.
ReceiveAssignSilently(w, t) ==
  /\ link[w] # NoSession
  /\ outbox[link[w]] # <<>>
  /\ Head(outbox[link[w]]) = [kind |-> "assign", task |-> t]
  /\ Transfer(link[w], TRUE, <<>>)
  /\ StartTask(w, t)
  /\ UNCHANGED <<serviceVars, budgetVars>>

\* handleMaster
ReceiveAssign(w, t) ==
  /\ link[w] # NoSession
  /\ outbox[link[w]] # <<>>
  /\ Head(outbox[link[w]]) = [kind |-> "assign", task |-> t]
  /\ Transfer(link[w], TRUE, <<StartOf(t)>>)
  /\ StartTask(w, t)
  /\ UNCHANGED <<serviceVars, budgetVars>>

ReceiveCancel(w, t) ==
  /\ link[w] # NoSession
  /\ outbox[link[w]] # <<>>
  /\ Head(outbox[link[w]]) = [kind |-> "cancel", task |-> t]
  /\ Transfer(link[w], TRUE, <<>>)
  /\ CancelTask(w, t)
  /\ UNCHANGED <<serviceVars, budgetVars>>

\* A bound: at most one heartbeat is on its way.
WorkerBeats(w) ==
  /\ WithBeats
  /\ Beat(w)
  /\ \A i \in DOMAIN inbox[link[w]] : inbox[link[w]][i].kind # "beat"
  /\ OnStream(w, <<BeatOf(w)>>)
  /\ UNCHANGED <<serviceVars, budgetVars>>

\* What worker w has to say and the master has not handled.
Unhandled(w) == IF link[w] = NoSession THEN wout[w] ELSE inbox[link[w]]

CaptchaSeen(e) ==
  /\ Cardinality({i \in DOMAIN Unhandled(e.worker) :
                    Unhandled(e.worker)[i] = CaptchaOf(e.task)}) < MaxCaptchas
  /\ ReportCaptcha(e)
  /\ OnStream(e.worker, <<CaptchaOf(e.task)>>)
  /\ UNCHANGED <<serviceVars, budgetVars>>

ExecEnds(e, o) ==
  /\ Finish(e, o)
  /\ OnStream(e.worker, <<FinalOf(e.task, o)>>)
  /\ UNCHANGED <<serviceVars, budgetVars>>

ExecCleansUp(e) == CleanUp(e) /\ UNCHANGED <<hubVars, serviceVars, budgetVars>>

-----------------------------------------------------------------------------
(* Faults.                                                                 *)

Breaks == Fault /\ UNCHANGED <<cancels, tries, kept>>

\* Mutant: the pump puts the frame it was sending back, although it has arrived.
LeftAfterResends(w, n, lost) ==
  SubSeq(inbox[link[w]], IF n > 0 /\ lost = 0 THEN n ELSE n + lost + 1, Len(inbox[link[w]]))

\* The frames still in the worker's outbox when n have left it: all the others,
\* but for the one, if any, the pump had taken out when its send failed (lost = 1).
LeftAfter(w, n, lost) == SubSeq(inbox[link[w]], n + lost + 1, Len(inbox[link[w]]))

StreamBreaks(w) ==
  /\ Breaks
  /\ link[w] # NoSession
  /\ \E n \in 0 .. Len(inbox[link[w]]), lost \in {0, 1} :
       /\ n + lost <= Len(inbox[link[w]])
       /\ CutAfter(link[w], n)
       /\ LoseStreams({w}, [v \in {w} |-> LeftAfter(v, n, lost)])
  /\ UNCHANGED serviceVars

\* The process of a worker dies, with what had not left its outbox.
WorkerDies(w) ==
  /\ Breaks
  /\ WorkerCrash(w)
  /\ IF link[w] = NoSession THEN UNCHANGED hubVars
     ELSE \E n \in 0 .. Len(inbox[link[w]]) : CutAfter(link[w], n)
  /\ UNCHANGED serviceVars

\* The read loop of a broken session meets the error and Connect returns. Frames
\* it had not read are lost, and so is what was left in the outbox.
SessionEnds(s) ==
  /\ ~Linked(s)
  /\ Unregister(s)
  /\ UNCHANGED <<workerVars, serviceVars, budgetVars>>

MasterDies ==
  /\ Breaks
  /\ HubCrash
  /\ ServiceCrash
  /\ LET W == {w \in Worker : link[w] # NoSession}
         Sent(w) == BeingHandled(link[w]) .. Len(inbox[link[w]])
     IN \E n \in [W -> UNION {Sent(w) : w \in W}], lost \in [W -> {0, 1}] :
          /\ \A w \in W : n[w] \in Sent(w) /\ n[w] + lost[w] <= Len(inbox[link[w]])
          /\ LoseStreams(W, [w \in W |-> LeftAfter(w, n[w], lost[w])])

-----------------------------------------------------------------------------
Next ==
  \/ \E t \in Task : \/ QueueTask(t) \/ TimePasses(t) \/ CancelBegins(t)
                     \/ CancelErrs(t) \/ DispatchFails(t) \/ DispatchErrs(t)
                     \/ \E s \in Session : Dispatch(t, s)
  \/ SpiderDeleted \/ Scan \/ DispatchRefused
  \/ CancelLooksUp \/ CancelSends \/ CancelPanics
  \/ \E s \in Session : \/ PassOver(s) \/ ReadHeartbeat(s)
                        \/ ReadUpdate(s) \/ ReadUpdateFails(s)
                        \/ DecideRetry(s) \/ DecideRetryFails(s)
                        \/ GiveSlotBack(s) \/ ForgetOwner(s) \/ SessionEnds(s)
  \/ \E w \in Worker : \/ \E s \in Session : Connect(w, s)
                       \/ \E t \in Task : ReceiveAssign(w, t) \/ ReceiveCancel(w, t)
                       \/ WorkerBeats(w) \/ StreamBreaks(w) \/ WorkerDies(w)
  \/ \E e \in execs : \/ CaptchaSeen(e) \/ ExecCleansUp(e)
                      \/ \E o \in Outcomes(e) : ExecEnds(e, o)
  \/ MasterDies

Spec == Init /\ [][Next]_vars

\* What goes on by itself: the dispatch loop has its tick, every goroutine and
\* stream that has something to do does it, time passes, and a worker whose stream
\* is gone connects again, which takes a master that answers. Nothing obliges users
\* to act, faults to happen or an execution to end: a preparation has no deadline,
\* and what a spider has forked can hold Run up beyond its own.
Fairness ==
  /\ WF_vars(Scan)
  /\ WF_vars(\E t \in Task : DispatchFails(t) \/ \E s \in Session : Dispatch(t, s))
  /\ WF_vars(DispatchRefused)
  /\ WF_vars(CancelLooksUp) /\ WF_vars(CancelSends \/ CancelPanics)
  /\ \A t \in Task : WF_vars(TimePasses(t))
  /\ \A s \in Session :
       /\ WF_vars(ReadHeartbeat(s) \/ ReadUpdate(s) \/ DecideRetry(s)
                  \/ GiveSlotBack(s) \/ ForgetOwner(s))
       /\ WF_vars(SessionEnds(s))
  /\ \A w \in Worker :
       /\ WF_vars(\E s \in Session : Connect(w, s))
       /\ WF_vars(\E t \in Task : ReceiveAssign(w, t) \/ ReceiveCancel(w, t))
       /\ WF_vars(WorkerBeats(w))
  /\ WF_vars(\E e \in execs : ExecCleansUp(e))

FairSpec == Spec /\ Fairness

-----------------------------------------------------------------------------
TypeOK ==
  /\ HubTypeOK
  /\ WorkerTypeOK
  /\ ServiceTypeOK
  /\ cancels \in Nat
  /\ faults \in Nat
  /\ tries \in [Task -> Nat]
  /\ kept \subseteq Task

\* An update of task t that passes Test is in the queue q.
Carries(q, t, Test(_)) ==
  \E i \in DOMAIN q : q[i].kind = "update" /\ q[i].task = t /\ Test(q[i].state)

IsTerminal(st) == st \in TerminalState
IsStart(st) == st \in {"ACCEPTED", "RUNNING"}

\* An update of t that passes Test is on its way from a worker to the master.
UnderWay(t, Test(_)) ==
  \/ \E w \in Worker : Carries(wout[w], t, Test)
  \/ \E s \in Session : Carries(inbox[s], t, Test)

Executing(t) == \E e \in execs : e.task = t /\ e.phase = "run"

\* When the hub keeps an assignment nothing will release: an entry of h.tasks on
\* a session whose stream is up is backed by an assignment not yet received, by
\* an execution of that worker, or by its final report on the way, unless a
\* statement failed and the hub skipped the release since the task was last handed
\* to it (Assign, startTask, sendUpdate, releaseTask and OnUpdate's errors).
AssignmentsBacked ==
  \A t \in Task, w \in Worker :
    LET s == link[w] IN
    s # NoSession /\ owner[t] = s =>
      \/ \E i \in DOMAIN outbox[s] : outbox[s][i] = [kind |-> "assign", task |-> t]
      \/ \E e \in ExecsOf(w) : e.task = t /\ e.phase = "run"
      \/ Carries(wout[w], t, IsTerminal)
      \/ Carries(inbox[s], t, IsTerminal)
      \/ t \in kept

\* No try of a row earns more than one retry: a row has at most as many children as
\* it was handed to the hub or failed in buildAssign, however its reports are lost, cut
\* off, delivered on a later session or handled while statements fail (the decision is
\* made once for each final report, and no report is made or delivered twice).
RetriesEarned ==
  \A t \in Task : Cardinality({c \in Task : parent[c] = t}) <= tries[t]

\* As long as nothing has failed, a row that says running has work behind it: an
\* execution, or its final report on the way. (SetStatus being unconditional,
\* this rests on the order of the updates alone.)
RunningIsBacked ==
  faults = 0 => \A t \in Task : status[t] = "running" =>
                  Executing(t) \/ UnderWay(t, IsTerminal)

\* As long as nothing has failed, an execution whose row still says queued has
\* its ACCEPTED on the way: the window in which the dispatcher can hand the same
\* row out again closes by itself.
QueuedIsUnreported ==
  faults = 0 => \A t \in Task : status[t] = "queued" /\ Executing(t) =>
                  UnderWay(t, IsStart)

\* A step that looks a row up for a retry never revives a row: only inserting
\* makes a row queued, and an insert never touches the rows there are.
RowsNeverRequeued ==
  [][\A t \in Task : status'[t] = "queued" => status[t] \in {"none", "queued"}]_vars

SomethingRuns == \E e \in execs : e.phase = "run"

\* Without faults every row ends in a final status for good, whatever is cancelled,
\* meets a captcha, fails or is handed out twice - or some execution never ends.
RowsSettle ==
  \/ <>[](\A t \in Task : status[t] \in TerminalStatus \cup {"none"})
  \/ <>[]SomethingRuns

\* Without faults the hub's slot counters come back to the full concurrency once
\* nothing runs, whatever heartbeats overwrote, however often a captcha and the final
\* report released the same slot - or some execution never ends.
SlotsReturn ==
  \/ <>[](\A s \in Session : session[s] = "open" => freeSlots[s] = Concurrency)
  \/ <>[]SomethingRuns

\* Without faults a timeout with attempts left gets its child row, unless the
\* spider or the room for rows is gone (OnUpdate and maybeScheduleRetry).
TimeoutsRetried ==
  \A t \in Task :
    status[t] = "timeout" /\ attempt[t] < Policy0.maxAttempts
      ~> \/ ~spiderUp
         \/ \E c \in Task : parent[c] = t
         \/ \A c \in Task : status[c] # "none"
=============================================================================
