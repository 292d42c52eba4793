------------------------- MODULE TaskControl_proofs ------------------------
(***************************************************************************)
(* Proofs about the whole system, for any number of tasks, sessions,       *)
(* workers and faults. The argument: every step of the system is, seen     *)
(* from each component, a step of that component or a stutter, given       *)
(* frames and tasks that name existing rows only; so what the components   *)
(* keep true on their own they keep true together.                         *)
(***************************************************************************)
EXTENDS TaskControl, Component_proofs

\* Rows there are, and frames that name such rows only.
Known == {t \in Task : status[t] # "none"}

KnownFrame == {m \in WorkerMsg : m.kind = "update" => m.task \in Known}

KnownPush == [kind : {"assign", "cancel"}, task : Known]

\* Everything that travels between master and workers is about a row there is.
NamesKnown ==
  /\ inbox \in [Session -> Seq(KnownFrame)]
  /\ outbox \in [Session -> Seq(KnownPush)]
  /\ wout \in [Worker -> Seq(KnownFrame)]
  /\ \A e \in execs : e.task \in Known

SystemInv ==
  /\ HubTypeOK /\ HubSafe
  /\ WorkerInv
  /\ ServiceInv
  /\ NamesKnown

BudgetTypeOK == /\ cancels \in Nat /\ faults \in Nat
                /\ tries \in [Task -> Nat] /\ kept \subseteq Task

-----------------------------------------------------------------------------
LEMMA SystemInit == Init => SystemInv /\ BudgetTypeOK
<1> SUFFICES ASSUME Init PROVE SystemInv /\ BudgetTypeOK
  OBVIOUS
<1>1. HubTypeOK /\ HubSafe
  BY HubTypeInit, HubSafeInit DEF Init
<1>2. WorkerInv
  BY WorkerInit_Inv DEF Init
<1>3. ServiceInv
  BY ServiceInit_Inv DEF Init
<1>4. NamesKnown
  BY EmptySeq DEF Init, HubInit, WorkerInit, NamesKnown
<1>5. BudgetTypeOK
  BY DEF Init, BudgetTypeOK
<1> QED
  BY <1>1, <1>2, <1>3, <1>4, <1>5 DEF SystemInv

-----------------------------------------------------------------------------
(* What the components see of a step.                                      *)

\* The stream of a worker is a session's, and its frames are known ones.
LEMMA LinkFacts ==
  ASSUME SystemInv, NEW w \in Worker, link[w] # NoSession
  PROVE  /\ link[w] \in Session
         /\ inbox[link[w]] \in Seq(KnownFrame)
         /\ outbox[link[w]] \in Seq(KnownPush)
BY DEF SystemInv, WorkerInv, WorkerTypeOK, NamesKnown

\* The reports of an execution are frames about a known row.
LEMMA ExecReports ==
  ASSUME SystemInv, NEW e \in execs
  PROVE  /\ e.worker \in Worker
         /\ CaptchaOf(e.task) \in KnownFrame
         /\ \A o \in Outcomes(e) : FinalOf(e.task, o) \in KnownFrame
<1>1. e \in Exec /\ e.task \in Known
  BY DEF SystemInv, WorkerInv, WorkerTypeOK, NamesKnown
<1>2. e.worker \in Worker
  BY <1>1 DEF Exec
<1>3. CaptchaOf(e.task) \in WorkerMsg /\ \A o \in Outcomes(e) : FinalOf(e.task, o) \in WorkerMsg
  BY <1>1, ReportType
<1> QED
  BY <1>1, <1>2, <1>3 DEF KnownFrame, CaptchaOf, FinalOf, Update

LEMMA StartReport ==
  ASSUME NEW t \in Known
  PROVE  StartOf(t) \in KnownFrame
BY DEF Known, KnownFrame, StartOf, Update, WorkerMsg, UpdateMsg, TaskState, ErrorClass

\* The task of the update a read loop is handling.
LEMMA UpdateFacts ==
  ASSUME SystemInv, NEW s \in Session, inbox[s] # <<>>, Head(inbox[s]).kind = "update"
  PROVE  /\ Head(inbox[s]).task \in Known
         /\ Head(inbox[s]).task \in Task
         /\ Head(inbox[s]).state \in TaskState
         /\ Head(inbox[s]).class \in ErrorClass
<1>1. Head(inbox[s]) \in KnownFrame
  BY FrameQueues DEF SystemInv, NamesKnown
<1> QED
  BY <1>1, FrameFields DEF KnownFrame

\* Sending on a worker's stream is a transfer of the hub's, or nothing.
LEMMA OnStreamView ==
  ASSUME SystemInv, NEW w \in Worker, NEW m \in KnownFrame, OnStream(w, <<m>>)
  PROVE  [HubStep(KnownFrame, Known)]_hubVars
<1>1. CASE link[w] = NoSession
  BY <1>1 DEF OnStream
<1>2. CASE link[w] # NoSession
  <2>1. Transfer(link[w], FALSE, <<m>>) /\ link[w] \in Session
    BY <1>2, LinkFacts DEF OnStream
  <2>2. <<m>> \in Seq(KnownFrame) /\ FALSE \in BOOLEAN
    OBVIOUS
  <2> QED
    BY <2>1, <2>2 DEF HubStep
<1> QED
  BY <1>1, <1>2

\* Seen from the hub, every step is one of its own.
LEMMA HubView ==
  ASSUME SystemInv, Next
  PROVE  [HubStep(KnownFrame, Known)]_hubVars
<1> DEFINE View == [HubStep(KnownFrame, Known)]_hubVars
<1>1. ASSUME NEW t \in Task, \/ QueueTask(t) \/ TimePasses(t) \/ CancelBegins(t) \/ CancelErrs(t)
                           \/ DispatchFails(t) \/ DispatchErrs(t)
      PROVE  View
  BY <1>1 DEF QueueTask, TimePasses, CancelBegins, CancelErrs, DispatchFails, DispatchErrs
<1>2. ASSUME NEW t \in Task, NEW s \in Session, Dispatch(t, s)
      PROVE  View
  <2>1. t \in Known
    BY <1>2 DEF Dispatch, Dispatched, AtRow, SystemInv, ServiceInv, ScanKnown, Known
  <2> QED
    BY <1>2, <2>1 DEF Dispatch, HubStep
<1>3. CASE SpiderDeleted \/ Scan \/ DispatchRefused \/ CancelLooksUp \/ CancelPanics
  BY <1>3 DEF SpiderDeleted, Scan, DispatchRefused, CancelLooksUp, CancelPanics
<1>4. CASE CancelSends
  <2>1. canceller.task \in Known /\ canceller.session \in Session
    BY <1>4 DEF CancelSends, CancelDone, SystemInv, ServiceInv, CancelKnown, Known
  <2> QED
    BY <1>4, <2>1 DEF CancelSends, HubStep
<1>5. ASSUME NEW s \in Session,
             \/ PassOver(s) \/ ReadHeartbeat(s) \/ ReadUpdate(s) \/ ReadUpdateFails(s)
             \/ DecideRetry(s) \/ DecideRetryFails(s) \/ GiveSlotBack(s) \/ ForgetOwner(s)
             \/ SessionEnds(s)
      PROVE  View
  BY <1>5 DEF PassOver, ReadHeartbeat, ReadUpdate, ReadUpdateFails, DecideRetry,
              DecideRetryFails, GiveSlotBack, ForgetOwner, SessionEnds, HubStep
<1>6. ASSUME NEW w \in Worker, NEW s \in Session, Connect(w, s)
      PROVE  View
  <2>1. wout[w] \in Seq(KnownFrame)
    BY DEF SystemInv, NamesKnown
  <2> QED
    BY <1>6, <2>1 DEF Connect, HubStep
<1>7. ASSUME NEW w \in Worker, NEW t \in Task, ReceiveAssign(w, t)
      PROVE  View
  <2>1. link[w] # NoSession /\ Transfer(link[w], TRUE, <<StartOf(t)>>)
    BY <1>7 DEF ReceiveAssign
  <2>2. link[w] \in Session /\ Head(outbox[link[w]]) \in KnownPush
    BY <1>7, <2>1, LinkFacts, FrameQueues DEF ReceiveAssign
  <2>3. t \in Known
    BY <1>7, <2>2 DEF ReceiveAssign, KnownPush
  <2>4. <<StartOf(t)>> \in Seq(KnownFrame)
    BY <2>3, StartReport
  <2> QED
    BY <2>1, <2>2, <2>4 DEF HubStep
<1>8. ASSUME NEW w \in Worker, NEW t \in Task, ReceiveCancel(w, t)
      PROVE  View
  <2>1. link[w] \in Session /\ Transfer(link[w], TRUE, <<>>)
    BY <1>8, LinkFacts DEF ReceiveCancel
  <2>2. <<>> \in Seq(KnownFrame)
    BY EmptySeq
  <2> QED
    BY <2>1, <2>2 DEF HubStep
<1>9. ASSUME NEW w \in Worker, WorkerBeats(w)
      PROVE  View
  <2>1. BeatOf(w) \in KnownFrame
    BY DEF BeatOf, KnownFrame, WorkerMsg, BeatMsg, SystemInv, WorkerInv, WorkerTypeOK
  <2> QED
    BY <1>9, <2>1, OnStreamView DEF WorkerBeats
<1>10. ASSUME NEW w \in Worker, StreamBreaks(w)
       PROVE  View
  <2>1. PICK n \in 0 .. Len(inbox[link[w]]) : CutAfter(link[w], n)
    BY <1>10 DEF StreamBreaks
  <2>2. link[w] \in Session /\ n \in Nat
    BY <1>10, <2>1, LinkFacts DEF StreamBreaks
  <2> QED
    BY <2>1, <2>2 DEF HubStep
<1>11. ASSUME NEW w \in Worker, WorkerDies(w)
       PROVE  View
  <2>1. CASE link[w] = NoSession
    BY <1>11, <2>1 DEF WorkerDies
  <2>2. CASE link[w] # NoSession
    <3>1. PICK n \in 0 .. Len(inbox[link[w]]) : CutAfter(link[w], n)
      BY <1>11, <2>2 DEF WorkerDies
    <3>2. link[w] \in Session /\ n \in Nat
      BY <2>2, <3>1, LinkFacts
    <3> QED
      BY <3>1, <3>2 DEF HubStep
  <2> QED
    BY <2>1, <2>2
<1>12. ASSUME NEW e \in execs, CaptchaSeen(e)
       PROVE  View
  BY <1>12, ExecReports, OnStreamView DEF CaptchaSeen
<1>13. ASSUME NEW e \in execs, ExecCleansUp(e)
       PROVE  View
  BY <1>13 DEF ExecCleansUp
<1>14. ASSUME NEW e \in execs, NEW o \in Outcomes(e), ExecEnds(e, o)
       PROVE  View
  BY <1>14, ExecReports, OnStreamView DEF ExecEnds
<1>15. CASE MasterDies
  BY <1>15 DEF MasterDies, HubStep
<1> QED
  BY <1>1, <1>2, <1>3, <1>4, <1>5, <1>6, <1>7, <1>8, <1>9, <1>10, <1>11, <1>12, <1>13,
     <1>14, <1>15 DEF Next

-----------------------------------------------------------------------------
(* The workers' view.                                                      *)

\* What a step must be for the workers: one of theirs, with frames and executions
\* about rows there are.
WorkerView ==
  /\ [WorkerNext]_workerVars
  /\ wout' \in [Worker -> Seq(KnownFrame)]
  /\ \A e \in execs' : e.task \in Known

\* What is left in the outbox of a worker that loses its stream.
LEMMA LeftFrames ==
  ASSUME SystemInv, NEW w \in Worker, link[w] # NoSession, NEW n \in Nat, NEW lost \in {0, 1}
  PROVE  LeftAfter(w, n, lost) \in Seq(KnownFrame)
<1> DEFINE q == inbox[link[w]]
           m == n + lost + 1
<1>1. q \in Seq(KnownFrame)
  BY LinkFacts
<1>2. Len(q) \in Nat /\ \A i \in m .. Len(q) : q[i] \in KnownFrame
  BY <1>1, LenProperties, ElementOfSeq
<1>3. SubSeq(q, m, Len(q)) \in Seq(KnownFrame)
  BY <1>2, SubSeqProperties
<1> QED
  BY <1>3 DEF LeftAfter

LEMMA QuietForWorkers ==
  ASSUME SystemInv, UNCHANGED workerVars
  PROVE  WorkerView
BY DEF SystemInv, NamesKnown, workerVars, WorkerView

\* Sending one frame about a known row.
LEMMA SendKnown ==
  ASSUME SystemInv, NEW w \in Worker, NEW m \in KnownFrame, Send(w, <<m>>)
  PROVE  wout' \in [Worker -> Seq(KnownFrame)]
<1>1. wout \in [Worker -> Seq(KnownFrame)]
  BY DEF SystemInv, NamesKnown
<1>2. wout[w] \o <<m>> \in Seq(KnownFrame)
  BY <1>1, FrameQueues
<1> QED
  BY <1>1, <1>2 DEF Send

\* Losing streams, with known frames left in the outboxes.
LEMMA LosingStreams ==
  ASSUME SystemInv, NEW W \in SUBSET Worker, NEW left \in [W -> Seq(KnownFrame)],
         LoseStreams(W, left)
  PROVE  WorkerView
<1>1. Seq(KnownFrame) \subseteq Seq(WorkerMsg)
  BY SeqMonotonic DEF KnownFrame
<1>2. left \in [W -> Seq(WorkerMsg)]
  BY <1>1
<1>3. WorkerNext
  BY <1>2 DEF WorkerNext
<1>4. wout' \in [Worker -> Seq(KnownFrame)]
  BY DEF LoseStreams, SystemInv, NamesKnown
<1>5. \A e \in execs' : e.task \in Known
  <2> SUFFICES ASSUME NEW f \in execs' PROVE f.task \in Known
    OBVIOUS
  <2>1. PICK e \in execs : f = IF e.worker \in W THEN [e EXCEPT !.cancelled = TRUE] ELSE e
    BY DEF LoseStreams
  <2>2. e \in Exec /\ e.task \in Known
    BY DEF SystemInv, WorkerInv, WorkerTypeOK, NamesKnown
  <2>3. [e EXCEPT !.cancelled = TRUE].task = e.task
    BY <2>2, CancelledIsExec
  <2> QED
    BY <2>1, <2>2, <2>3
<1> QED
  BY <1>3, <1>4, <1>5 DEF WorkerView

LEMMA Cancelling ==
  ASSUME SystemInv, NEW w \in Worker, NEW t \in Task, CancelTask(w, t)
  PROVE  WorkerView
<1>1. WorkerNext
  BY DEF WorkerNext
<1>2. wout' \in [Worker -> Seq(KnownFrame)]
  BY DEF CancelTask, SystemInv, NamesKnown
<1>3. \A f \in execs' : f.task \in Known
  <2> SUFFICES ASSUME NEW f \in execs' PROVE f.task \in Known
    OBVIOUS
  <2>1. PICK e \in execs : f = IF e.worker = w /\ e.id = handle[w][t]
                               THEN [e EXCEPT !.cancelled = TRUE] ELSE e
    BY DEF CancelTask
  <2>2. e \in Exec /\ e.task \in Known
    BY DEF SystemInv, WorkerInv, WorkerTypeOK, NamesKnown
  <2>3. [e EXCEPT !.cancelled = TRUE].task = e.task
    BY <2>2, CancelledIsExec
  <2> QED
    BY <2>1, <2>2, <2>3
<1> QED
  BY <1>1, <1>2, <1>3 DEF WorkerView

\* A report of an execution, by which it becomes f.
LEMMA Reporting ==
  ASSUME SystemInv, NEW e \in execs, NEW f, f.task = e.task, Replace(e, f),
         NEW m \in KnownFrame, Send(e.worker, <<m>>), WorkerNext
  PROVE  WorkerView
<1>1. e.worker \in Worker
  BY ExecReports
<1>2. wout' \in [Worker -> Seq(KnownFrame)]
  BY <1>1, SendKnown
<1>3. \A g \in execs' : g.task \in Known
  BY DEF Replace, SystemInv, NamesKnown
<1> QED
  BY <1>2, <1>3 DEF WorkerView

LEMMA Starting ==
  ASSUME SystemInv, NEW w \in Worker, NEW t \in Known, StartTask(w, t)
  PROVE  WorkerView
<1>1. t \in Task
  BY DEF Known
<1>2. WorkerNext
  BY <1>1 DEF WorkerNext
<1>3. wout' \in [Worker -> Seq(KnownFrame)]
  BY StartReport, SendKnown DEF StartTask
<1>4. \A g \in execs' : g.task \in Known
  BY DEF StartTask, SystemInv, NamesKnown
<1> QED
  BY <1>2, <1>3, <1>4 DEF WorkerView

\* Seen from the workers, every step is one of theirs.
LEMMA WorkersView ==
  ASSUME SystemInv, Next
  PROVE  WorkerView
<1>1. ASSUME NEW t \in Task, \/ QueueTask(t) \/ TimePasses(t) \/ CancelBegins(t) \/ CancelErrs(t)
                           \/ DispatchFails(t) \/ DispatchErrs(t)
      PROVE  WorkerView
  BY <1>1, QuietForWorkers
     DEF QueueTask, TimePasses, CancelBegins, CancelErrs, DispatchFails, DispatchErrs
<1>2. ASSUME NEW t \in Task, NEW s \in Session, Dispatch(t, s)
      PROVE  WorkerView
  BY <1>2, QuietForWorkers DEF Dispatch
<1>3. CASE SpiderDeleted \/ Scan \/ DispatchRefused \/ CancelLooksUp \/ CancelSends \/ CancelPanics
  BY <1>3, QuietForWorkers
     DEF SpiderDeleted, Scan, DispatchRefused, CancelLooksUp, CancelSends, CancelPanics
<1>4. ASSUME NEW s \in Session,
             \/ PassOver(s) \/ ReadHeartbeat(s) \/ ReadUpdate(s) \/ ReadUpdateFails(s)
             \/ DecideRetry(s) \/ DecideRetryFails(s) \/ GiveSlotBack(s) \/ ForgetOwner(s)
             \/ SessionEnds(s)
      PROVE  WorkerView
  BY <1>4, QuietForWorkers
     DEF PassOver, ReadHeartbeat, ReadUpdate, ReadUpdateFails, DecideRetry,
         DecideRetryFails, GiveSlotBack, ForgetOwner, SessionEnds
<1>5. ASSUME NEW w \in Worker, NEW s \in Session, Connect(w, s)
      PROVE  WorkerView
  <2>1. Join(w, s)
    BY <1>5 DEF Connect
  <2>2. WorkerNext
    BY <2>1 DEF WorkerNext
  <2>3. wout' \in [Worker -> Seq(KnownFrame)] /\ \A e \in execs' : e.task \in Known
    BY <2>1, EmptySeq DEF Join, SystemInv, NamesKnown
  <2> QED
    BY <2>2, <2>3 DEF WorkerView
<1>6. ASSUME NEW w \in Worker, NEW t \in Task, ReceiveAssign(w, t)
      PROVE  WorkerView
  <2>1. Head(outbox[link[w]]) \in KnownPush
    BY <1>6, LinkFacts, FrameQueues DEF ReceiveAssign
  <2>2. t \in Known /\ StartTask(w, t)
    BY <1>6, <2>1 DEF ReceiveAssign, KnownPush
  <2> QED
    BY <2>2, Starting
<1>7. ASSUME NEW w \in Worker, NEW t \in Task, ReceiveCancel(w, t)
      PROVE  WorkerView
  BY <1>7, Cancelling DEF ReceiveCancel
<1>8. ASSUME NEW w \in Worker, WorkerBeats(w)
      PROVE  WorkerView
  BY <1>8, QuietForWorkers DEF WorkerBeats, Beat
<1>9. ASSUME NEW w \in Worker, StreamBreaks(w)
      PROVE  WorkerView
  <2>1. link[w] # NoSession
    BY <1>9 DEF StreamBreaks
  <2>2. PICK n \in 0 .. Len(inbox[link[w]]), lost \in {0, 1} :
               LoseStreams({w}, [v \in {w} |-> LeftAfter(v, n, lost)])
    BY <1>9 DEF StreamBreaks
  <2>3. LeftAfter(w, n, lost) \in Seq(KnownFrame)
    BY <2>1, LeftFrames
  <2>4. [v \in {w} |-> LeftAfter(v, n, lost)] \in [{w} -> Seq(KnownFrame)]
    BY <2>3
  <2> QED
    BY <2>2, <2>4, LosingStreams
<1>10. ASSUME NEW w \in Worker, WorkerDies(w)
       PROVE  WorkerView
  <2>1. WorkerCrash(w)
    BY <1>10 DEF WorkerDies
  <2>2. WorkerNext
    BY <2>1 DEF WorkerNext
  <2>3. wout' \in [Worker -> Seq(KnownFrame)] /\ \A e \in execs' : e.task \in Known
    BY <2>1, EmptySeq DEF WorkerCrash, SystemInv, NamesKnown
  <2> QED
    BY <2>2, <2>3 DEF WorkerView
<1>11. ASSUME NEW e \in execs, CaptchaSeen(e)
       PROVE  WorkerView
  <2>1. ReportCaptcha(e) /\ CaptchaOf(e.task) \in KnownFrame
    BY <1>11, ExecReports DEF CaptchaSeen
  <2>2. WorkerNext
    BY <2>1 DEF WorkerNext
  <2>3. e \in Exec
    BY DEF SystemInv, WorkerInv, WorkerTypeOK
  <2>4. [e EXCEPT !.captcha = TRUE].task = e.task
    BY <2>3 DEF Exec
  <2> QED
    BY <2>1, <2>2, <2>4, Reporting DEF ReportCaptcha
<1>12. ASSUME NEW e \in execs, ExecCleansUp(e)
       PROVE  WorkerView
  <2>1. CleanUp(e)
    BY <1>12 DEF ExecCleansUp
  <2>2. WorkerNext
    BY <2>1 DEF WorkerNext
  <2>3. wout' \in [Worker -> Seq(KnownFrame)] /\ \A f \in execs' : f.task \in Known
    BY <2>1 DEF CleanUp, SystemInv, NamesKnown
  <2> QED
    BY <2>2, <2>3 DEF WorkerView
<1>13. ASSUME NEW e \in execs, NEW o \in Outcomes(e), ExecEnds(e, o)
       PROVE  WorkerView
  <2>1. Finish(e, o) /\ FinalOf(e.task, o) \in KnownFrame
    BY <1>13, ExecReports DEF ExecEnds
  <2>2. WorkerNext
    BY <2>1 DEF WorkerNext
  <2>3. e \in Exec
    BY DEF SystemInv, WorkerInv, WorkerTypeOK
  <2>4. [e EXCEPT !.phase = "done"].task = e.task
    BY <2>3 DEF Exec
  <2> QED
    BY <2>1, <2>2, <2>4, Reporting DEF Finish
<1>14. CASE MasterDies
  <2> DEFINE W == {w \in Worker : link[w] # NoSession}
         Sent(w) == BeingHandled(link[w]) .. Len(inbox[link[w]])
  <2>1. PICK n \in [W -> UNION {Sent(w) : w \in W}], lost \in [W -> {0, 1}] :
               /\ \A w \in W : n[w] \in Sent(w)
               /\ LoseStreams(W, [w \in W |-> LeftAfter(w, n[w], lost[w])])
    BY <1>14 DEF MasterDies
  <2>2. ASSUME NEW w \in W PROVE LeftAfter(w, n[w], lost[w]) \in Seq(KnownFrame)
    <3>1. n[w] \in Nat /\ lost[w] \in {0, 1}
      <4>1. n[w] \in BeingHandled(link[w]) .. Len(inbox[link[w]])
        BY <2>1
      <4>2. BeingHandled(link[w]) \in {0, 1}
        BY DEF BeingHandled
      <4>3. Len(inbox[link[w]]) \in Nat
        BY LinkFacts, LenProperties
      <4> QED
        BY <4>1, <4>2, <4>3
    <3> QED
      BY <3>1, LeftFrames
  <2>3. [w \in W |-> LeftAfter(w, n[w], lost[w])] \in [W -> Seq(KnownFrame)]
    BY <2>2
  <2> HIDE DEF W
  <2>4. W \in SUBSET Worker
    BY DEF W
  <2> QED
    BY <2>1, <2>3, <2>4, LosingStreams
<1> QED
  BY <1>1, <1>2, <1>3, <1>4, <1>5, <1>6, <1>7, <1>8, <1>9, <1>10, <1>11, <1>12, <1>13, <1>14
     DEF Next

-----------------------------------------------------------------------------
(* The service's view.                                                     *)

\* A reported state never stands for a queued row.
LEMMA MapStateNotQueued ==
  ASSUME NEW st \in TaskState
  PROVE  MapState(st) \in Status \ {"queued"}
BY DEF MapState, TaskState, Status

\* Seen from the task service, every step is one of its own.
LEMMA ServiceView ==
  ASSUME SystemInv, Next
  PROVE  [ServiceNext]_serviceVars
<1> DEFINE View == [ServiceNext]_serviceVars
<1>1. ASSUME NEW t \in Task, \/ QueueTask(t) \/ TimePasses(t) \/ CancelBegins(t) \/ CancelErrs(t)
                           \/ DispatchFails(t) \/ DispatchErrs(t)
      PROVE  View
  <2>1. CASE QueueTask(t) \/ TimePasses(t) \/ CancelBegins(t)
    BY <2>1 DEF QueueTask, TimePasses, CancelBegins, ServiceNext
  <2>2. CASE CancelErrs(t)
    <3>1. status[t] # "none" /\ PersistUpdate(t, "cancelled")
      BY <2>2 DEF CancelErrs
    <3>2. "cancelled" \in Status \ {"queued"}
      BY DEF Status
    <3> QED
      BY <3>1, <3>2 DEF ServiceNext
  <2>3. CASE DispatchFails(t) \/ DispatchErrs(t)
    <3>1. /\ {} \in SUBSET Task /\ RetryRow(t, "build_assign") \in SUBSET Task
          /\ TRUE \in BOOLEAN
      BY DEF RetryRow
    <3>2. PICK marked \in BOOLEAN, C \in SUBSET Task : BuildAssignFails(t, marked, C)
      BY <2>3, <3>1 DEF DispatchFails, DispatchErrs
    <3> QED
      BY <3>2 DEF ServiceNext
  <2> QED
    BY <1>1, <2>1, <2>2, <2>3
<1>2. ASSUME NEW t \in Task, NEW s \in Session, Dispatch(t, s)
      PROVE  View
  BY <1>2 DEF Dispatch, ServiceNext
<1>3. CASE SpiderDeleted \/ Scan \/ DispatchRefused \/ CancelSends \/ CancelPanics
  BY <1>3 DEF SpiderDeleted, Scan, DispatchRefused, CancelSends, CancelPanics, ServiceNext
<1>4. CASE CancelLooksUp
  <2>1. SessionOf(canceller.task) \in Session \cup {NoSession}
    BY DEF SessionOf
  <2> QED
    BY <1>4, <2>1 DEF CancelLooksUp, ServiceNext
<1>5. ASSUME NEW s \in Session,
             \/ PassOver(s) \/ ReadHeartbeat(s)
             \/ GiveSlotBack(s) \/ ForgetOwner(s) \/ SessionEnds(s)
      PROVE  View
  BY <1>5 DEF PassOver, ReadHeartbeat, GiveSlotBack, ForgetOwner, SessionEnds
<1>6. ASSUME NEW s \in Session, ReadUpdate(s) \/ ReadUpdateFails(s)
      PROVE  View
  <2>1. inbox[s] # <<>> /\ Head(inbox[s]).kind = "update"
    BY <1>6 DEF ReadUpdate, ReadUpdateFails, UpdatePersisted, UpdateFailed, Reading
  <2>2. /\ Head(inbox[s]).task \in Task
        /\ status[Head(inbox[s]).task] # "none"
        /\ MapState(Head(inbox[s]).state) \in Status \ {"queued"}
    BY <2>1, UpdateFacts, MapStateNotQueued DEF Known
  <2>3. \/ PersistUpdate(Head(inbox[s]).task, MapState(Head(inbox[s]).state))
        \/ UNCHANGED serviceVars
    BY <1>6 DEF ReadUpdate, ReadUpdateFails
  <2> QED
    BY <2>2, <2>3 DEF ServiceNext
<1>7. ASSUME NEW s \in Session, DecideRetry(s) \/ DecideRetryFails(s)
      PROVE  View
  <2>1. inbox[s] # <<>> /\ Head(inbox[s]).kind = "update"
    BY <1>7 DEF DecideRetry, DecideRetryFails, RetryDecided, SystemInv, HubSafe, MidFrameIsTerminal
  <2>2. /\ Head(inbox[s]).task \in Task
        /\ status[Head(inbox[s]).task] # "none"
        /\ Head(inbox[s]).class \in ErrorClass
    BY <2>1, UpdateFacts DEF Known
  <2> QED
    BY <1>7, <2>2 DEF DecideRetry, DecideRetryFails, ServiceNext
<1>8. ASSUME NEW w \in Worker,
             \/ \E s \in Session : Connect(w, s)
             \/ \E t \in Task : ReceiveAssign(w, t) \/ ReceiveCancel(w, t)
             \/ WorkerBeats(w) \/ StreamBreaks(w) \/ WorkerDies(w)
      PROVE  View
  BY <1>8 DEF Connect, ReceiveAssign, ReceiveCancel, WorkerBeats, StreamBreaks, WorkerDies
<1>9. ASSUME NEW e \in execs,
             \/ CaptchaSeen(e) \/ ExecCleansUp(e)
             \/ \E o \in Outcomes(e) : ExecEnds(e, o)
      PROVE  View
  BY <1>9 DEF CaptchaSeen, ExecCleansUp, ExecEnds
<1>10. CASE MasterDies
  BY <1>10 DEF MasterDies, ServiceNext
<1> QED
  BY <1>1, <1>2, <1>3, <1>4, <1>5, <1>6, <1>7, <1>8, <1>9, <1>10 DEF Next

-----------------------------------------------------------------------------
(* The composition.                                                        *)

\* A step of the hub's that is given known rows is a step of the hub's.
LEMMA HubViewIsHubStep ==
  ASSUME SystemInv, Next
  PROVE  [HubNext]_hubVars
<1>1. CASE UNCHANGED hubVars
  BY <1>1
<1>2. CASE HubStep(KnownFrame, Known)
  <2>1. Seq(KnownFrame) \subseteq Seq(WorkerMsg) /\ Known \subseteq Task
    BY SeqMonotonic DEF KnownFrame, Known
  <2>2. CASE HubCrash
    BY <2>2 DEF HubNext, HubStep
  <2>3. ASSUME NEW s \in Session, NEW ms \in Seq(KnownFrame),
               Register(s, ms) \/ \E taken \in BOOLEAN : Transfer(s, taken, ms)
        PROVE  HubNext
    <3>1. ms \in Seq(WorkerMsg)
      BY <2>1
    <3> QED
      BY <2>3, <3>1 DEF HubNext, HubStep
  <2>4. ASSUME NEW s \in Session, NEW t \in Known,
               Assign(t, s) \/ AssignOverHeartbeat(t, s) \/ PushCancel(s, t)
        PROVE  HubNext
    BY <2>1, <2>4 DEF HubNext, HubStep
  <2>5. ASSUME NEW s \in Session,
               \/ Unregister(s) \/ Heartbeat(s)
               \/ UpdatePersisted(s) \/ UpdateFailed(s) \/ RetryDecided(s)
               \/ ReleaseSlot(s) \/ ForgetTask(s)
               \/ UndoOverHeartbeat(s) \/ UndoOverRelease(s)
               \/ \E n \in Nat : CutAfter(s, n)
        PROVE  HubNext
    BY <2>5 DEF HubNext, HubStep
  <2> QED
    BY <1>2, <2>2, <2>3, <2>4, <2>5 DEF HubStep
<1> QED
  BY <1>1, <1>2, HubView

\* No row ever goes away, so what was about known rows still is.
LEMMA KnownGrows ==
  ASSUME SystemInv, Next
  PROVE  Known \subseteq Known' /\ KnownFrame \subseteq KnownFrame' /\ KnownPush \subseteq KnownPush'
<1>1. Known \subseteq Known'
  BY ServiceView, RowsStay DEF SystemInv, Known
<1> QED
  BY <1>1 DEF KnownFrame, KnownPush

LEMMA NamesKnownStep ==
  ASSUME SystemInv, Next
  PROVE  NamesKnown'
<1>1. /\ Seq(KnownFrame) \subseteq Seq(KnownFrame')
      /\ Seq(KnownPush) \subseteq Seq(KnownPush')
      /\ Known \subseteq Known'
  BY KnownGrows, SeqMonotonic
<1>2. inbox' \in [Session -> Seq(KnownFrame)] /\ outbox' \in [Session -> Seq(KnownPush)]
  BY HubView, HubQueuesStep DEF SystemInv, NamesKnown, KnownPush
<1>3. wout' \in [Worker -> Seq(KnownFrame)] /\ \A e \in execs' : e.task \in Known
  BY WorkersView DEF WorkerView
<1>4. inbox' \in [Session -> Seq(KnownFrame')] /\ outbox' \in [Session -> Seq(KnownPush')]
  BY <1>1, <1>2
<1>5. wout' \in [Worker -> Seq(KnownFrame')] /\ \A e \in execs' : e.task \in Known'
  BY <1>1, <1>3
<1> QED
  BY <1>4, <1>5 DEF NamesKnown

\* The inductive invariant of the system.
LEMMA SystemStep ==
  ASSUME SystemInv, BudgetTypeOK, [Next]_vars
  PROVE  SystemInv' /\ BudgetTypeOK'
<1>1. CASE UNCHANGED vars
  <2>1. UNCHANGED hubVars /\ UNCHANGED workerVars /\ UNCHANGED serviceVars
        /\ UNCHANGED budgetVars
    BY <1>1 DEF vars
  <2>2. HubTypeOK' /\ HubSafe'
    BY <2>1, HubTypeStep, HubSafeStep DEF SystemInv, HubSafe
  <2>3. WorkerInv' /\ ServiceInv'
    BY <2>1, WorkerStep, ServiceStep DEF SystemInv
  <2>4. NamesKnown'
    BY <2>1 DEF SystemInv, NamesKnown, Known, KnownFrame, KnownPush, hubVars, workerVars,
                serviceVars, rowVars
  <2>5. BudgetTypeOK'
    BY <2>1 DEF BudgetTypeOK, budgetVars
  <2> QED
    BY <2>2, <2>3, <2>4, <2>5 DEF SystemInv
<1>2. CASE Next
  <2>1. HubTypeOK' /\ HubSafe'
    BY <1>2, HubViewIsHubStep, HubTypeStep, HubSafeStep DEF SystemInv, HubSafe
  <2>2. WorkerInv' /\ ServiceInv'
    BY <1>2, WorkersView, WorkerStep, ServiceView, ServiceStep DEF SystemInv, WorkerView
  <2>3. NamesKnown'
    BY <1>2, NamesKnownStep
  <2>4. BudgetTypeOK'
    <3>1. ASSUME UNCHANGED budgetVars \/ Breaks PROVE BudgetTypeOK'
      BY <3>1 DEF BudgetTypeOK, budgetVars, Breaks, Fault
    <3>2. ASSUME NEW t \in Task, CancelBegins(t) \/ CancelErrs(t) PROVE BudgetTypeOK'
      BY <3>2 DEF BudgetTypeOK, CancelBegins, CancelErrs
    <3>3. ASSUME NEW t \in Task,
                 DispatchFails(t) \/ DispatchErrs(t) \/ \E s \in Session : Dispatch(t, s)
          PROVE  BudgetTypeOK'
      <4>1. tries' = [tries EXCEPT ![t] = @ + 1]
        BY <3>3 DEF DispatchFails, DispatchErrs, Dispatch, Tried
      <4>2. tries' \in [Task -> Nat]
        BY <4>1 DEF BudgetTypeOK
      <4>3. /\ cancels' = cancels
            /\ faults' \in {faults, faults + 1}
            /\ kept' \subseteq kept
        BY <3>3 DEF DispatchFails, DispatchErrs, Dispatch, Fault
      <4> QED
        BY <4>2, <4>3 DEF BudgetTypeOK
    <3>4. ASSUME NEW s \in Session, ReadUpdateFails(s) PROVE BudgetTypeOK'
      <4>1. inbox[s] # <<>> /\ Head(inbox[s]).kind = "update"
        BY <3>4 DEF ReadUpdateFails, UpdateFailed, Reading
      <4>2. Head(inbox[s]).task \in Task
        BY <4>1, UpdateFacts
      <4> QED
        BY <3>4, <4>2 DEF BudgetTypeOK, ReadUpdateFails, StatementFails, Fault
    <3>5. ASSUME NEW s \in Session, DecideRetryFails(s) PROVE BudgetTypeOK'
      BY <3>5 DEF BudgetTypeOK, DecideRetryFails, StatementFails, Fault
    <3> QED
      BY <1>2, <3>1, <3>2, <3>3, <3>4, <3>5
         DEF Next, QueueTask, TimePasses, SpiderDeleted, Scan, DispatchRefused,
             CancelLooksUp, CancelSends, CancelPanics, PassOver, ReadHeartbeat, ReadUpdate,
             DecideRetry, GiveSlotBack, ForgetOwner, SessionEnds, Connect, ReceiveAssign,
             ReceiveCancel, WorkerBeats, StreamBreaks, WorkerDies, CaptchaSeen,
             ExecCleansUp, ExecEnds, MasterDies
  <2> QED
    BY <2>1, <2>2, <2>3, <2>4 DEF SystemInv
<1> QED
  BY <1>1, <1>2

\* Hub, workers and service keep their invariants together.
THEOREM SystemCorrect == Spec => [](SystemInv /\ BudgetTypeOK)
<1>1. Init => SystemInv /\ BudgetTypeOK
  BY SystemInit
<1>2. SystemInv /\ BudgetTypeOK /\ [Next]_vars => (SystemInv /\ BudgetTypeOK)'
  BY SystemStep
<1> QED
  BY <1>1, <1>2, PTL DEF Spec

\* Every variable keeps its type (TaskControl!TypeOK).
THEOREM TypeCorrect == Spec => []TypeOK
<1>1. SystemInv /\ BudgetTypeOK => TypeOK
  BY DEF SystemInv, WorkerInv, ServiceInv, BudgetTypeOK, TypeOK
<1> QED
  BY <1>1, SystemCorrect, PTL

\* In the whole system h.tasks never names a session that has left h.sessions.
THEOREM SystemOwnerIsOpen == Spec => []OwnerIsOpen
<1>1. SystemInv => OwnerIsOpen
  BY DEF SystemInv, HubSafe
<1> QED
  BY <1>1, SystemCorrect, PTL

\* A closed outbox is never written to by Assign or by a read loop.
THEOREM SystemClosedIsQuiet == Spec => []ClosedIsQuiet
<1>1. SystemInv => ClosedIsQuiet
  BY DEF SystemInv, HubSafe
<1> QED
  BY <1>1, SystemCorrect, PTL

\* While the read loop handles a terminal update, the slot and the entry it
\* releases are those of that update's task, wherever the stream breaks.
THEOREM SystemMidFrame == Spec => []MidFrameIsTerminal
<1>1. SystemInv => MidFrameIsTerminal
  BY DEF SystemInv, HubSafe
<1> QED
  BY <1>1, SystemCorrect, PTL

\* A worker's own slot counter is exact, whatever is duplicated, cancelled or cut off.
THEOREM SystemSlotsExact == Spec => []WorkerSlotsExact
<1>1. SystemInv => WorkerSlotsExact
  BY DEF SystemInv, WorkerInv
<1> QED
  BY <1>1, SystemCorrect, PTL

\* A cancellation that finds an entry of the running map finds a live execution.
THEOREM SystemHandleIsLive == Spec => []HandleIsLive
<1>1. SystemInv => HandleIsLive
  BY DEF SystemInv, WorkerInv
<1> QED
  BY <1>1, SystemCorrect, PTL

\* However the dispatcher, the read loops and Cancel interleave, a chain of retries
\* stays within max_attempts and each child follows its parent.
THEOREM SystemChainsBounded == Spec => []ChainsBounded
<1>1. SystemInv => ChainsBounded
  BY DEF SystemInv, ServiceInv
<1> QED
  BY <1>1, SystemCorrect, PTL

\* No step of the system makes an existing row queued again.
THEOREM SystemRowsNeverRequeued == Spec => RowsNeverRequeued
<1> DEFINE A == \A t \in Task : status'[t] = "queued" => status[t] \in {"none", "queued"}
<1>1. SystemInv /\ [Next]_vars => [A]_vars
  <2> SUFFICES ASSUME SystemInv, Next PROVE A
    OBVIOUS
  <2> QED
    BY ServiceView, NeverRequeued DEF SystemInv
<1>2. Spec => [][A]_vars
  BY <1>1, SystemCorrect, PTL DEF Spec
<1> QED
  BY <1>2 DEF RowsNeverRequeued

\* The system implements its three components: hub, workers and task service, each
\* as specified on its own, are what runs when they are joined.
THEOREM Implements == Spec => HubSpec /\ WorkerSpec /\ ServiceSpec
<1>1. Init => HubInit /\ WorkerInit /\ ServiceInit
  BY DEF Init
<1>2. SystemInv /\ [Next]_vars => [HubNext]_hubVars
  BY HubViewIsHubStep DEF vars, hubVars
<1>3. SystemInv /\ [Next]_vars => [WorkerNext]_workerVars
  BY WorkersView DEF WorkerView, vars, workerVars
<1>4. SystemInv /\ [Next]_vars => [ServiceNext]_serviceVars
  BY ServiceView DEF vars, serviceVars, rowVars
<1> QED
  BY <1>1, <1>2, <1>3, <1>4, SystemCorrect, PTL DEF Spec, HubSpec, WorkerSpec, ServiceSpec

-----------------------------------------------------------------------------
(* The hub never keeps an assignment nothing will release                  *)
(* (TaskControl!AssignmentsBacked). What has to hold besides: a worker's   *)
(* stream is an open session, and no other worker's.                       *)

AssignOf(t) == [kind |-> "assign", task |-> t]

HasAssign(q, t) == \E i \in DOMAIN q : q[i] = AssignOf(t)

IsFinalOf(m, t) == m.kind = "update" /\ m.task = t /\ m.state \in TerminalState

HasFinal(q, t) == \E i \in DOMAIN q : IsFinalOf(q[i], t)

Runs(w, t) == \E e \in execs : e.worker = w /\ e.task = t /\ e.phase = "run"

\* What stands behind an entry of h.tasks on the stream of w.
Behind(w, t) == \/ HasAssign(outbox[link[w]], t)
                \/ Runs(w, t)
                \/ HasFinal(inbox[link[w]], t)

LinksOpen == \A w \in Worker : link[w] # NoSession => session[link[w]] = "open"

LinksDistinct == \A v, w \in Worker : link[v] = link[w] /\ link[v] # NoSession => v = w

EntriesBacked ==
  \A w \in Worker, t \in Task :
    link[w] # NoSession /\ owner[t] = link[w] => Behind(w, t) \/ t \in kept

AssignInv == LinksOpen /\ LinksDistinct /\ EntriesBacked

-----------------------------------------------------------------------------
(* Queues.                                                                 *)

\* What is added behind hides nothing.
LEMMA AddingKeeps ==
  ASSUME NEW S, NEW q \in Seq(S), NEW r \in Seq(S), NEW t
  PROVE  /\ HasAssign(q, t) => HasAssign(q \o r, t)
         /\ HasFinal(q, t) => HasFinal(q \o r, t)
<1>1. /\ Len(q \o r) = Len(q) + Len(r)
      /\ \A i \in 1 .. Len(q) : (q \o r)[i] = q[i]
      /\ q \o r \in Seq(S)
  BY ConcatProperties
<1>2. DOMAIN q = 1 .. Len(q) /\ DOMAIN (q \o r) = 1 .. Len(q \o r)
  BY <1>1, LenProperties
<1>3. DOMAIN q \subseteq DOMAIN (q \o r)
  BY <1>1, <1>2, LenProperties
<1> QED
  BY <1>1, <1>2, <1>3 DEF HasAssign, HasFinal

LEMMA PushingKeeps ==
  ASSUME NEW S, NEW q \in Seq(S), NEW m \in S, NEW t
  PROVE  /\ HasAssign(q, t) => HasAssign(Append(q, m), t)
         /\ m = AssignOf(t) => HasAssign(Append(q, m), t)
         /\ IsFinalOf(m, t) => HasFinal(q \o <<m>>, t)
<1>1. /\ Append(q, m) \in Seq(S)
      /\ Len(Append(q, m)) = Len(q) + 1
      /\ \A i \in 1 .. Len(q) : Append(q, m)[i] = q[i]
      /\ Append(q, m)[Len(q) + 1] = m
  BY AppendProperties
<1>2. /\ DOMAIN q = 1 .. Len(q) /\ Len(q) \in Nat
      /\ DOMAIN Append(q, m) = 1 .. Len(q) + 1
  BY <1>1, LenProperties
<1>3. q \o <<m>> = Append(q, m)
  OBVIOUS
<1> QED
  BY <1>1, <1>2, <1>3 DEF HasAssign, HasFinal

\* Taking the oldest message hides that message only.
LEMMA TakingKeeps ==
  ASSUME NEW S, NEW q \in Seq(S), q # <<>>, NEW t
  PROVE  /\ HasAssign(q, t) /\ Head(q) # AssignOf(t) => HasAssign(Tail(q), t)
         /\ HasFinal(q, t) /\ ~IsFinalOf(Head(q), t) => HasFinal(Tail(q), t)
<1>1. /\ Tail(q) \in Seq(S)
      /\ Len(Tail(q)) = Len(q) - 1
      /\ \A i \in 1 .. Len(Tail(q)) : Tail(q)[i] = q[i+1]
      /\ Head(q) = q[1]
  BY HeadTailProperties
<1>2. /\ DOMAIN q = 1 .. Len(q) /\ Len(q) \in Nat
      /\ DOMAIN Tail(q) = 1 .. Len(q) - 1
  BY <1>1, LenProperties
<1>3. ASSUME NEW i \in DOMAIN q, i # 1
      PROVE  i - 1 \in DOMAIN Tail(q) /\ Tail(q)[i - 1] = q[i]
  BY <1>1, <1>2, <1>3
<1>4. HasAssign(q, t) /\ Head(q) # AssignOf(t) => HasAssign(Tail(q), t)
  BY <1>1, <1>3 DEF HasAssign
<1>5. HasFinal(q, t) /\ ~IsFinalOf(Head(q), t) => HasFinal(Tail(q), t)
  BY <1>1, <1>3 DEF HasFinal
<1> QED
  BY <1>4, <1>5

LEMMA AssignInvInit == Init => AssignInv
BY DEF Init, HubInit, WorkerInit, AssignInv, LinksOpen, LinksDistinct, EntriesBacked

\* What a step of the rows alone leaves as it is.
LEMMA NothingMoves ==
  ASSUME AssignInv, UNCHANGED <<session, outbox, inbox, owner, link, execs, kept>>
  PROVE  AssignInv'
BY DEF AssignInv, LinksOpen, LinksDistinct, EntriesBacked, Behind, Runs, HasAssign, HasFinal

-----------------------------------------------------------------------------
(* Steps of the hub.                                                       *)

\* A step of the hub that keeps what stands behind every entry, and backs every
\* entry it makes.
LEMMA HubMoves ==
  ASSUME AssignInv, UNCHANGED <<session, link, execs>>,
         \A w \in Worker, t \in Task : link[w] # NoSession /\ owner'[t] = link[w] =>
           \/ HasAssign(outbox'[link[w]], t) \/ t \in kept'
           \/ /\ owner[t] = link[w]
              /\ HasAssign(outbox[link[w]], t) => HasAssign(outbox'[link[w]], t)
              /\ HasFinal(inbox[link[w]], t) => HasFinal(inbox'[link[w]], t)
              /\ t \in kept => t \in kept'
  PROVE  AssignInv'
<1>1. LinksOpen' /\ LinksDistinct'
  BY DEF AssignInv, LinksOpen, LinksDistinct
<1>2. ASSUME NEW w \in Worker, NEW t \in Task, link'[w] # NoSession, owner'[t] = link'[w]
      PROVE  Behind(w, t)' \/ t \in kept'
  <2>1. link'[w] = link[w]
    OBVIOUS
  <2>2. CASE HasAssign(outbox'[link[w]], t) \/ t \in kept'
    BY <2>1, <2>2 DEF Behind, HasAssign
  <2>3. CASE ~HasAssign(outbox'[link[w]], t) /\ t \notin kept'
    <3>1. owner[t] = link[w] /\ Behind(w, t)
      BY <1>2, <2>1, <2>3 DEF AssignInv, EntriesBacked
    <3>2. HasAssign(outbox[link[w]], t) => HasAssign(outbox'[link[w]], t)
      BY <1>2, <2>1, <2>3
    <3>3. HasFinal(inbox[link[w]], t) => HasFinal(inbox'[link[w]], t)
      BY <1>2, <2>1, <2>3
    <3>4. Runs(w, t) => Runs(w, t)'
      BY DEF Runs
    <3> QED
      BY <2>1, <3>1, <3>2, <3>3, <3>4 DEF Behind, HasAssign, HasFinal
  <2> QED
    BY <2>2, <2>3
<1> QED
  BY <1>1, <1>2 DEF AssignInv, EntriesBacked

\* Consuming a frame hides no final report but the one consumed.
LEMMA ConsumingKeeps ==
  ASSUME SystemInv, NEW s \in Session, inbox[s] # <<>>, Consumed(s),
         NEW x \in Session, NEW t, x = s => ~IsFinalOf(Head(inbox[s]), t),
         HasFinal(inbox[x], t)
  PROVE  HasFinal(inbox'[x], t)
<1>1. inbox \in [Session -> Seq(KnownFrame)]
  BY DEF SystemInv, NamesKnown
<1>2. inbox' = [inbox EXCEPT ![s] = Tail(@)]
  BY DEF Consumed
<1>3. CASE x = s
  <2>1. HasFinal(Tail(inbox[s]), t)
    BY <1>1, <1>3, TakingKeeps
  <2> QED
    BY <1>1, <1>2, <1>3, <2>1
<1>4. CASE x # s
  BY <1>1, <1>2, <1>4
<1> QED
  BY <1>3, <1>4

\* Assign backs the entry it makes with the message it pushes.
LEMMA AssignBacks ==
  ASSUME SystemInv, NEW s \in Session, NEW t \in Known, AssignTo(t, s),
         NEW w \in Worker, NEW u \in Task, link[w] # NoSession, owner'[u] = link[w]
  PROVE  \/ HasAssign(outbox'[link[w]], u)
         \/ /\ owner[u] = link[w] /\ u # t
            /\ HasAssign(outbox[link[w]], u) => HasAssign(outbox'[link[w]], u)
<1>1. /\ outbox \in [Session -> Seq(KnownPush)] /\ link[w] \in Session
      /\ owner \in [Task -> Session \cup {NoSession}] /\ t \in Task
  BY LinkFacts DEF SystemInv, NamesKnown, HubTypeOK, Known
<1>2. /\ outbox' = [outbox EXCEPT ![s] = Append(@, AssignOf(t))]
      /\ owner' = [owner EXCEPT ![t] = s]
  BY DEF AssignTo, AssignOf
<1>3. AssignOf(t) \in KnownPush
  BY DEF AssignOf, KnownPush
<1>4. HasAssign(outbox[link[w]], u) => HasAssign(outbox'[link[w]], u)
  <2>1. HasAssign(outbox[s], u) => HasAssign(Append(outbox[s], AssignOf(t)), u)
    BY <1>1, <1>3, PushingKeeps
  <2> QED
    BY <1>1, <1>2, <2>1
<1>5. CASE u = t
  <2>1. link[w] = s
    BY <1>1, <1>2, <1>5
  <2>2. HasAssign(Append(outbox[s], AssignOf(t)), t)
    BY <1>1, <1>3, PushingKeeps
  <2> QED
    BY <1>1, <1>2, <1>5, <2>1, <2>2
<1>6. CASE u # t
  BY <1>1, <1>2, <1>4, <1>6
<1> QED
  BY <1>5, <1>6

LEMMA DispatchBacks ==
  ASSUME SystemInv, AssignInv, NEW t \in Task, NEW s \in Session, Dispatch(t, s)
  PROVE  AssignInv'
<1>1. t \in Known
  BY DEF Dispatch, Dispatched, AtRow, SystemInv, ServiceInv, ScanKnown, Known
<1>2. AssignTo(t, s) /\ UNCHANGED <<session, link, execs>> /\ kept' = kept \ {t}
  BY DEF Dispatch, Assign, AssignOverHeartbeat, AssignTo, workerVars
<1>3. ASSUME NEW w \in Worker, NEW u \in Task, link[w] # NoSession, HasFinal(inbox[link[w]], u)
      PROVE  HasFinal(inbox'[link[w]], u)
  <2>1. CASE UNCHANGED inbox
    BY <1>3, <2>1
  <2>2. CASE Reading(s, "beat") /\ Consumed(s)
    <3>1. inbox[s] # <<>> /\ ~IsFinalOf(Head(inbox[s]), u)
      BY <2>2 DEF Reading, IsFinalOf
    <3> QED
      BY <1>3, <2>2, <3>1, LinkFacts, ConsumingKeeps
  <2> QED
    BY <2>1, <2>2 DEF Dispatch, Assign, AssignOverHeartbeat
<1> QED
  BY <1>1, <1>2, <1>3, AssignBacks, HubMoves

\* The steps of a read loop but the last one: whatever frame they consume is no
\* final report.
LEMMA ReadingKeeps ==
  ASSUME SystemInv, AssignInv, NEW s \in Session,
         \/ PassOver(s) \/ ReadHeartbeat(s) \/ ReadUpdate(s) \/ ReadUpdateFails(s)
         \/ DecideRetry(s) \/ DecideRetryFails(s) \/ GiveSlotBack(s)
  PROVE  AssignInv'
<1>1. UNCHANGED <<session, link, execs, owner, outbox>>
  BY DEF PassOver, ReadHeartbeat, ReadUpdate, ReadUpdateFails, DecideRetry,
         DecideRetryFails, GiveSlotBack, UndoOverHeartbeat, UndoOverRelease, Heartbeat,
         UpdatePersisted, UpdateFailed, RetryDecided, ReleaseSlot, workerVars
<1>2. \/ UNCHANGED inbox
      \/ /\ Consumed(s) /\ inbox[s] # <<>>
         /\ \/ Head(inbox[s]).kind = "beat"
            \/ Head(inbox[s]).state \notin TerminalState
            \/ Head(inbox[s]).task \in kept'
  BY DEF PassOver, ReadHeartbeat, ReadUpdate, ReadUpdateFails, DecideRetry,
         DecideRetryFails, GiveSlotBack, UndoOverHeartbeat, UndoOverRelease, Heartbeat,
         UpdatePersisted, UpdateFailed, RetryDecided, ReleaseSlot, Reading
<1>3. kept \subseteq kept'
  BY DEF PassOver, ReadHeartbeat, ReadUpdate, ReadUpdateFails, DecideRetry,
         DecideRetryFails, GiveSlotBack, budgetVars
<1>4. ASSUME NEW w \in Worker, NEW t \in Task, link[w] # NoSession, HasFinal(inbox[link[w]], t)
      PROVE  HasFinal(inbox'[link[w]], t) \/ t \in kept'
  <2>1. CASE UNCHANGED inbox
    BY <1>4, <2>1
  <2>2. CASE /\ Consumed(s) /\ inbox[s] # <<>>
             /\ \/ Head(inbox[s]).kind = "beat"
                \/ Head(inbox[s]).state \notin TerminalState
                \/ Head(inbox[s]).task \in kept'
    <3>1. ~IsFinalOf(Head(inbox[s]), t) \/ t \in kept'
      BY <2>2 DEF IsFinalOf
    <3> QED
      BY <1>4, <2>2, <3>1, LinkFacts, ConsumingKeeps
  <2> QED
    BY <1>2, <2>1, <2>2
<1> QED
  BY <1>1, <1>3, <1>4, HubMoves

\* The last step of a terminal update drops the entry with the report.
LEMMA ForgettingKeeps ==
  ASSUME SystemInv, AssignInv, NEW s \in Session, ForgetOwner(s)
  PROVE  AssignInv'
<1>1. ForgetTask(s) /\ UNCHANGED <<session, link, execs, outbox, kept>>
  BY DEF ForgetOwner, ForgetTask, workerVars, budgetVars
<1>2. inbox[s] # <<>> /\ Head(inbox[s]).kind = "update"
  BY DEF ForgetOwner, ForgetTask, SystemInv, HubSafe, MidFrameIsTerminal
<1>3. Head(inbox[s]).task \in Task /\ owner \in [Task -> Session \cup {NoSession}]
  BY <1>2, UpdateFacts DEF SystemInv, HubTypeOK
<1>4. ASSUME NEW w \in Worker, NEW t \in Task, link[w] # NoSession, owner'[t] = link[w]
      PROVE  /\ owner[t] = link[w]
             /\ HasFinal(inbox[link[w]], t) => HasFinal(inbox'[link[w]], t)
  <2>1. owner' = [owner EXCEPT ![Head(inbox[s]).task] = NoSession]
    BY <1>1 DEF ForgetTask
  <2>2. t # Head(inbox[s]).task /\ owner[t] = link[w]
    BY <1>3, <1>4, <2>1
  <2>3. ~IsFinalOf(Head(inbox[s]), t)
    BY <2>2 DEF IsFinalOf
  <2>4. Consumed(s) /\ link[w] \in Session
    BY <1>1, <1>4, LinkFacts DEF ForgetTask
  <2> QED
    BY <1>2, <2>2, <2>3, <2>4, ConsumingKeeps
<1> QED
  BY <1>1, <1>4, HubMoves

LEMMA CancelKeeps ==
  ASSUME SystemInv, AssignInv, CancelSends
  PROVE  AssignInv'
<1> DEFINE s == canceller.session
           m == [kind |-> "cancel", task |-> canceller.task]
<1>1. s \in Session /\ canceller.task \in Known
  BY DEF CancelSends, CancelDone, SystemInv, ServiceInv, CancelKnown, Known
<1>2. /\ UNCHANGED <<session, link, execs, owner, inbox, kept>>
      /\ UNCHANGED outbox \/ outbox' = [outbox EXCEPT ![s] = Append(@, m)]
  BY DEF CancelSends, PushCancel, workerVars, budgetVars
<1>3. outbox \in [Session -> Seq(KnownPush)] /\ m \in KnownPush
  BY <1>1 DEF SystemInv, NamesKnown, KnownPush
<1>4. ASSUME NEW w \in Worker, NEW t \in Task, link[w] # NoSession, HasAssign(outbox[link[w]], t)
      PROVE  HasAssign(outbox'[link[w]], t)
  <2> HIDE DEF m, s
  <2>1. outbox[s] \in Seq(KnownPush) /\ link[w] \in Session
    BY <1>1, <1>3, <1>4, LinkFacts
  <2>2. HasAssign(outbox[s], t) => HasAssign(Append(outbox[s], m), t)
    BY <1>3, <2>1, PushingKeeps
  <2> QED
    BY <1>1, <1>2, <1>3, <1>4, <2>1, <2>2
<1> QED
  BY <1>2, <1>4, HubMoves

\* A session that ends is no worker's stream any more.
LEMMA EndingKeeps ==
  ASSUME SystemInv, AssignInv, NEW s \in Session, SessionEnds(s)
  PROVE  AssignInv'
<1>1. /\ UNCHANGED <<link, execs, kept>>
      /\ \A w \in Worker : link[w] # s
      /\ session' = [session EXCEPT ![s] = "closed"]
      /\ outbox' = [outbox EXCEPT ![s] = <<>>]
      /\ inbox' = [inbox EXCEPT ![s] = <<>>]
      /\ owner' = [t \in Task |-> IF owner[t] = s THEN NoSession ELSE owner[t]]
  BY DEF SessionEnds, Unregister, Linked, workerVars, budgetVars
<1>2. /\ session \in [Session -> {"unused", "open", "closed"}]
      /\ outbox \in [Session -> Seq(MasterMsg)]
      /\ inbox \in [Session -> Seq(WorkerMsg)]
  BY DEF SystemInv, HubTypeOK
<1>3. ASSUME NEW w \in Worker, link[w] # NoSession
      PROVE  /\ session'[link[w]] = session[link[w]]
             /\ outbox'[link[w]] = outbox[link[w]]
             /\ inbox'[link[w]] = inbox[link[w]]
             /\ \A t \in Task : owner'[t] = link[w] => owner[t] = link[w]
  BY <1>1, <1>2, <1>3, LinkFacts
<1> QED
  BY <1>1, <1>3 DEF AssignInv, LinksOpen, LinksDistinct, EntriesBacked, Behind, Runs,
                    HasAssign, HasFinal

-----------------------------------------------------------------------------
(* Steps of the workers.                                                   *)

\* A step on the stream of one worker that keeps something behind every entry.
LEMMA WorkerMoves ==
  ASSUME AssignInv, UNCHANGED <<session, link, owner, kept>>,
         \A w \in Worker, t \in Task :
           link[w] # NoSession /\ owner[t] = link[w] /\ Behind(w, t) => Behind(w, t)'
  PROVE  AssignInv'
<1>1. LinksOpen' /\ LinksDistinct'
  BY DEF AssignInv, LinksOpen, LinksDistinct
<1>2. EntriesBacked'
  BY DEF AssignInv, EntriesBacked
<1> QED
  BY <1>1, <1>2 DEF AssignInv

\* Frames sent on a stream hide nothing that is on any stream.
LEMMA TransferKeeps ==
  ASSUME SystemInv, NEW s \in Session, NEW ms \in Seq(KnownFrame), NEW taken \in BOOLEAN,
         Transfer(s, taken, ms), NEW w \in Worker, NEW t, link[w] # NoSession
  PROVE  /\ HasFinal(inbox[link[w]], t) => HasFinal(inbox'[link[w]], t)
         /\ \/ ~taken
            \/ link[w] # s
            \/ Head(outbox[s]) # AssignOf(t)
            => (HasAssign(outbox[link[w]], t) => HasAssign(outbox'[link[w]], t))
<1>1. /\ inbox \in [Session -> Seq(KnownFrame)] /\ outbox \in [Session -> Seq(KnownPush)]
      /\ link[w] \in Session
  BY LinkFacts DEF SystemInv, NamesKnown
<1>2. /\ inbox' = [inbox EXCEPT ![s] = @ \o ms]
      /\ outbox' = IF taken THEN [outbox EXCEPT ![s] = Tail(@)] ELSE outbox
      /\ taken => outbox[s] # <<>>
  BY DEF Transfer
<1>3. HasFinal(inbox[s], t) => HasFinal(inbox[s] \o ms, t)
  BY <1>1, AddingKeeps
<1>4. taken /\ HasAssign(outbox[s], t) /\ Head(outbox[s]) # AssignOf(t)
      => HasAssign(Tail(outbox[s]), t)
  BY <1>1, <1>2, TakingKeeps
<1>5. HasFinal(inbox[link[w]], t) => HasFinal(inbox'[link[w]], t)
  BY <1>1, <1>2, <1>3
<1>6. ASSUME ~taken \/ link[w] # s \/ Head(outbox[s]) # AssignOf(t),
             HasAssign(outbox[link[w]], t)
      PROVE  HasAssign(outbox'[link[w]], t)
  <2>1. CASE ~taken
    BY <1>2, <1>6, <2>1
  <2>2. CASE taken /\ link[w] # s
    BY <1>1, <1>2, <1>6, <2>2
  <2>3. CASE taken /\ link[w] = s
    BY <1>1, <1>2, <1>4, <1>6, <2>3
  <2> QED
    BY <2>1, <2>2, <2>3
<1> QED
  BY <1>5, <1>6

\* The assignment a worker takes becomes an execution; no other entry loses what
\* stands behind it.
LEMMA ReceiveAssignKeeps ==
  ASSUME SystemInv, AssignInv, NEW w \in Worker, NEW t \in Task, ReceiveAssign(w, t)
  PROVE  AssignInv'
<1>1. /\ link[w] # NoSession /\ Head(outbox[link[w]]) = AssignOf(t)
      /\ outbox[link[w]] # <<>>
      /\ Transfer(link[w], TRUE, <<StartOf(t)>>) /\ StartTask(w, t)
  BY DEF ReceiveAssign, AssignOf
<1>2. link[w] \in Session /\ UNCHANGED <<session, link, owner, kept>>
  BY <1>1, LinkFacts DEF Transfer, StartTask, ReceiveAssign, budgetVars
<1>3. <<StartOf(t)>> \in Seq(KnownFrame)
  <2>1. Head(outbox[link[w]]) \in KnownPush
    BY <1>1, LinkFacts, FrameQueues
  <2>2. t \in Known
    BY <1>1, <2>1 DEF KnownPush, AssignOf
  <2> QED
    BY <2>2, StartReport
<1>4. ASSUME NEW v \in Worker, NEW u \in Task, link[v] # NoSession, Behind(v, u)
      PROVE  Behind(v, u)'
  <2>1. Runs(v, u) => Runs(v, u)'
    BY <1>1 DEF StartTask, Runs
  <2>2. Runs(w, t)'
    <3>1. PICK i \in ExecId :
            execs' = execs \cup {[id |-> i, worker |-> w, task |-> t, phase |-> "run",
                                  cancelled |-> FALSE, captcha |-> FALSE]}
      BY <1>1 DEF StartTask
    <3> DEFINE e == [id |-> i, worker |-> w, task |-> t, phase |-> "run",
                     cancelled |-> FALSE, captcha |-> FALSE]
    <3>2. e \in execs' /\ e.worker = w /\ e.task = t /\ e.phase = "run"
      BY <3>1
    <3> QED
      BY <3>2 DEF Runs
  <2>3. CASE v = w /\ u = t
    BY <2>2, <2>3 DEF Behind
  <2>4. CASE v # w \/ u # t
    <3>1. link[v] # link[w] \/ Head(outbox[link[w]]) # AssignOf(u)
      BY <1>1, <1>4, <2>4 DEF AssignInv, LinksDistinct, AssignOf
    <3>2. HasFinal(inbox[link[v]], u) => HasFinal(inbox'[link[v]], u)
      BY <1>1, <1>2, <1>3, <1>4, TransferKeeps
    <3>3. HasAssign(outbox[link[v]], u) => HasAssign(outbox'[link[v]], u)
      BY <1>1, <1>2, <1>3, <1>4, <3>1, TransferKeeps
    <3> QED
      BY <1>2, <1>4, <2>1, <3>2, <3>3 DEF Behind, HasAssign, HasFinal
  <2> QED
    BY <2>3, <2>4
<1> QED
  BY <1>2, <1>4, WorkerMoves

LEMMA ReceiveCancelKeeps ==
  ASSUME SystemInv, AssignInv, NEW w \in Worker, NEW t \in Task, ReceiveCancel(w, t)
  PROVE  AssignInv'
<1>1. /\ link[w] # NoSession /\ \A u \in Task : Head(outbox[link[w]]) # AssignOf(u)
      /\ Transfer(link[w], TRUE, <<>>) /\ CancelTask(w, t)
  <2>1. Head(outbox[link[w]]).kind = "cancel"
    BY DEF ReceiveCancel
  <2>2. \A u \in Task : AssignOf(u).kind = "assign"
    BY DEF AssignOf
  <2>3. \A u \in Task : Head(outbox[link[w]]) # AssignOf(u)
    BY <2>1, <2>2
  <2> QED
    BY <2>3 DEF ReceiveCancel
<1>2. /\ link[w] \in Session /\ UNCHANGED <<session, link, owner, kept>>
      /\ <<>> \in Seq(KnownFrame)
  BY <1>1, LinkFacts, EmptySeq DEF Transfer, CancelTask, ReceiveCancel, budgetVars
<1>3. ASSUME NEW v \in Worker, NEW u \in Task, Runs(v, u)
      PROVE  Runs(v, u)'
  <2>1. PICK e \in execs : e.worker = v /\ e.task = u /\ e.phase = "run"
    BY <1>3 DEF Runs
  <2>2. e \in Exec
    BY DEF SystemInv, WorkerInv, WorkerTypeOK
  <2> DEFINE f == IF e.worker = w /\ e.id = handle[w][t]
                  THEN [e EXCEPT !.cancelled = TRUE] ELSE e
  <2>3. f \in execs'
    BY <1>1 DEF CancelTask
  <2>4. f.worker = v /\ f.task = u /\ f.phase = "run"
    BY <2>1, <2>2 DEF Exec
  <2> QED
    BY <2>3, <2>4 DEF Runs
<1>4. ASSUME NEW v \in Worker, NEW u \in Task, link[v] # NoSession, Behind(v, u)
      PROVE  Behind(v, u)'
  <2>1. /\ HasFinal(inbox[link[v]], u) => HasFinal(inbox'[link[v]], u)
        /\ HasAssign(outbox[link[v]], u) => HasAssign(outbox'[link[v]], u)
    BY <1>1, <1>2, <1>4, TransferKeeps
  <2> QED
    BY <1>2, <1>3, <1>4, <2>1 DEF Behind, HasAssign, HasFinal
<1> QED
  BY <1>2, <1>4, WorkerMoves

\* Frames sent on the stream of w, if there is one, hide nothing.
LEMMA OnStreamKeeps ==
  ASSUME SystemInv, NEW w \in Worker, NEW m \in KnownFrame, OnStream(w, <<m>>),
         NEW v \in Worker, NEW t, link[v] # NoSession
  PROVE  /\ UNCHANGED <<session, owner>>
         /\ HasFinal(inbox[link[v]], t) => HasFinal(inbox'[link[v]], t)
         /\ HasAssign(outbox[link[v]], t) => HasAssign(outbox'[link[v]], t)
<1>1. CASE link[w] = NoSession
  BY <1>1 DEF OnStream, hubVars
<1>2. CASE link[w] # NoSession
  <2>1. Transfer(link[w], FALSE, <<m>>) /\ link[w] \in Session
    BY <1>2, LinkFacts DEF OnStream
  <2>2. UNCHANGED <<session, owner>>
    BY <2>1 DEF Transfer
  <2>3. <<m>> \in Seq(KnownFrame)
    OBVIOUS
  <2> QED
    BY <2>1, <2>2, <2>3, TransferKeeps
<1> QED
  BY <1>1, <1>2

\* An execution that reports a captcha goes on.
LEMMA CaptchaKeeps ==
  ASSUME SystemInv, AssignInv, NEW e \in execs, CaptchaSeen(e)
  PROVE  AssignInv'
<1> DEFINE f == [e EXCEPT !.captcha = TRUE]
<1>1. /\ execs' = (execs \ {e}) \cup {f}
      /\ OnStream(e.worker, <<CaptchaOf(e.task)>>)
      /\ UNCHANGED <<link, kept>>
  BY DEF CaptchaSeen, ReportCaptcha, Replace, budgetVars
<1>2. /\ e \in Exec /\ e.worker \in Worker /\ CaptchaOf(e.task) \in KnownFrame
      /\ f.worker = e.worker /\ f.task = e.task /\ f.phase = e.phase
  BY ExecReports DEF SystemInv, WorkerInv, WorkerTypeOK, Exec
<1> HIDE DEF f
<1>3. UNCHANGED <<session, owner>>
  BY <1>1 DEF OnStream, Transfer, hubVars
<1>4. ASSUME NEW v \in Worker, NEW u \in Task, link[v] # NoSession, Behind(v, u)
      PROVE  Behind(v, u)'
  <2>1. Runs(v, u) => Runs(v, u)'
    BY <1>1, <1>2 DEF Runs
  <2>2. /\ HasFinal(inbox[link[v]], u) => HasFinal(inbox'[link[v]], u)
        /\ HasAssign(outbox[link[v]], u) => HasAssign(outbox'[link[v]], u)
    BY <1>1, <1>2, <1>4, OnStreamKeeps
  <2> QED
    BY <1>1, <1>4, <2>1, <2>2 DEF Behind, HasAssign, HasFinal
<1> QED
  BY <1>1, <1>3, <1>4, WorkerMoves

\* The report of an execution that ends takes its place.
LEMMA EndsKeeps ==
  ASSUME SystemInv, AssignInv, NEW e \in execs, NEW o \in Outcomes(e), ExecEnds(e, o)
  PROVE  AssignInv'
<1> DEFINE f == [e EXCEPT !.phase = "done"]
           m == FinalOf(e.task, o)
<1>1. /\ execs' = (execs \ {e}) \cup {f}
      /\ OnStream(e.worker, <<m>>)
      /\ UNCHANGED <<link, kept>>
  BY DEF ExecEnds, Finish, Replace, budgetVars
<1>2. e \in Exec /\ e.worker \in Worker /\ m \in KnownFrame
  BY ExecReports DEF SystemInv, WorkerInv, WorkerTypeOK
<1>3. IsFinalOf(m, e.task)
  <2>1. o[1] \in TerminalState
    BY <1>2, OutcomeType
  <2> QED
    BY <2>1 DEF FinalOf, Update, IsFinalOf
<1> HIDE DEF f, m
<1>4. UNCHANGED <<session, owner>>
  BY <1>1 DEF OnStream, Transfer, hubVars
<1>5. ASSUME NEW v \in Worker, NEW u \in Task, link[v] # NoSession, Behind(v, u)
      PROVE  Behind(v, u)'
  <2>1. CASE v = e.worker /\ u = e.task
    <3>1. Transfer(link[v], FALSE, <<m>>) /\ inbox[link[v]] \in Seq(KnownFrame)
      BY <1>1, <1>5, <2>1, LinkFacts DEF OnStream
    <3>2. HasFinal(inbox[link[v]] \o <<m>>, u)
      BY <1>2, <1>3, <2>1, <3>1, PushingKeeps
    <3>3. inbox'[link[v]] = inbox[link[v]] \o <<m>>
      BY <1>5, <3>1, LinkFacts DEF Transfer, SystemInv, HubTypeOK
    <3> QED
      BY <1>1, <3>2, <3>3 DEF Behind, HasFinal
  <2>2. CASE v # e.worker \/ u # e.task
    <3>1. Runs(v, u) => Runs(v, u)'
      BY <1>1, <2>2 DEF Runs
    <3>2. /\ HasFinal(inbox[link[v]], u) => HasFinal(inbox'[link[v]], u)
          /\ HasAssign(outbox[link[v]], u) => HasAssign(outbox'[link[v]], u)
      BY <1>1, <1>2, <1>5, OnStreamKeeps
    <3> QED
      BY <1>1, <1>5, <3>1, <3>2 DEF Behind, HasAssign, HasFinal
  <2> QED
    BY <2>1, <2>2
<1> QED
  BY <1>1, <1>4, <1>5, WorkerMoves

LEMMA CleanUpKeeps ==
  ASSUME SystemInv, AssignInv, NEW e \in execs, ExecCleansUp(e)
  PROVE  AssignInv'
<1>1. e.phase = "done" /\ execs' = execs \ {e} /\ UNCHANGED link
  BY DEF ExecCleansUp, CleanUp
<1>2. UNCHANGED <<session, owner, inbox, outbox, kept>>
  BY DEF ExecCleansUp, hubVars, budgetVars
<1>3. ASSUME NEW v \in Worker, NEW u \in Task, Behind(v, u)
      PROVE  Behind(v, u)'
  BY <1>1, <1>2, <1>3 DEF Behind, Runs, HasAssign, HasFinal
<1> QED
  BY <1>1, <1>2, <1>3, WorkerMoves

LEMMA BeatKeeps ==
  ASSUME SystemInv, AssignInv, NEW w \in Worker, WorkerBeats(w)
  PROVE  AssignInv'
<1>1. OnStream(w, <<BeatOf(w)>>) /\ UNCHANGED <<link, execs, kept>>
  BY DEF WorkerBeats, Beat, workerVars, budgetVars
<1>2. BeatOf(w) \in KnownFrame
  BY DEF BeatOf, KnownFrame, WorkerMsg, BeatMsg, SystemInv, WorkerInv, WorkerTypeOK
<1>3. UNCHANGED <<session, owner>>
  BY <1>1 DEF OnStream, Transfer, hubVars
<1>4. ASSUME NEW v \in Worker, NEW u \in Task, link[v] # NoSession, Behind(v, u)
      PROVE  Behind(v, u)'
  <2>1. /\ HasFinal(inbox[link[v]], u) => HasFinal(inbox'[link[v]], u)
        /\ HasAssign(outbox[link[v]], u) => HasAssign(outbox'[link[v]], u)
    BY <1>1, <1>2, <1>4, OnStreamKeeps
  <2> QED
    BY <1>1, <1>4, <2>1 DEF Behind, Runs, HasAssign, HasFinal
<1> QED
  BY <1>1, <1>3, <1>4, WorkerMoves

\* A new session is no worker's yet, and no entry names it.
LEMMA ConnectKeeps ==
  ASSUME SystemInv, AssignInv, NEW w \in Worker, NEW s \in Session, Connect(w, s)
  PROVE  AssignInv'
<1>1. /\ link' = [link EXCEPT ![w] = s] /\ UNCHANGED <<execs, owner, outbox, kept>>
      /\ session[s] = "unused" /\ session' = [session EXCEPT ![s] = "open"]
      /\ inbox' = [inbox EXCEPT ![s] = wout[w]]
  BY DEF Connect, Join, Register, budgetVars
<1>2. /\ link \in [Worker -> Session \cup {NoSession}]
      /\ session \in [Session -> {"unused", "open", "closed"}]
      /\ inbox \in [Session -> Seq(WorkerMsg)]
  BY DEF SystemInv, WorkerInv, WorkerTypeOK, HubTypeOK
<1>3. \A v \in Worker : link[v] # s
  BY <1>1, DeploymentAssumption DEF AssignInv, LinksOpen
<1>4. \A t \in Task : owner[t] # s
  BY <1>1, DeploymentAssumption DEF SystemInv, HubSafe, OwnerIsOpen
<1>5. LinksOpen' /\ LinksDistinct'
  BY <1>1, <1>2, <1>3 DEF AssignInv, LinksOpen, LinksDistinct
<1>6. ASSUME NEW v \in Worker, NEW t \in Task, link'[v] # NoSession, owner'[t] = link'[v]
      PROVE  Behind(v, t)' \/ t \in kept'
  <2>1. v # w /\ link'[v] = link[v] /\ link[v] # s
    BY <1>1, <1>2, <1>3, <1>4, <1>6
  <2>2. Behind(v, t) \/ t \in kept
    BY <1>1, <1>6, <2>1 DEF AssignInv, EntriesBacked
  <2>3. inbox'[link'[v]] = inbox[link[v]] /\ outbox'[link'[v]] = outbox[link[v]]
    BY <1>1, <1>2, <2>1, LinkFacts
  <2> QED
    BY <1>1, <2>2, <2>3 DEF Behind, Runs, HasAssign, HasFinal
<1> QED
  BY <1>5, <1>6 DEF AssignInv, EntriesBacked

-----------------------------------------------------------------------------
(* Faults.                                                                 *)

\* When w loses its stream, what stands behind the entries of the other streams
\* stays.
LEMMA UnlinkKeeps ==
  ASSUME SystemInv, AssignInv, NEW w \in Worker,
         link' = [link EXCEPT ![w] = NoSession],
         UNCHANGED <<session, owner, outbox, kept>>,
         \A x \in Session : x # link[w] => inbox'[x] = inbox[x],
         \A v \in Worker, t \in Task : v # w /\ Runs(v, t) => Runs(v, t)'
  PROVE  AssignInv'
<1>1. link \in [Worker -> Session \cup {NoSession}]
  BY DEF SystemInv, WorkerInv, WorkerTypeOK
<1>2. LinksOpen' /\ LinksDistinct'
  BY <1>1 DEF AssignInv, LinksOpen, LinksDistinct
<1>3. ASSUME NEW v \in Worker, NEW t \in Task, link'[v] # NoSession, owner'[t] = link'[v]
      PROVE  Behind(v, t)' \/ t \in kept'
  <2>1. v # w /\ link'[v] = link[v]
    BY <1>1, <1>3
  <2>2. link[v] # link[w] /\ link[v] \in Session
    BY <1>1, <1>3, <2>1 DEF AssignInv, LinksDistinct
  <2>3. Behind(v, t) \/ t \in kept
    BY <1>3, <2>1 DEF AssignInv, EntriesBacked
  <2> QED
    BY <2>1, <2>2, <2>3 DEF Behind, HasAssign, HasFinal
<1> QED
  BY <1>2, <1>3 DEF AssignInv, EntriesBacked

LEMMA BreakKeeps ==
  ASSUME SystemInv, AssignInv, NEW w \in Worker, StreamBreaks(w)
  PROVE  AssignInv'
<1>1. PICK n \in 0 .. Len(inbox[link[w]]), lost \in {0, 1} :
        /\ CutAfter(link[w], n)
        /\ LoseStreams({w}, [v \in {w} |-> LeftAfter(v, n, lost)])
  BY DEF StreamBreaks
<1>2. link[w] \in Session /\ link \in [Worker -> Session \cup {NoSession}]
      /\ inbox \in [Session -> Seq(WorkerMsg)]
  BY LinkFacts DEF StreamBreaks, SystemInv, WorkerInv, WorkerTypeOK, HubTypeOK
<1>3. link' = [link EXCEPT ![w] = NoSession]
  BY <1>1, <1>2 DEF LoseStreams
<1>4. /\ UNCHANGED <<session, owner, outbox, kept>>
      /\ \A x \in Session : x # link[w] => inbox'[x] = inbox[x]
  BY <1>1, <1>2 DEF CutAfter, StreamBreaks, Breaks
<1>5. ASSUME NEW v \in Worker, NEW t \in Task, v # w, Runs(v, t)
      PROVE  Runs(v, t)'
  <2>1. PICK e \in execs : e.worker = v /\ e.task = t /\ e.phase = "run"
    BY <1>5 DEF Runs
  <2>2. e \in execs'
    BY <1>1, <1>5, <2>1 DEF LoseStreams
  <2> QED
    BY <2>1, <2>2 DEF Runs
<1> QED
  BY <1>3, <1>4, <1>5, UnlinkKeeps

LEMMA DeathKeeps ==
  ASSUME SystemInv, AssignInv, NEW w \in Worker, WorkerDies(w)
  PROVE  AssignInv'
<1>1. WorkerCrash(w)
  BY DEF WorkerDies
<1>2. link' = [link EXCEPT ![w] = NoSession] /\ execs' = execs \ ExecsOf(w)
  BY <1>1 DEF WorkerCrash
<1>3. /\ UNCHANGED <<session, owner, outbox, kept>>
      /\ \A x \in Session : x # link[w] => inbox'[x] = inbox[x]
  <2>1. CASE link[w] = NoSession
    BY <2>1 DEF WorkerDies, Breaks, hubVars
  <2>2. CASE link[w] # NoSession
    <3>1. PICK n \in 0 .. Len(inbox[link[w]]) : CutAfter(link[w], n)
      BY <2>2 DEF WorkerDies
    <3>2. inbox \in [Session -> Seq(WorkerMsg)] /\ link[w] \in Session
      BY <2>2, LinkFacts DEF SystemInv, HubTypeOK
    <3> QED
      BY <3>1, <3>2 DEF CutAfter, WorkerDies, Breaks
  <2> QED
    BY <2>1, <2>2
<1>4. ASSUME NEW v \in Worker, NEW t \in Task, v # w, Runs(v, t)
      PROVE  Runs(v, t)'
  BY <1>2, <1>4 DEF Runs, ExecsOf
<1> QED
  BY <1>2, <1>3, <1>4, UnlinkKeeps

\* A master that dies has no entry and no stream left.
LEMMA MasterDeathKeeps ==
  ASSUME SystemInv, AssignInv, MasterDies
  PROVE  AssignInv'
<1>1. link \in [Worker -> Session \cup {NoSession}]
  BY DEF SystemInv, WorkerInv, WorkerTypeOK
<1>2. \A w \in Worker : link'[w] = NoSession
  BY <1>1 DEF MasterDies, LoseStreams
<1> QED
  BY <1>2 DEF AssignInv, LinksOpen, LinksDistinct, EntriesBacked

-----------------------------------------------------------------------------
LEMMA AssignInvStep ==
  ASSUME SystemInv, AssignInv, [Next]_vars
  PROVE  AssignInv'
<1>1. CASE UNCHANGED vars
  BY <1>1, NothingMoves DEF vars, hubVars, workerVars, budgetVars
<1>2. ASSUME NEW t \in Task, \/ QueueTask(t) \/ TimePasses(t) \/ CancelBegins(t) \/ CancelErrs(t)
                           \/ DispatchFails(t) \/ DispatchErrs(t)
      PROVE  AssignInv'
  BY <1>2, NothingMoves
     DEF QueueTask, TimePasses, CancelBegins, CancelErrs, DispatchFails, DispatchErrs,
         hubVars, workerVars, budgetVars
<1>3. CASE SpiderDeleted \/ Scan \/ DispatchRefused \/ CancelLooksUp \/ CancelPanics
  BY <1>3, NothingMoves
     DEF SpiderDeleted, Scan, DispatchRefused, CancelLooksUp, CancelPanics, hubVars,
         workerVars, budgetVars
<1>4. ASSUME NEW s \in Session,
             \/ PassOver(s) \/ ReadHeartbeat(s) \/ ReadUpdate(s) \/ ReadUpdateFails(s)
             \/ DecideRetry(s) \/ DecideRetryFails(s) \/ GiveSlotBack(s)
             \/ ForgetOwner(s) \/ SessionEnds(s)
      PROVE  AssignInv'
  BY <1>4, ReadingKeeps, ForgettingKeeps, EndingKeeps
<1>5. ASSUME NEW w \in Worker,
             \/ \E s \in Session : Connect(w, s)
             \/ \E t \in Task : ReceiveAssign(w, t) \/ ReceiveCancel(w, t)
             \/ WorkerBeats(w) \/ StreamBreaks(w) \/ WorkerDies(w)
      PROVE  AssignInv'
  BY <1>5, ConnectKeeps, ReceiveAssignKeeps, ReceiveCancelKeeps, BeatKeeps, BreakKeeps,
     DeathKeeps
<1>6. ASSUME NEW e \in execs,
             \/ CaptchaSeen(e) \/ ExecCleansUp(e)
             \/ \E o \in Outcomes(e) : ExecEnds(e, o)
      PROVE  AssignInv'
  BY <1>6, CaptchaKeeps, CleanUpKeeps, EndsKeeps
<1> QED
  BY <1>1, <1>2, <1>3, <1>4, <1>5, <1>6, DispatchBacks, CancelKeeps, MasterDeathKeeps DEF Next

\* Every entry of h.tasks on a live stream is backed by an assignment not yet
\* received, by an execution of that worker or by its final report on the way, or the
\* hub has skipped the release of its task since it was last handed to it, because the
\* statement of a final report failed: in any system, with any number of faults.
THEOREM SystemAssignmentsBacked == Spec => []AssignmentsBacked
<1>1. Init => AssignInv
  BY AssignInvInit
<1>2. SystemInv /\ AssignInv /\ [Next]_vars => AssignInv'
  BY AssignInvStep
<1>3. AssignInv => AssignmentsBacked
  BY DEF AssignInv, EntriesBacked, AssignmentsBacked, Behind, HasAssign, AssignOf, HasFinal,
         IsFinalOf, Runs, ExecsOf, Carries, IsTerminal
<1> QED
  BY <1>1, <1>2, <1>3, SystemCorrect, PTL DEF Spec

-----------------------------------------------------------------------------
(* As long as nothing has failed, rows that say running have work behind   *)
(* them, and executions whose row says queued have their start on the way  *)
(* (TaskControl!RunningIsBacked and QueuedIsUnreported). Both rest on the  *)
(* order of the frames the read loops have yet to act on.                  *)

IsStartOf(m, t) == m.kind = "update" /\ m.task = t /\ m.state \in {"ACCEPTED", "RUNNING"}

HasStart(q, t) == \E i \in DOMAIN q : IsStartOf(q[i], t)

\* Every start of t in q has a final report of t behind it.
NoLooseStart(q, t) ==
  \A i \in DOMAIN q : IsStartOf(q[i], t) => \E j \in DOMAIN q : i < j /\ IsFinalOf(q[j], t)

\* The frames of each session whose status is still to be written: not the one
\* whose handling has gone on to the retry, the slot or the entry.
Unread == [s \in Session |-> IF stage[s] = "recv" THEN inbox[s] ELSE Tail(inbox[s])]

\* No worker has anything left from an earlier stream.
NothingLeft == \A w \in Worker : wout[w] = <<>>

\* Streams and sessions are still in pairs, and work is done on a stream only.
Served ==
  /\ \A s \in Session : session[s] = "open" => Linked(s)
  /\ \A e \in execs : link[e.worker] # NoSession

\* A start still to be read is that of an execution, or followed by a final report.
StartsSettled ==
  \A w \in Worker, t \in Task : link[w] # NoSession =>
    Runs(w, t) \/ NoLooseStart(Unread[link[w]], t)

RunningKept ==
  \A t \in Task : status[t] = "running" =>
    \E w \in Worker : link[w] # NoSession /\ (Runs(w, t) \/ HasFinal(Unread[link[w]], t))

QueuedKept ==
  \A w \in Worker, t \in Task :
    Runs(w, t) /\ status[t] = "queued" => HasStart(Unread[link[w]], t)

Smooth == NothingLeft /\ Served /\ StartsSettled /\ RunningKept /\ QueuedKept

FaultFree == faults = 0 => Smooth

LEMMA FaultFreeInit == Init => FaultFree
BY DEF Init, HubInit, WorkerInit, ServiceInit, FaultFree, Smooth, NothingLeft, Served,
       StartsSettled, RunningKept, QueuedKept, Runs

LEMMA UnreadType ==
  ASSUME SystemInv
  PROVE  Unread \in [Session -> Seq(KnownFrame)]
<1>1. ASSUME NEW s \in Session
      PROVE  (IF stage[s] = "recv" THEN inbox[s] ELSE Tail(inbox[s])) \in Seq(KnownFrame)
  <2>1. inbox[s] \in Seq(KnownFrame)
    BY DEF SystemInv, NamesKnown
  <2>2. stage[s] # "recv" => Tail(inbox[s]) \in Seq(KnownFrame)
    BY <2>1, FrameQueues DEF SystemInv, HubSafe, MidFrameIsTerminal
  <2> QED
    BY <2>1, <2>2
<1> QED
  BY <1>1 DEF Unread

\* Reading the oldest frame.
LEMMA ReadingTail ==
  ASSUME NEW S, NEW q \in Seq(S), q # <<>>, NEW t
  PROVE  /\ HasStart(q, t) /\ ~IsStartOf(Head(q), t) => HasStart(Tail(q), t)
         /\ NoLooseStart(q, t) => NoLooseStart(Tail(q), t)
         /\ NoLooseStart(q, t) /\ IsStartOf(Head(q), t) => HasFinal(Tail(q), t)
<1>1. /\ Tail(q) \in Seq(S)
      /\ Len(Tail(q)) = Len(q) - 1
      /\ \A i \in 1 .. Len(Tail(q)) : Tail(q)[i] = q[i+1]
      /\ Head(q) = q[1]
  BY HeadTailProperties
<1>2. /\ DOMAIN q = 1 .. Len(q) /\ Len(q) \in Nat
      /\ DOMAIN Tail(q) = 1 .. Len(q) - 1
  BY <1>1, LenProperties
<1>3. ASSUME NEW i \in DOMAIN q, i # 1
      PROVE  i - 1 \in DOMAIN Tail(q) /\ Tail(q)[i - 1] = q[i]
  BY <1>1, <1>2, <1>3
<1>4. HasStart(q, t) /\ ~IsStartOf(Head(q), t) => HasStart(Tail(q), t)
  BY <1>1, <1>3 DEF HasStart
<1>5. ASSUME NoLooseStart(q, t), NEW i \in DOMAIN Tail(q), IsStartOf(Tail(q)[i], t)
      PROVE  \E j \in DOMAIN Tail(q) : i < j /\ IsFinalOf(Tail(q)[j], t)
  <2>1. i \in Nat /\ i + 1 \in DOMAIN q /\ Tail(q)[i] = q[i + 1]
    BY <1>1, <1>2
  <2>2. PICK j \in DOMAIN q : i + 1 < j /\ IsFinalOf(q[j], t)
    BY <1>5, <2>1 DEF NoLooseStart
  <2>3. j \in Nat /\ j # 1 /\ i < j - 1
    BY <1>2, <2>1, <2>2
  <2>4. j - 1 \in DOMAIN Tail(q) /\ IsFinalOf(Tail(q)[j - 1], t)
    BY <1>3, <2>2, <2>3
  <2> QED
    BY <2>3, <2>4
<1>6. ASSUME NoLooseStart(q, t), IsStartOf(Head(q), t)
      PROVE  HasFinal(Tail(q), t)
  <2>1. 1 \in DOMAIN q
    BY <1>2, EmptySeq, LenProperties
  <2>2. PICK j \in DOMAIN q : 1 < j /\ IsFinalOf(q[j], t)
    BY <1>1, <1>6, <2>1 DEF NoLooseStart
  <2>3. j - 1 \in DOMAIN Tail(q) /\ IsFinalOf(Tail(q)[j - 1], t)
    BY <1>2, <1>3, <2>2
  <2> QED
    BY <2>3 DEF HasFinal
<1> QED
  BY <1>4, <1>5, <1>6 DEF NoLooseStart

\* Adding a frame behind the others.
LEMMA AddingLast ==
  ASSUME NEW S, NEW q \in Seq(S), NEW m \in S, NEW t
  PROVE  /\ HasFinal(q, t) \/ IsFinalOf(m, t) => HasFinal(Append(q, m), t)
         /\ HasStart(q, t) \/ IsStartOf(m, t) => HasStart(Append(q, m), t)
         /\ IsFinalOf(m, t) => NoLooseStart(Append(q, m), t)
         /\ NoLooseStart(q, t) /\ ~IsStartOf(m, t) => NoLooseStart(Append(q, m), t)
<1> DEFINE r == Append(q, m)
           n == Len(q) + 1
<1>1. /\ r \in Seq(S)
      /\ Len(r) = Len(q) + 1
      /\ \A i \in 1 .. Len(q) : r[i] = q[i]
      /\ r[Len(q) + 1] = m
  BY AppendProperties
<1>2. /\ DOMAIN q = 1 .. Len(q) /\ Len(q) \in Nat
      /\ DOMAIN r = 1 .. Len(q) + 1
  BY <1>1, LenProperties
<1>3. /\ n \in DOMAIN r /\ r[n] = m /\ DOMAIN r \subseteq Nat
      /\ \A i \in DOMAIN q : i \in DOMAIN r /\ r[i] = q[i]
      /\ \A i \in DOMAIN r : i # n => i \in DOMAIN q /\ r[i] = q[i] /\ i < n
  BY <1>1, <1>2
<1> HIDE DEF r, n
<1>4. HasFinal(q, t) \/ IsFinalOf(m, t) => HasFinal(r, t)
  BY <1>3 DEF HasFinal
<1>5. HasStart(q, t) \/ IsStartOf(m, t) => HasStart(r, t)
  BY <1>3 DEF HasStart
<1>6. IsFinalOf(m, t) => ~IsStartOf(m, t)
  BY DEF IsFinalOf, IsStartOf, TerminalState
<1>7. ASSUME IsFinalOf(m, t), NEW i \in DOMAIN r, IsStartOf(r[i], t)
      PROVE  \E j \in DOMAIN r : i < j /\ IsFinalOf(r[j], t)
  BY <1>3, <1>6, <1>7
<1>8. ASSUME NoLooseStart(q, t), ~IsStartOf(m, t), NEW i \in DOMAIN r, IsStartOf(r[i], t)
      PROVE  \E j \in DOMAIN r : i < j /\ IsFinalOf(r[j], t)
  BY <1>3, <1>8 DEF NoLooseStart
<1>9. /\ IsFinalOf(m, t) => NoLooseStart(r, t)
      /\ NoLooseStart(q, t) /\ ~IsStartOf(m, t) => NoLooseStart(r, t)
  BY <1>7, <1>8 DEF NoLooseStart
<1> QED
  BY <1>4, <1>5, <1>9 DEF r

\* An execution under way is about a row there is, on a stream.
LEMMA RunsFacts ==
  ASSUME SystemInv, Smooth, NEW w \in Worker, NEW t, Runs(w, t)
  PROVE  t \in Task /\ status[t] # "none" /\ link[w] \in Session /\ link[w] # NoSession
<1>1. PICK e \in execs : e.worker = w /\ e.task = t /\ e.phase = "run"
  BY DEF Runs
<1>2. t \in Known /\ link[w] # NoSession
  BY <1>1 DEF SystemInv, NamesKnown, Smooth, Served
<1> QED
  BY <1>2, LinkFacts DEF Known

-----------------------------------------------------------------------------
(* What a step may do to rows, frames and executions.                      *)

\* The frames that are read stay as they are, and no row becomes running.
LEMMA NothingRead ==
  ASSUME SystemInv, Smooth, UNCHANGED <<session, link, wout, Unread>>,
         \A e \in execs' : link[e.worker] # NoSession,
         \A w \in Worker, t \in Task : Runs(w, t)' <=> Runs(w, t),
         \A t \in Task : status'[t] = "running" => status[t] = "running",
         \A t \in Task : status'[t] = "queued" => status[t] \in {"none", "queued"}
  PROVE  Smooth'
<1>1. NothingLeft' /\ Served'
  BY DEF Smooth, NothingLeft, Served, Linked
<1>2. StartsSettled'
  BY DEF Smooth, StartsSettled, NoLooseStart
<1>3. RunningKept'
  BY DEF Smooth, RunningKept, HasFinal
<1>4. ASSUME NEW w \in Worker, NEW t \in Task, Runs(w, t), status'[t] = "queued"
      PROVE  HasStart(Unread[link[w]], t)
  BY <1>4, RunsFacts DEF Smooth, QueuedKept
<1>5. QueuedKept'
  BY <1>4 DEF QueuedKept, HasStart
<1> QED
  BY <1>1, <1>2, <1>3, <1>5 DEF Smooth

\* The oldest unread frame m of the open session s is read, and acted on: a start
\* makes its row running, a final report ends it.
LEMMA OneRead ==
  ASSUME SystemInv, Smooth, UNCHANGED <<session, link, wout, execs>>,
         NEW s \in Session, session[s] = "open", Unread[s] # <<>>,
         Unread' = [Unread EXCEPT ![s] = Tail(@)],
         NEW m, m = Head(Unread[s]),
         \A t \in Task : status'[t] = "running" =>
           IsStartOf(m, t) \/ (status[t] = "running" /\ ~IsFinalOf(m, t)),
         \A t \in Task : status'[t] = "queued" =>
           status[t] \in {"none", "queued"} /\ ~IsStartOf(m, t)
  PROVE  Smooth'
<1>1. /\ Unread \in [Session -> Seq(KnownFrame)]
      /\ \A w \in Worker : link[w] # NoSession => link[w] \in Session
  BY UnreadType, LinkFacts
<1>2. NothingLeft' /\ Served'
  BY DEF Smooth, NothingLeft, Served, Linked
<1>3. \A w \in Worker, t \in Task : Runs(w, t)' <=> Runs(w, t)
  BY DEF Runs
<1>4. ASSUME NEW x \in Session, NEW t \in Task
      PROVE  /\ HasFinal(Unread[x], t) /\ ~IsFinalOf(m, t) => HasFinal(Unread'[x], t)
             /\ HasStart(Unread[x], t) /\ ~IsStartOf(m, t) => HasStart(Unread'[x], t)
             /\ NoLooseStart(Unread[x], t) => NoLooseStart(Unread'[x], t)
             /\ x = s /\ NoLooseStart(Unread[x], t) /\ IsStartOf(m, t) => HasFinal(Unread'[x], t)
  <2>1. CASE x # s
    BY <1>1, <2>1
  <2>2. CASE x = s
    <3>1. Unread[s] \in Seq(KnownFrame) /\ Unread'[s] = Tail(Unread[s])
      BY <1>1
    <3> QED
      BY <2>2, <3>1, ReadingTail, TakingKeeps
  <2> QED
    BY <2>1, <2>2
<1>5. ASSUME NEW w \in Worker, NEW t \in Task, link[w] # NoSession
      PROVE  Runs(w, t) \/ NoLooseStart(Unread'[link[w]], t)
  BY <1>1, <1>4, <1>5 DEF Smooth, StartsSettled
<1>6. ASSUME NEW t \in Task, status'[t] = "running"
      PROVE  \E w \in Worker : link[w] # NoSession /\ (Runs(w, t) \/ HasFinal(Unread'[link[w]], t))
  <2>1. CASE IsStartOf(m, t)
    <3>1. PICK w \in Worker : link[w] = s
      BY DEF Smooth, Served, Linked
    <3>2. link[w] # NoSession
      BY <3>1, DeploymentAssumption
    <3>3. Runs(w, t) \/ NoLooseStart(Unread[s], t)
      BY <3>1, <3>2 DEF Smooth, StartsSettled
    <3> QED
      BY <1>4, <2>1, <3>1, <3>2, <3>3
  <2>2. CASE ~IsStartOf(m, t)
    <3>1. PICK w \in Worker : link[w] # NoSession /\ (Runs(w, t) \/ HasFinal(Unread[link[w]], t))
      BY <1>6, <2>2 DEF Smooth, RunningKept
    <3> QED
      BY <1>1, <1>4, <1>6, <2>2, <3>1
  <2> QED
    BY <2>1, <2>2
<1>7. ASSUME NEW w \in Worker, NEW t \in Task, Runs(w, t), status'[t] = "queued"
      PROVE  HasStart(Unread'[link[w]], t)
  <2>1. link[w] \in Session /\ status[t] = "queued" /\ ~IsStartOf(m, t)
    BY <1>7, RunsFacts
  <2>2. HasStart(Unread[link[w]], t)
    BY <1>7, <2>1 DEF Smooth, QueuedKept
  <2> QED
    BY <1>4, <2>1, <2>2
<1>8. StartsSettled'
  BY <1>3, <1>5 DEF StartsSettled, NoLooseStart
<1>9. RunningKept'
  BY <1>3, <1>6 DEF RunningKept, HasFinal
<1>10. QueuedKept'
  BY <1>3, <1>7 DEF QueuedKept, HasStart
<1> QED
  BY <1>2, <1>8, <1>9, <1>10 DEF Smooth

\* Worker v sends one frame m: the start of an execution it begins, the final
\* report of one it ends, or a frame about no task's execution.
LEMMA OneSent ==
  ASSUME SystemInv, AssignInv, Smooth, UNCHANGED <<session, link, wout, status>>,
         NEW v \in Worker, link[v] # NoSession, NEW m \in KnownFrame,
         Unread' = [Unread EXCEPT ![link[v]] = Append(@, m)],
         \A e \in execs' : link[e.worker] # NoSession,
         \A w \in Worker, t \in Task :
           Runs(w, t) => Runs(w, t)' \/ (w = v /\ IsFinalOf(m, t)),
         \A w \in Worker, t \in Task :
           Runs(w, t)' => Runs(w, t) \/ (w = v /\ IsStartOf(m, t)),
         \A t \in Task : IsStartOf(m, t) => Runs(v, t)'
  PROVE  Smooth'
<1>1. /\ Unread \in [Session -> Seq(KnownFrame)]
      /\ \A w \in Worker : link[w] # NoSession => link[w] \in Session
  BY UnreadType, LinkFacts
<1>2. NothingLeft' /\ Served'
  BY DEF Smooth, NothingLeft, Served, Linked
<1>3. ASSUME NEW x \in Session, NEW t \in Task
      PROVE  /\ HasFinal(Unread[x], t) \/ (x = link[v] /\ IsFinalOf(m, t)) => HasFinal(Unread'[x], t)
             /\ HasStart(Unread[x], t) \/ (x = link[v] /\ IsStartOf(m, t)) => HasStart(Unread'[x], t)
             /\ x = link[v] /\ IsFinalOf(m, t) => NoLooseStart(Unread'[x], t)
             /\ NoLooseStart(Unread[x], t) /\ (x = link[v] => ~IsStartOf(m, t))
                => NoLooseStart(Unread'[x], t)
  <2>1. CASE x # link[v]
    BY <1>1, <2>1
  <2>2. CASE x = link[v]
    <3>1. Unread[x] \in Seq(KnownFrame) /\ Unread'[x] = Append(Unread[x], m)
      BY <1>1, <2>2
    <3> QED
      BY <2>2, <3>1, AddingLast
  <2> QED
    BY <2>1, <2>2
<1>4. ASSUME NEW w \in Worker, NEW t \in Task, link[w] # NoSession, ~Runs(w, t)'
      PROVE  NoLooseStart(Unread'[link[w]], t)
  <2>1. CASE Runs(w, t)
    BY <1>1, <1>3, <1>4, <2>1
  <2>2. CASE ~Runs(w, t)
    <3>1. NoLooseStart(Unread[link[w]], t)
      BY <1>4, <2>2 DEF Smooth, StartsSettled
    <3>2. CASE link[w] = link[v] /\ IsStartOf(m, t)
      <4>1. w = v
        BY <1>4, <3>2 DEF AssignInv, LinksDistinct
      <4> QED
        BY <1>4, <3>2, <4>1
    <3> QED
      BY <1>1, <1>3, <1>4, <3>1, <3>2
  <2> QED
    BY <2>1, <2>2
<1>5. ASSUME NEW t \in Task, status[t] = "running"
      PROVE  \E w \in Worker : link[w] # NoSession /\ (Runs(w, t)' \/ HasFinal(Unread'[link[w]], t))
  <2>1. PICK w \in Worker : link[w] # NoSession /\ (Runs(w, t) \/ HasFinal(Unread[link[w]], t))
    BY <1>5 DEF Smooth, RunningKept
  <2> QED
    BY <1>1, <1>3, <2>1
<1>6. ASSUME NEW w \in Worker, NEW t \in Task, Runs(w, t)', status[t] = "queued"
      PROVE  HasStart(Unread'[link[w]], t)
  <2>1. CASE Runs(w, t)
    <3>1. link[w] \in Session /\ HasStart(Unread[link[w]], t)
      BY <1>6, <2>1, RunsFacts DEF Smooth, QueuedKept
    <3> QED
      BY <1>3, <3>1
  <2>2. CASE w = v /\ IsStartOf(m, t)
    BY <1>1, <1>3, <2>2
  <2> QED
    BY <1>6, <2>1, <2>2
<1>7. StartsSettled'
  BY <1>4 DEF StartsSettled, NoLooseStart
<1>8. RunningKept'
  BY <1>5 DEF RunningKept, HasFinal
<1>9. QueuedKept'
  BY <1>6 DEF QueuedKept, HasStart
<1> QED
  BY <1>2, <1>7, <1>8, <1>9 DEF Smooth

-----------------------------------------------------------------------------
(* The steps of the system.                                                *)

\* A frame that needs no more than being read.
LEMMA FrameIsRead ==
  ASSUME SystemInv, NEW s \in Session, NEW kind, Reading(s, kind), Consumed(s), UNCHANGED stage
  PROVE  /\ session[s] = "open" /\ Unread[s] # <<>> /\ Head(Unread[s]).kind = kind
         /\ Head(Unread[s]) = Head(inbox[s])
         /\ Unread' = [Unread EXCEPT ![s] = Tail(@)]
<1>1. inbox \in [Session -> Seq(KnownFrame)]
  BY DEF SystemInv, NamesKnown
<1>2. /\ session[s] = "open" /\ stage[s] = "recv" /\ inbox[s] # <<>> /\ Head(inbox[s]).kind = kind
      /\ inbox' = [inbox EXCEPT ![s] = Tail(@)] /\ stage' = stage
  BY DEF Reading, Consumed
<1>3. Unread[s] = inbox[s]
  BY <1>2 DEF Unread
<1>4. Unread' = [Unread EXCEPT ![s] = Tail(@)]
  BY <1>1, <1>2 DEF Unread
<1> QED
  BY <1>2, <1>3, <1>4

\* A frame whose handling goes on counts as read, and its last step changes nothing.
LEMMA FrameInHand ==
  ASSUME SystemInv, NEW s \in Session
  PROVE  /\ /\ Reading(s, "update") /\ UNCHANGED inbox
            /\ \E st \in {"retry", "slot"} : stage' = [stage EXCEPT ![s] = st]
            => Unread' = [Unread EXCEPT ![s] = Tail(@)]
         /\ /\ stage[s] # "recv" /\ UNCHANGED inbox
            /\ \E st \in {"slot", "forget"} : stage' = [stage EXCEPT ![s] = st]
            => UNCHANGED Unread
         /\ stage[s] # "recv" /\ Consumed(s) /\ stage' = [stage EXCEPT ![s] = "recv"]
            => UNCHANGED Unread
<1>1. inbox \in [Session -> Seq(KnownFrame)] /\ stage \in [Session -> {"recv", "retry", "slot", "forget"}]
  BY DEF SystemInv, NamesKnown, HubTypeOK
<1>2. ASSUME Reading(s, "update"), UNCHANGED inbox,
             NEW st \in {"retry", "slot"}, stage' = [stage EXCEPT ![s] = st]
      PROVE  Unread' = [Unread EXCEPT ![s] = Tail(@)]
  BY <1>1, <1>2 DEF Unread, Reading
<1>3. ASSUME stage[s] # "recv", UNCHANGED inbox,
             NEW st \in {"slot", "forget"}, stage' = [stage EXCEPT ![s] = st]
      PROVE  UNCHANGED Unread
  BY <1>1, <1>3 DEF Unread
<1>4. ASSUME stage[s] # "recv", Consumed(s), stage' = [stage EXCEPT ![s] = "recv"]
      PROVE  UNCHANGED Unread
  BY <1>1, <1>4 DEF Unread, Consumed
<1> QED
  BY <1>2, <1>3, <1>4

\* A frame sent is the last one to be read.
LEMMA FrameIsSent ==
  ASSUME SystemInv, NEW s \in Session, NEW m \in KnownFrame, NEW taken \in BOOLEAN,
         Transfer(s, taken, <<m>>)
  PROVE  Unread' = [Unread EXCEPT ![s] = Append(@, m)]
<1>1. inbox \in [Session -> Seq(KnownFrame)] /\ stage' = stage
  BY DEF SystemInv, NamesKnown, Transfer
<1>2. inbox' = [inbox EXCEPT ![s] = Append(@, m)]
  <2>1. inbox' = [inbox EXCEPT ![s] = @ \o <<m>>]
    BY DEF Transfer
  <2>2. inbox[s] \o <<m>> = Append(inbox[s], m)
    BY <1>1
  <2> QED
    BY <2>1, <2>2
<1>3. CASE stage[s] = "recv"
  BY <1>1, <1>2, <1>3 DEF Unread
<1>4. CASE stage[s] # "recv"
  <2>1. inbox[s] # <<>> /\ inbox[s] \in Seq(KnownFrame)
    BY <1>1, <1>4 DEF SystemInv, HubSafe, MidFrameIsTerminal
  <2>2. Tail(Append(inbox[s], m)) = Append(Tail(inbox[s]), m)
    BY <2>1
  <2> QED
    BY <1>1, <1>2, <1>4, <2>2 DEF Unread
<1> QED
  BY <1>3, <1>4

\* What ends as running, or goes back into the queue, was so before.
LEMMA RowsOnly ==
  ASSUME SystemInv, Smooth, Next, UNCHANGED <<session, link, wout, execs, Unread>>,
         \A t \in Task : status'[t] = "running" => status[t] = "running"
  PROVE  Smooth'
<1>1. \A t \in Task : status'[t] = "queued" => status[t] \in {"none", "queued"}
  BY ServiceView, NeverRequeued DEF SystemInv
<1>2. \A w \in Worker, t \in Task : Runs(w, t)' <=> Runs(w, t)
  BY DEF Runs
<1>3. \A e \in execs' : link[e.worker] # NoSession
  BY DEF Smooth, Served
<1> QED
  BY <1>1, <1>2, <1>3, NothingRead

LEMMA UsersSmooth ==
  ASSUME SystemInv, Smooth, Next,
         \/ \E t \in Task : \/ QueueTask(t) \/ TimePasses(t) \/ CancelBegins(t) \/ CancelErrs(t)
                            \/ DispatchFails(t) \/ DispatchErrs(t)
         \/ SpiderDeleted \/ Scan \/ DispatchRefused
         \/ CancelLooksUp \/ CancelSends \/ CancelPanics
  PROVE  Smooth'
<1>1. status \in [Task -> Status \cup {"none"}]
  BY DEF SystemInv, ServiceInv, ServiceTypeOK
<1>2. UNCHANGED <<session, link, wout, execs, inbox, stage>>
  BY DEF QueueTask, TimePasses, CancelBegins, CancelErrs, DispatchFails, DispatchErrs,
         SpiderDeleted, Scan, DispatchRefused, CancelLooksUp, CancelSends, CancelPanics,
         PushCancel, hubVars, workerVars
<1>3. UNCHANGED Unread
  BY <1>2 DEF Unread
<1>4. \A t \in Task : status'[t] = "running" => status[t] = "running"
  <2>1. ASSUME NEW t \in Task, DispatchFails(t) \/ DispatchErrs(t)
        PROVE  \A u \in Task : status'[u] = "running" => status[u] = "running"
    <3>1. PICK marked, C : BuildAssignFails(t, marked, C)
      BY <2>1 DEF DispatchFails, DispatchErrs
    <3> QED
      BY <3>1 DEF BuildAssignFails
  <2>2. ASSUME NEW t \in Task, CancelErrs(t) \/ CancelBegins(t)
        PROVE  \A u \in Task : status'[u] = "running" => status[u] = "running"
    BY <1>1, <2>2 DEF CancelErrs, CancelBegins, PersistUpdate, CancelRow, SetStatus
  <2> QED
    BY <1>1, <2>1, <2>2
       DEF QueueTask, TimePasses, SpiderDeleted, Scan, DispatchRefused, CancelLooksUp,
           CancelSends, CancelPanics, Queue, Insert, BecomeReady, DeleteSpider, ListQueued,
           Refused, CancelLookedUp, CancelDone, rowVars
<1> QED
  BY <1>2, <1>3, <1>4, RowsOnly

\* A heartbeat, read on its own or in the middle of Assign.
LEMMA BeatIsRead ==
  ASSUME SystemInv, Smooth, NEW s \in Session, Reading(s, "beat"), Consumed(s),
         UNCHANGED <<session, stage, link, wout, execs, status>>
  PROVE  Smooth'
<1> DEFINE m == Head(Unread[s])
<1>1. /\ session[s] = "open" /\ Unread[s] # <<>> /\ m.kind = "beat"
      /\ Unread' = [Unread EXCEPT ![s] = Tail(@)]
  BY FrameIsRead
<1>2. \A t \in Task : ~IsStartOf(m, t) /\ ~IsFinalOf(m, t)
  BY <1>1 DEF IsStartOf, IsFinalOf
<1> HIDE DEF m
<1>3. m = Head(Unread[s])
  BY DEF m
<1> QED
  BY <1>1, <1>2, <1>3, OneRead

LEMMA DispatchSmooth ==
  ASSUME SystemInv, Smooth, Next, NEW t \in Task, NEW s \in Session, Dispatch(t, s)
  PROVE  Smooth'
<1>1. UNCHANGED <<session, stage, link, wout, execs, status>>
  BY DEF Dispatch, Assign, AssignOverHeartbeat, AssignTo, Dispatched, workerVars, rowVars
<1>2. CASE UNCHANGED inbox
  <2>1. UNCHANGED Unread
    BY <1>1, <1>2 DEF Unread
  <2> QED
    BY <1>1, <2>1, RowsOnly
<1>3. CASE Reading(s, "beat") /\ Consumed(s)
  BY <1>1, <1>3, BeatIsRead
<1> QED
  BY <1>2, <1>3 DEF Dispatch, Assign, AssignOverHeartbeat

LEMMA HandlingSmooth ==
  ASSUME SystemInv, Smooth, Next, NEW s \in Session,
         \/ PassOver(s) \/ ReadHeartbeat(s) \/ DecideRetry(s) \/ DecideRetryFails(s)
         \/ GiveSlotBack(s) \/ ForgetOwner(s)
  PROVE  Smooth'
<1>1. UNCHANGED <<session, link, wout, execs>>
  BY DEF PassOver, ReadHeartbeat, DecideRetry, DecideRetryFails, GiveSlotBack, ForgetOwner,
         UndoOverHeartbeat, UndoOverRelease, Heartbeat, RetryDecided, ReleaseSlot, ForgetTask,
         workerVars
<1>2. CASE ReadHeartbeat(s) \/ (PassOver(s) /\ UndoOverHeartbeat(s))
  <2>1. Reading(s, "beat") /\ Consumed(s) /\ UNCHANGED <<stage, status>>
    BY <1>2 DEF ReadHeartbeat, PassOver, Heartbeat, UndoOverHeartbeat, serviceVars, rowVars
  <2> QED
    BY <1>1, <2>1, BeatIsRead
<1>3. CASE \/ PassOver(s) /\ UndoOverRelease(s)
           \/ DecideRetry(s) \/ DecideRetryFails(s) \/ GiveSlotBack(s)
  <2>1. /\ stage[s] # "recv" /\ UNCHANGED inbox
        /\ \E st \in {"slot", "forget"} : stage' = [stage EXCEPT ![s] = st]
    BY <1>3 DEF UndoOverRelease, DecideRetry, DecideRetryFails, GiveSlotBack, RetryDecided,
                ReleaseSlot
  <2>2. UNCHANGED Unread
    BY <2>1, FrameInHand
  <2>3. \A t \in Task : status'[t] = "running" => status[t] = "running"
    <3>1. CASE UNCHANGED status
      BY <3>1
    <3>2. CASE \E c \in Task : \E p, n, due : Insert(c, p, n, due)
      <4>1. PICK c \in Task : status' = [status EXCEPT ![c] = "queued"]
        BY <3>2 DEF Insert
      <4>2. status \in [Task -> Status \cup {"none"}]
        BY DEF SystemInv, ServiceInv, ServiceTypeOK
      <4> QED
        BY <4>1, <4>2
    <3> QED
      BY <1>3, <3>1, <3>2 DEF PassOver, DecideRetry, DecideRetryFails, GiveSlotBack,
         ScheduleRetry, ScheduleRetryFails, RetryRow, serviceVars, rowVars
  <2> QED
    BY <1>1, <2>2, <2>3, RowsOnly
<1>4. CASE ForgetOwner(s)
  <2>1. /\ stage[s] # "recv" /\ Consumed(s) /\ stage' = [stage EXCEPT ![s] = "recv"]
        /\ UNCHANGED status
    BY <1>4 DEF ForgetOwner, ForgetTask, serviceVars, rowVars
  <2>2. UNCHANGED Unread
    BY <2>1, FrameInHand
  <2> QED
    BY <1>1, <2>1, <2>2, RowsOnly
<1> QED
  BY <1>2, <1>3, <1>4 DEF PassOver

\* An update is persisted: its row says what it says.
LEMMA UpdateSmooth ==
  ASSUME SystemInv, Smooth, Next, NEW s \in Session, ReadUpdate(s)
  PROVE  Smooth'
<1> DEFINE m == Head(inbox[s])
           st == MapState(m.state)
<1>1. UNCHANGED <<session, link, wout, execs>> /\ Reading(s, "update") /\ UpdatePersisted(s)
  BY DEF ReadUpdate, UpdatePersisted, workerVars
<1>2. inbox[s] # <<>> /\ m.kind = "update" /\ session[s] = "open" /\ stage[s] = "recv"
  BY <1>1 DEF Reading
<1>3. m.task \in Task /\ m.state \in TaskState
  BY <1>2, UpdateFacts
<1>4. Unread[s] = inbox[s]
  BY <1>2 DEF Unread
<1>5. Unread' = [Unread EXCEPT ![s] = Tail(@)]
  <2>1. CASE m.state \in TerminalState
    <3>1. UNCHANGED inbox /\ \E g \in {"retry", "slot"} : stage' = [stage EXCEPT ![s] = g]
      BY <1>1, <2>1 DEF UpdatePersisted
    <3> QED
      BY <1>1, <3>1, FrameInHand
  <2>2. CASE m.state \notin TerminalState
    <3>1. Consumed(s) /\ UNCHANGED stage
      BY <1>1, <2>2 DEF UpdatePersisted
    <3> QED
      BY <1>1, <3>1, FrameIsRead
  <2> QED
    BY <2>1, <2>2
<1>6. status' = [status EXCEPT ![m.task] = st] /\ status \in [Task -> Status \cup {"none"}]
  BY DEF ReadUpdate, PersistUpdate, SetStatus, SystemInv, ServiceInv, ServiceTypeOK
<1>7. st # "queued" /\ (st = "running" <=> m.state \notin TerminalState)
  BY <1>3 DEF MapState, TaskState, TerminalState
<1>8. \A t \in Task : /\ IsStartOf(m, t) <=> t = m.task /\ m.state \notin TerminalState
                      /\ IsFinalOf(m, t) <=> t = m.task /\ m.state \in TerminalState
  BY <1>2, <1>3 DEF IsStartOf, IsFinalOf, TaskState, TerminalState
<1> HIDE DEF m, st
<1>9. \A t \in Task : status'[t] = "running" =>
        IsStartOf(m, t) \/ (status[t] = "running" /\ ~IsFinalOf(m, t))
  BY <1>6, <1>7, <1>8
<1>10. \A t \in Task : status'[t] = "queued" => status[t] \in {"none", "queued"} /\ ~IsStartOf(m, t)
  BY <1>6, <1>7, <1>8
<1>11. Unread[s] # <<>> /\ m = Head(Unread[s])
  BY <1>2, <1>4 DEF m
<1> QED
  BY <1>1, <1>2, <1>5, <1>9, <1>10, <1>11, OneRead

\* Executions of the others are no matter of a step of one worker's.
LEMMA ReceiveAssignSmooth ==
  ASSUME SystemInv, AssignInv, Smooth, NEW v \in Worker, NEW t \in Task, ReceiveAssign(v, t)
  PROVE  Smooth'
<1>1. /\ link[v] # NoSession /\ Transfer(link[v], TRUE, <<StartOf(t)>>) /\ StartTask(v, t)
      /\ UNCHANGED status
  BY DEF ReceiveAssign, serviceVars, rowVars
<1>2. link[v] \in Session /\ StartOf(t) \in KnownFrame
  <2>1. Head(outbox[link[v]]) \in KnownPush
    BY LinkFacts, FrameQueues DEF ReceiveAssign
  <2>2. t \in Known
    BY <2>1 DEF ReceiveAssign, KnownPush
  <2> QED
    BY <1>1, <2>2, LinkFacts, StartReport
<1>3. Unread' = [Unread EXCEPT ![link[v]] = Append(@, StartOf(t))]
  BY <1>1, <1>2, FrameIsSent
<1>4. UNCHANGED <<session, link, wout>>
  BY <1>1 DEF Transfer, StartTask, Send
<1>5. PICK e : execs' = execs \cup {e} /\ e.worker = v /\ e.task = t /\ e.phase = "run"
  <2>1. PICK i \in ExecId :
          execs' = execs \cup {[id |-> i, worker |-> v, task |-> t, phase |-> "run",
                                cancelled |-> FALSE, captcha |-> FALSE]}
    BY <1>1 DEF StartTask
  <2> DEFINE e == [id |-> i, worker |-> v, task |-> t, phase |-> "run",
                   cancelled |-> FALSE, captcha |-> FALSE]
  <2>2. execs' = execs \cup {e} /\ e.worker = v /\ e.task = t /\ e.phase = "run"
    BY <2>1
  <2> HIDE DEF e
  <2> QED
    BY <2>2
<1>6. \A w \in Worker, u \in Task : Runs(w, u)' <=> Runs(w, u) \/ (w = v /\ u = t)
  BY <1>5 DEF Runs
<1>7. \A f \in execs' : link[f.worker] # NoSession
  BY <1>1, <1>5 DEF Smooth, Served
<1>8. \A u \in Task : IsStartOf(StartOf(t), u) <=> u = t
  BY DEF IsStartOf, StartOf, Update
<1> QED
  BY <1>1, <1>2, <1>3, <1>4, <1>6, <1>7, <1>8, OneSent

\* What an execution, or the worker itself, reports on its stream.
LEMMA ReportIsSent ==
  ASSUME SystemInv, AssignInv, Smooth, NEW v \in Worker, link[v] # NoSession,
         NEW m \in KnownFrame, \A t \in Task : ~IsStartOf(m, t),
         OnStream(v, <<m>>), UNCHANGED <<link, wout, status>>,
         \A e \in execs' : link[e.worker] # NoSession,
         \A w \in Worker, t \in Task :
           Runs(w, t) => Runs(w, t)' \/ (w = v /\ IsFinalOf(m, t)),
         \A w \in Worker, t \in Task : Runs(w, t)' => Runs(w, t)
  PROVE  Smooth'
<1>1. Transfer(link[v], FALSE, <<m>>) /\ link[v] \in Session
  BY LinkFacts DEF OnStream
<1>2. Unread' = [Unread EXCEPT ![link[v]] = Append(@, m)]
  BY <1>1, FrameIsSent
<1>3. UNCHANGED session
  BY <1>1 DEF Transfer
<1> QED
  BY <1>2, <1>3, OneSent

LEMMA ReportsSmooth ==
  ASSUME SystemInv, AssignInv, Smooth, NEW e \in execs,
         CaptchaSeen(e) \/ \E o \in Outcomes(e) : ExecEnds(e, o)
  PROVE  Smooth'
<1>1. /\ e \in Exec /\ e.worker \in Worker /\ link[e.worker] # NoSession
      /\ UNCHANGED <<link, wout, status>>
  BY ExecReports DEF SystemInv, WorkerInv, WorkerTypeOK, Smooth, Served, CaptchaSeen,
     ExecEnds, ReportCaptcha, Finish, Send, serviceVars, rowVars
<1>2. PICK f, m : /\ execs' = (execs \ {e}) \cup {f}
                  /\ f.worker = e.worker /\ f.task = e.task
                  /\ f.phase = "run" \/ IsFinalOf(m, e.task)
                  /\ e.phase = "run"
                  /\ m \in KnownFrame /\ m.state \in TerminalState
                  /\ OnStream(e.worker, <<m>>)
  <2>1. CASE CaptchaSeen(e)
    <3> DEFINE f == [e EXCEPT !.captcha = TRUE]
               m == CaptchaOf(e.task)
    <3>1. /\ execs' = (execs \ {e}) \cup {f} /\ OnStream(e.worker, <<m>>)
          /\ e.phase = "run" /\ m \in KnownFrame
      BY <2>1, ExecReports DEF CaptchaSeen, ReportCaptcha, Replace
    <3>2. f.worker = e.worker /\ f.task = e.task /\ f.phase = "run"
      BY <1>1, <3>1 DEF Exec
    <3>3. m.state \in TerminalState
      BY DEF CaptchaOf, Update, TerminalState, TaskState
    <3> HIDE DEF f, m
    <3> QED
      BY <3>1, <3>2, <3>3
  <2>2. CASE \E o \in Outcomes(e) : ExecEnds(e, o)
    <3>1. PICK o \in Outcomes(e) : ExecEnds(e, o)
      BY <2>2
    <3> DEFINE f == [e EXCEPT !.phase = "done"]
               m == FinalOf(e.task, o)
    <3>2. /\ execs' = (execs \ {e}) \cup {f} /\ OnStream(e.worker, <<m>>)
          /\ e.phase = "run" /\ m \in KnownFrame
      BY <3>1, ExecReports DEF ExecEnds, Finish, Replace
    <3>3. f.worker = e.worker /\ f.task = e.task
      BY <1>1 DEF Exec
    <3>4. m.state \in TerminalState /\ IsFinalOf(m, e.task)
      BY <1>1, OutcomeType DEF FinalOf, Update, IsFinalOf
    <3> HIDE DEF f, m
    <3> QED
      BY <3>2, <3>3, <3>4
  <2> QED
    BY <2>1, <2>2
<1>3. \A t \in Task : ~IsStartOf(m, t)
  BY <1>2 DEF IsStartOf, TerminalState
<1>4. \A g \in execs' : link[g.worker] # NoSession
  BY <1>1, <1>2 DEF Smooth, Served
<1>5. \A w \in Worker, t \in Task :
        Runs(w, t) => Runs(w, t)' \/ (w = e.worker /\ IsFinalOf(m, t))
  <2> SUFFICES ASSUME NEW w \in Worker, NEW t \in Task, Runs(w, t)
               PROVE  Runs(w, t)' \/ (w = e.worker /\ IsFinalOf(m, t))
    OBVIOUS
  <2>1. PICK g \in execs : g.worker = w /\ g.task = t /\ g.phase = "run"
    BY DEF Runs
  <2>2. CASE g = e
    BY <1>2, <2>1, <2>2 DEF Runs
  <2>3. CASE g # e
    BY <1>2, <2>1, <2>3 DEF Runs
  <2> QED
    BY <2>2, <2>3
<1>6. \A w \in Worker, t \in Task : Runs(w, t)' => Runs(w, t)
  BY <1>2 DEF Runs
<1> QED
  BY <1>1, <1>2, <1>3, <1>4, <1>5, <1>6, ReportIsSent

LEMMA BeatSmooth ==
  ASSUME SystemInv, AssignInv, Smooth, NEW v \in Worker, WorkerBeats(v)
  PROVE  Smooth'
<1>1. /\ link[v] # NoSession /\ OnStream(v, <<BeatOf(v)>>)
      /\ UNCHANGED <<link, wout, execs, status>>
  BY DEF WorkerBeats, Beat, workerVars, serviceVars, rowVars
<1>2. BeatOf(v) \in KnownFrame
  BY DEF BeatOf, KnownFrame, WorkerMsg, BeatMsg, SystemInv, WorkerInv, WorkerTypeOK
<1>3. \A t \in Task : ~IsStartOf(BeatOf(v), t)
  BY DEF IsStartOf, BeatOf
<1>4. \A w \in Worker, t \in Task : Runs(w, t)' <=> Runs(w, t)
  BY <1>1 DEF Runs
<1>5. \A e \in execs' : link[e.worker] # NoSession
  BY <1>1 DEF Smooth, Served
<1> QED
  BY <1>1, <1>2, <1>3, <1>4, <1>5, ReportIsSent

\* A cancellation received and a goroutine's clean-up say nothing to the master.
LEMMA SilentSmooth ==
  ASSUME SystemInv, Smooth, Next,
         \/ \E w \in Worker, t \in Task : ReceiveCancel(w, t)
         \/ \E e \in execs : ExecCleansUp(e)
  PROVE  Smooth'
<1>1. UNCHANGED <<session, link, wout, status>>
  BY DEF ReceiveCancel, ExecCleansUp, Transfer, CancelTask, CleanUp, hubVars, serviceVars, rowVars
<1>2. UNCHANGED Unread
  <2>1. CASE \E w \in Worker, t \in Task : ReceiveCancel(w, t)
    <3>1. PICK w \in Worker : link[w] # NoSession /\ Transfer(link[w], TRUE, <<>>)
      BY <2>1 DEF ReceiveCancel
    <3>2. inbox \in [Session -> Seq(KnownFrame)] /\ link[w] \in Session
      BY <3>1, LinkFacts DEF SystemInv, NamesKnown
    <3>3. inbox[link[w]] \o <<>> = inbox[link[w]]
      BY <3>2
    <3>4. UNCHANGED <<inbox, stage>>
      BY <3>1, <3>2, <3>3 DEF Transfer
    <3> QED
      BY <3>4 DEF Unread
  <2>2. CASE \E e \in execs : ExecCleansUp(e)
    BY <2>2 DEF ExecCleansUp, hubVars, Unread
  <2> QED
    BY <2>1, <2>2
<1>3. /\ \A e \in execs' : link[e.worker] # NoSession
      /\ \A w \in Worker, t \in Task : Runs(w, t)' <=> Runs(w, t)
  <2>1. ASSUME NEW v \in Worker, NEW u \in Task, ReceiveCancel(v, u)
        PROVE  /\ \A e \in execs' : link[e.worker] # NoSession
               /\ \A w \in Worker, t \in Task : Runs(w, t)' <=> Runs(w, t)
    <3> DEFINE Now(e) == IF e.worker = v /\ e.id = handle[v][u]
                         THEN [e EXCEPT !.cancelled = TRUE] ELSE e
    <3>1. execs' = {Now(e) : e \in execs}
      BY <2>1 DEF ReceiveCancel, CancelTask
    <3>2. ASSUME NEW e \in execs
          PROVE  Now(e).worker = e.worker /\ Now(e).task = e.task /\ Now(e).phase = e.phase
      <4>1. e \in Exec
        BY DEF SystemInv, WorkerInv, WorkerTypeOK
      <4> QED
        BY <4>1 DEF Exec
    <3> HIDE DEF Now
    <3>3. \A e \in execs' : link[e.worker] # NoSession
      BY <3>1, <3>2 DEF Smooth, Served
    <3>4. \A w \in Worker, t \in Task : Runs(w, t)' <=> Runs(w, t)
      BY <3>1, <3>2 DEF Runs
    <3> QED
      BY <3>3, <3>4
  <2>2. ASSUME NEW e \in execs, ExecCleansUp(e)
        PROVE  /\ \A f \in execs' : link[f.worker] # NoSession
               /\ \A w \in Worker, t \in Task : Runs(w, t)' <=> Runs(w, t)
    <3>1. e.phase = "done" /\ execs' = execs \ {e}
      BY <2>2 DEF ExecCleansUp, CleanUp
    <3> QED
      BY <3>1 DEF Runs, Smooth, Served
  <2> QED
    BY <2>1, <2>2
<1> QED
  BY <1>1, <1>2, <1>3, NothingRead

\* The stream of a worker that had none: nothing waits for it on either side.
LEMMA ConnectSmooth ==
  ASSUME SystemInv, Smooth, NEW v \in Worker, NEW s \in Session, Connect(v, s)
  PROVE  Smooth'
<1>1. /\ link[v] = NoSession /\ link' = [link EXCEPT ![v] = s]
      /\ session' = [session EXCEPT ![s] = "open"]
      /\ inbox' = [inbox EXCEPT ![s] = <<>>]
      /\ wout' = [wout EXCEPT ![v] = <<>>]
      /\ UNCHANGED <<execs, stage, status>>
  BY DEF Connect, Join, Register, Smooth, NothingLeft, serviceVars, rowVars
<1>2. /\ link \in [Worker -> Session \cup {NoSession}] /\ inbox \in [Session -> Seq(KnownFrame)]
      /\ session \in [Session -> {"unused", "open", "closed"}]
      /\ wout \in [Worker -> Seq(KnownFrame)]
  BY DEF SystemInv, NamesKnown, WorkerInv, WorkerTypeOK, HubTypeOK
<1>3. inbox[s] = <<>> /\ UNCHANGED <<inbox, Unread>>
  <2>1. session[s] = "unused" /\ inbox[s] = <<>>
    BY DEF Connect, Register, SystemInv, HubSafe, ClosedIsQuiet
  <2> QED
    BY <1>1, <1>2, <2>1 DEF Unread
<1>4. \A w \in Worker, t \in Task : Runs(w, t)' <=> Runs(w, t)
  BY <1>1 DEF Runs
<1>5. \A w \in Worker : link[w] # NoSession => w # v /\ link'[w] = link[w]
  BY <1>1, <1>2
<1>6. NothingLeft' /\ Served'
  <2>1. NothingLeft'
    BY <1>1, <1>2 DEF Smooth, NothingLeft
  <2>2. ASSUME NEW x \in Session, session'[x] = "open"
        PROVE  \E w \in Worker : link'[w] = x
    <3>1. CASE x = s
      BY <1>1, <1>2, <3>1
    <3>2. CASE x # s
      <4>1. PICK w \in Worker : link[w] = x
        BY <1>1, <1>2, <2>2, <3>2 DEF Smooth, Served, Linked
      <4>2. link'[w] = x
        BY <1>5, <4>1, DeploymentAssumption
      <4> QED
        BY <4>2
    <3> QED
      BY <3>1, <3>2
  <2>3. ASSUME NEW e \in execs
        PROVE  link'[e.worker] # NoSession
    BY <1>5, ExecReports DEF Smooth, Served
  <2> QED
    BY <1>1, <2>1, <2>2, <2>3 DEF Served, Linked
<1>7. ASSUME NEW w \in Worker, NEW t \in Task, link'[w] # NoSession
      PROVE  Runs(w, t) \/ NoLooseStart(Unread[link'[w]], t)
  <2>1. CASE w = v
    <3>1. stage[s] = "recv"
      BY DEF Connect, Register, SystemInv, HubSafe, ClosedIsQuiet
    <3>2. Unread[s] = <<>> /\ link'[w] = s
      BY <1>1, <1>2, <1>3, <2>1, <3>1 DEF Unread
    <3> QED
      BY <3>2 DEF NoLooseStart
  <2>2. CASE w # v
    BY <1>1, <1>2, <1>7, <2>2 DEF Smooth, StartsSettled
  <2> QED
    BY <2>1, <2>2
<1>8. ASSUME NEW t \in Task, status[t] = "running"
      PROVE  \E w \in Worker : link'[w] # NoSession /\ (Runs(w, t) \/ HasFinal(Unread[link'[w]], t))
  <2>1. PICK w \in Worker : link[w] # NoSession /\ (Runs(w, t) \/ HasFinal(Unread[link[w]], t))
    BY <1>8 DEF Smooth, RunningKept
  <2> QED
    BY <1>5, <2>1
<1>9. ASSUME NEW w \in Worker, NEW t \in Task, Runs(w, t), status[t] = "queued"
      PROVE  HasStart(Unread[link'[w]], t)
  BY <1>5, <1>9, RunsFacts DEF Smooth, QueuedKept
<1>10. StartsSettled'
  BY <1>3, <1>4, <1>7 DEF StartsSettled, NoLooseStart
<1>11. RunningKept'
  BY <1>1, <1>3, <1>4, <1>8 DEF RunningKept, HasFinal
<1>12. QueuedKept'
  BY <1>1, <1>3, <1>4, <1>9 DEF QueuedKept, HasStart
<1> QED
  BY <1>6, <1>10, <1>11, <1>12 DEF Smooth

\* Every fault counts.
LEMMA FaultsCount ==
  ASSUME BudgetTypeOK, Fault
  PROVE  faults' # 0
<1>1. faults' = faults + 1
  BY DEF Fault
<1> QED
  BY <1>1 DEF BudgetTypeOK

LEMMA FaultsStay ==
  ASSUME BudgetTypeOK, [Next]_vars, faults' = 0
  PROVE  faults = 0 /\ ~Fault
<1>1. ~Fault
  BY FaultsCount
<1>2. UNCHANGED faults
  BY <1>1
     DEF Next, vars, budgetVars, QueueTask, TimePasses, CancelBegins, CancelErrs, DispatchFails,
         DispatchErrs, Dispatch, SpiderDeleted, Scan, DispatchRefused, CancelLooksUp,
         CancelSends, CancelPanics, PassOver, ReadHeartbeat, ReadUpdate, ReadUpdateFails,
         DecideRetry, DecideRetryFails, StatementFails, GiveSlotBack, ForgetOwner,
         SessionEnds, Connect, ReceiveAssign, ReceiveCancel, WorkerBeats, CaptchaSeen,
         ExecCleansUp, ExecEnds, Breaks, StreamBreaks, WorkerDies, MasterDies
<1> QED
  BY <1>1, <1>2

LEMMA FaultFreeStep ==
  ASSUME SystemInv, BudgetTypeOK, AssignInv, FaultFree, [Next]_vars
  PROVE  FaultFree'
<1> SUFFICES ASSUME faults' = 0 PROVE Smooth'
  BY DEF FaultFree
<1>0. Smooth /\ ~Fault
  BY FaultsStay DEF FaultFree
<1>1. CASE UNCHANGED vars
  <2>1. UNCHANGED <<session, link, wout, execs, status, inbox, stage>>
    BY <1>1 DEF vars, hubVars, workerVars, serviceVars, rowVars
  <2>2. UNCHANGED Unread /\ (\A w \in Worker, t \in Task : Runs(w, t)' <=> Runs(w, t))
    BY <2>1 DEF Unread, Runs
  <2>3. \A e \in execs' : link[e.worker] # NoSession
    BY <1>0, <2>1 DEF Smooth, Served
  <2> QED
    BY <1>0, <2>1, <2>2, <2>3, NothingRead
<1>2. CASE Next
  <2>1. CASE \/ \E t \in Task : \/ QueueTask(t) \/ TimePasses(t) \/ CancelBegins(t) \/ CancelErrs(t)
                                \/ DispatchFails(t) \/ DispatchErrs(t)
             \/ SpiderDeleted \/ Scan \/ DispatchRefused
             \/ CancelLooksUp \/ CancelSends \/ CancelPanics
    BY <1>0, <1>2, <2>1, UsersSmooth
  <2>2. ASSUME NEW t \in Task, NEW s \in Session, Dispatch(t, s)
        PROVE  Smooth'
    BY <1>0, <1>2, <2>2, DispatchSmooth
  <2>3. ASSUME NEW s \in Session,
               \/ PassOver(s) \/ ReadHeartbeat(s) \/ DecideRetry(s) \/ DecideRetryFails(s)
               \/ GiveSlotBack(s) \/ ForgetOwner(s)
        PROVE  Smooth'
    BY <1>0, <1>2, <2>3, HandlingSmooth
  <2>4. ASSUME NEW s \in Session, ReadUpdate(s)
        PROVE  Smooth'
    BY <1>0, <1>2, <2>4, UpdateSmooth
  <2>5. ASSUME NEW s \in Session, ReadUpdateFails(s) \/ SessionEnds(s)
        PROVE  FALSE
    <3>1. session[s] = "open" /\ (~Linked(s) \/ StatementFails(s))
      BY <2>5 DEF ReadUpdateFails, SessionEnds, UpdateFailed, Reading, Unregister
    <3> QED
      BY <1>0, <3>1 DEF StatementFails, Smooth, Served
  <2>6. ASSUME NEW w \in Worker, NEW t \in Task, ReceiveAssign(w, t)
        PROVE  Smooth'
    BY <1>0, <2>6, ReceiveAssignSmooth
  <2>7. CASE \/ \E w \in Worker, t \in Task : ReceiveCancel(w, t)
             \/ \E e \in execs : ExecCleansUp(e)
    BY <1>0, <1>2, <2>7, SilentSmooth
  <2>8. ASSUME NEW w \in Worker, (\E s \in Session : Connect(w, s)) \/ WorkerBeats(w)
        PROVE  Smooth'
    BY <1>0, <2>8, ConnectSmooth, BeatSmooth
  <2>9. ASSUME NEW e \in execs, CaptchaSeen(e) \/ \E o \in Outcomes(e) : ExecEnds(e, o)
        PROVE  Smooth'
    BY <1>0, <2>9, ReportsSmooth
  <2>10. ~MasterDies /\ \A w \in Worker : ~StreamBreaks(w) /\ ~WorkerDies(w)
    BY <1>0 DEF MasterDies, StreamBreaks, WorkerDies, Breaks
  <2> QED
    BY <1>2, <2>1, <2>2, <2>3, <2>4, <2>5, <2>6, <2>7, <2>8, <2>9, <2>10 DEF Next
<1> QED
  BY <1>1, <1>2

\* A frame still to be read is on its way.
LEMMA UnreadIsUnderWay ==
  ASSUME SystemInv, NEW s \in Session, NEW i \in DOMAIN Unread[s]
  PROVE  \E j \in DOMAIN inbox[s] : inbox[s][j] = Unread[s][i]
<1>1. CASE stage[s] = "recv"
  BY <1>1 DEF Unread
<1>2. CASE stage[s] # "recv"
  <2>1. inbox[s] \in Seq(KnownFrame) /\ inbox[s] # <<>> /\ Unread[s] = Tail(inbox[s])
    BY <1>2 DEF Unread, SystemInv, NamesKnown, HubSafe, MidFrameIsTerminal
  <2>2. /\ Tail(inbox[s]) \in Seq(KnownFrame)
        /\ Len(Tail(inbox[s])) = Len(inbox[s]) - 1
        /\ \A k \in 1 .. Len(Tail(inbox[s])) : Tail(inbox[s])[k] = inbox[s][k + 1]
    BY <2>1, HeadTailProperties
  <2>3. i + 1 \in DOMAIN inbox[s] /\ inbox[s][i + 1] = Unread[s][i]
    BY <2>1, <2>2, LenProperties
  <2> QED
    BY <2>3
<1> QED
  BY <1>1, <1>2

LEMMA FaultFreeCorrect == Spec => []FaultFree
<1>1. Init => AssignInv /\ FaultFree
  BY AssignInvInit, FaultFreeInit
<1>2. SystemInv /\ BudgetTypeOK /\ AssignInv /\ FaultFree /\ [Next]_vars => AssignInv' /\ FaultFree'
  BY AssignInvStep, FaultFreeStep
<1> QED
  BY <1>1, <1>2, SystemCorrect, PTL DEF Spec

\* As long as nothing has failed, a row that says running has an execution, or its
\* final report is on the way: however often the row was handed out, cancelled or
\* reported as blocked by a captcha, and on however many workers.
THEOREM SystemRunningIsBacked == Spec => []RunningIsBacked
<1>1. SystemInv /\ FaultFree => RunningIsBacked
  <2> SUFFICES ASSUME SystemInv, FaultFree, faults = 0, NEW t \in Task, status[t] = "running"
               PROVE  Executing(t) \/ UnderWay(t, IsTerminal)
    BY DEF RunningIsBacked
  <2>1. PICK w \in Worker : link[w] # NoSession /\ (Runs(w, t) \/ HasFinal(Unread[link[w]], t))
    BY DEF FaultFree, Smooth, RunningKept
  <2>2. CASE Runs(w, t)
    BY <2>2 DEF Runs, Executing
  <2>3. CASE HasFinal(Unread[link[w]], t)
    <3>1. link[w] \in Session
      BY <2>1, LinkFacts
    <3>2. PICK j \in DOMAIN inbox[link[w]] : IsFinalOf(inbox[link[w]][j], t)
      BY <2>3, <3>1, UnreadIsUnderWay DEF HasFinal
    <3> QED
      BY <3>1, <3>2 DEF UnderWay, Carries, IsTerminal, IsFinalOf
  <2> QED
    BY <2>1, <2>2, <2>3
<1> QED
  BY <1>1, SystemCorrect, FaultFreeCorrect, PTL

\* As long as nothing has failed, an execution whose row still says queued has its
\* start on the way: the window in which the dispatcher hands a row out again ends.
THEOREM SystemQueuedIsUnreported == Spec => []QueuedIsUnreported
<1>1. SystemInv /\ FaultFree => QueuedIsUnreported
  <2> SUFFICES ASSUME SystemInv, FaultFree, faults = 0,
                      NEW t \in Task, status[t] = "queued", Executing(t)
               PROVE  UnderWay(t, IsStart)
    BY DEF QueuedIsUnreported
  <2>1. PICK e \in execs : e.task = t /\ e.phase = "run"
    BY DEF Executing
  <2>2. e.worker \in Worker /\ Runs(e.worker, t)
    BY <2>1, ExecReports DEF Runs
  <2>3. link[e.worker] \in Session /\ HasStart(Unread[link[e.worker]], t)
    BY <2>2, RunsFacts DEF FaultFree, Smooth, QueuedKept
  <2>4. PICK j \in DOMAIN inbox[link[e.worker]] : IsStartOf(inbox[link[e.worker]][j], t)
    BY <2>3, UnreadIsUnderWay DEF HasStart
  <2> QED
    BY <2>3, <2>4 DEF UnderWay, Carries, IsStart, IsStartOf
<1> QED
  BY <1>1, SystemCorrect, FaultFreeCorrect, PTL
=============================================================================
