-------------------------- MODULE Component_proofs --------------------------
(***************************************************************************)
(* What each part of the system keeps true on its own, in any environment: *)
(* the hub whatever the workers send and whatever the task service asks of *)
(* it, a worker whatever the master sends and whenever its stream breaks,  *)
(* and the task service whatever updates come in and whatever the hub      *)
(* answers: proofs about HubSpec, WorkerSpec and ServiceSpec.              *)
(***************************************************************************)
EXTENDS WorkerHub, WorkerRuntime, TaskService, SequenceTheorems, FiniteSetTheorems, TLAPS

(* The hub.                                                                *)

-----------------------------------------------------------------------------
(* Queues of frames.                                                       *)

\* Taking the oldest frame, adding frames and cutting the queue stay among frames.
LEMMA FrameQueues ==
  ASSUME NEW S, NEW q \in Seq(S)
  PROVE  /\ q # <<>> => Tail(q) \in Seq(S) /\ Head(q) \in S
         /\ \A x \in S : Append(q, x) \in Seq(S)
         /\ \A r \in Seq(S) : q \o r \in Seq(S)
         /\ \A n \in 0 .. Len(q) : SubSeq(q, 1, n) \in Seq(S)
         /\ \A m \in 1 .. Len(q) + 1 : SubSeq(q, m, Len(q)) \in Seq(S)
         /\ q # <<>> => \A r \in Seq(S) : q \o r # <<>> /\ Head(q \o r) = Head(q)
         /\ \A n \in 1 .. Len(q) : SubSeq(q, 1, n) # <<>> /\ Head(SubSeq(q, 1, n)) = Head(q)
<1>1. q # <<>> => Tail(q) \in Seq(S) /\ Head(q) \in S
  BY HeadTailProperties
<1>2. \A x \in S : Append(q, x) \in Seq(S)
  BY AppendProperties
<1>3. \A r \in Seq(S) : q \o r \in Seq(S)
  BY ConcatProperties
<1>4. \A n \in 0 .. Len(q) : SubSeq(q, 1, n) \in Seq(S)
  BY SubSeqProperties, LenProperties
<1>5. \A m \in 1 .. Len(q) + 1 : SubSeq(q, m, Len(q)) \in Seq(S)
  BY SubSeqProperties, LenProperties
<1>6. q # <<>> => \A r \in Seq(S) : q \o r # <<>> /\ Head(q \o r) = Head(q)
  <2> SUFFICES ASSUME q # <<>>, NEW r \in Seq(S)
               PROVE  q \o r # <<>> /\ Head(q \o r) = Head(q)
    OBVIOUS
  <2>1. Len(q) \in Nat \ {0} /\ Len(r) \in Nat
    BY EmptySeq, LenProperties
  <2>2. /\ q \o r \in Seq(S)
        /\ Len(q \o r) > 0
        /\ (q \o r)[1] = q[1]
    BY <2>1, ConcatProperties
  <2> QED
    BY <2>2
<1>7. \A n \in 1 .. Len(q) : SubSeq(q, 1, n) # <<>> /\ Head(SubSeq(q, 1, n)) = Head(q)
  <2> SUFFICES ASSUME NEW n \in 1 .. Len(q)
               PROVE  SubSeq(q, 1, n) # <<>> /\ Head(SubSeq(q, 1, n)) = Head(q)
    OBVIOUS
  <2>1. Len(q) \in Nat /\ \A i \in 1 .. n : q[i] \in S
    BY LenProperties, ElementOfSeq
  <2>2. /\ SubSeq(q, 1, n) \in Seq(S)
        /\ Len(SubSeq(q, 1, n)) > 0
        /\ SubSeq(q, 1, n)[1] = q[1]
    BY <2>1, SubSeqProperties
  <2> QED
    BY <2>2
<1> QED
  BY <1>1, <1>2, <1>3, <1>4, <1>5, <1>6, <1>7

\* Cutting a queue of frames leaves the oldest one where it is.
LEMMA CutKeepsHead ==
  ASSUME HubTypeOK, NEW s \in Session, NEW n \in 1 .. Len(inbox[s])
  PROVE  SubSeq(inbox[s], 1, n) # <<>> /\ Head(SubSeq(inbox[s], 1, n)) = Head(inbox[s])
<1>1. inbox[s] \in Seq(WorkerMsg)
  BY DEF HubTypeOK
<1> QED
  BY <1>1, FrameQueues

\* The fields of a frame, by kind.
LEMMA FrameFields ==
  ASSUME NEW m \in WorkerMsg
  PROVE  /\ m.kind \in {"update", "beat"}
         /\ m.kind = "beat" => m.free \in Int
         /\ m.kind = "update" => /\ m.task \in Task
                                 /\ m.state \in TaskState
                                 /\ m.class \in ErrorClass
BY DEF WorkerMsg, UpdateMsg, BeatMsg

LEMMA Frames ==
  ASSUME HubTypeOK, NEW s \in Session, inbox[s] # <<>>
  PROVE  Head(inbox[s]) \in WorkerMsg /\ Tail(inbox[s]) \in Seq(WorkerMsg)
BY FrameQueues DEF HubTypeOK

-----------------------------------------------------------------------------
(* Types.                                                                  *)

LEMMA HubTypeInit == HubInit => HubTypeOK
BY DEF HubInit, HubTypeOK, MasterMsg

LEMMA ConsumedType ==
  ASSUME HubTypeOK, NEW s \in Session, inbox[s] # <<>>, Consumed(s)
  PROVE  inbox' \in [Session -> Seq(WorkerMsg)]
BY Frames DEF HubTypeOK, Consumed

\* Every step of the hub keeps the types of its variables.
LEMMA HubTypeStep ==
  ASSUME HubTypeOK, MidFrameIsTerminal, [HubNext]_hubVars
  PROVE  HubTypeOK'
<1> USE HubAssumption, DeploymentAssumption
<1>1. CASE UNCHANGED hubVars
  BY <1>1 DEF HubTypeOK, hubVars
<1>2. CASE HubCrash
  BY <1>2 DEF HubTypeOK, HubCrash
<1>3. ASSUME NEW s \in Session, NEW ms \in Seq(WorkerMsg), Register(s, ms)
      PROVE  HubTypeOK'
  BY <1>3 DEF HubTypeOK, Register
<1>4. ASSUME NEW s \in Session, Unregister(s)
      PROVE  HubTypeOK'
  BY <1>4 DEF HubTypeOK, Unregister
<1>5. ASSUME NEW s \in Session, Heartbeat(s)
      PROVE  HubTypeOK'
  BY <1>5, ConsumedType, Frames, FrameFields DEF HubTypeOK, Heartbeat, Reading
<1>6. ASSUME NEW s \in Session, UpdatePersisted(s)
      PROVE  HubTypeOK'
  BY <1>6, ConsumedType DEF HubTypeOK, UpdatePersisted, Reading
<1>7. ASSUME NEW s \in Session, UpdateFailed(s)
      PROVE  HubTypeOK'
  BY <1>7, ConsumedType DEF HubTypeOK, UpdateFailed, Reading
<1>8. ASSUME NEW s \in Session, RetryDecided(s)
      PROVE  HubTypeOK'
  BY <1>8 DEF HubTypeOK, RetryDecided
<1>9. ASSUME NEW s \in Session, ReleaseSlot(s)
      PROVE  HubTypeOK'
  BY <1>9 DEF HubTypeOK, ReleaseSlot
<1>10. ASSUME NEW s \in Session, UndoOverHeartbeat(s)
       PROVE  HubTypeOK'
  BY <1>10, ConsumedType, Frames, FrameFields DEF HubTypeOK, UndoOverHeartbeat, Reading
<1>11. ASSUME NEW s \in Session, UndoOverRelease(s)
       PROVE  HubTypeOK'
  BY <1>11 DEF HubTypeOK, UndoOverRelease
<1>12. ASSUME NEW s \in Session, NEW taken \in BOOLEAN, NEW ms \in Seq(WorkerMsg),
              Transfer(s, taken, ms)
       PROVE  HubTypeOK'
  BY <1>12, FrameQueues DEF HubTypeOK, Transfer
<1>13. ASSUME NEW s \in Session, NEW n \in Nat, CutAfter(s, n)
       PROVE  HubTypeOK'
  BY <1>13, FrameQueues DEF HubTypeOK, CutAfter, BeingHandled
<1>14. ASSUME NEW s \in Session, NEW t \in Task, AssignTo(t, s),
              inbox' \in [Session -> Seq(WorkerMsg)]
       PROVE  HubTypeOK'
  BY <1>14, FrameQueues DEF HubTypeOK, AssignTo, MasterMsg
<1>15. ASSUME NEW s \in Session, NEW t \in Task, PushCancel(s, t)
       PROVE  HubTypeOK'
  <2>1. [kind |-> "cancel", task |-> t] \in MasterMsg
    BY DEF MasterMsg
  <2>2. Append(outbox[s], [kind |-> "cancel", task |-> t]) \in Seq(MasterMsg)
    BY <2>1, FrameQueues DEF HubTypeOK
  <2> QED
    BY <1>15, <2>2 DEF HubTypeOK, PushCancel
<1>16. ASSUME NEW s \in Session, ForgetTask(s)
       PROVE  HubTypeOK'
  <2>1. inbox[s] # <<>>
    BY <1>16 DEF MidFrameIsTerminal, ForgetTask
  <2> QED
    BY <1>16, <2>1, ConsumedType DEF HubTypeOK, ForgetTask
<1>17. ASSUME NEW s \in Session, NEW t \in Task, Assign(t, s)
       PROVE  HubTypeOK'
  BY <1>14, <1>17 DEF Assign, HubTypeOK
<1>18. ASSUME NEW s \in Session, NEW t \in Task, AssignOverHeartbeat(t, s)
       PROVE  HubTypeOK'
  BY <1>14, <1>18, ConsumedType DEF AssignOverHeartbeat, Reading
<1> QED
  BY <1>1, <1>2, <1>3, <1>4, <1>5, <1>6, <1>7, <1>8, <1>9, <1>10, <1>11, <1>12, <1>13,
     <1>15, <1>16, <1>17, <1>18 DEF HubNext, HubStep

-----------------------------------------------------------------------------
(* Sessions, owners and frames.                                            *)

HubSafe == OwnerIsOpen /\ ClosedIsQuiet /\ MidFrameIsTerminal

LEMMA HubSafeInit == HubInit => HubSafe
BY DeploymentAssumption
   DEF HubInit, HubSafe, OwnerIsOpen, ClosedIsQuiet, MidFrameIsTerminal

\* The entries of the hub, its sessions and the frame in hand stay consistent. The
\* three parts need one another: a release is only safe in a session that is open,
\* and only because the frame it is about is still the first of its queue.
LEMMA HubSafeStep ==
  ASSUME HubTypeOK, HubSafe, [HubNext]_hubVars
  PROVE  HubSafe'
<1> USE DeploymentAssumption
<1> USE DEF HubSafe, OwnerIsOpen, ClosedIsQuiet, MidFrameIsTerminal, HubTypeOK
<1>1. CASE UNCHANGED hubVars
  BY <1>1 DEF hubVars
<1>2. CASE HubCrash
  BY <1>2 DEF HubCrash
<1>3. ASSUME NEW s \in Session, NEW ms \in Seq(WorkerMsg), Register(s, ms)
      PROVE  HubSafe'
  BY <1>3 DEF Register
<1>4. ASSUME NEW s \in Session, Unregister(s)
      PROVE  HubSafe'
  BY <1>4 DEF Unregister
<1>5. ASSUME NEW s \in Session, Heartbeat(s)
      PROVE  HubSafe'
  BY <1>5 DEF Heartbeat, Reading, Consumed
<1>6. ASSUME NEW s \in Session, UpdatePersisted(s)
      PROVE  HubSafe'
  BY <1>6 DEF UpdatePersisted, Reading, Consumed
<1>7. ASSUME NEW s \in Session, UpdateFailed(s)
      PROVE  HubSafe'
  BY <1>7 DEF UpdateFailed, Reading, Consumed
<1>8. ASSUME NEW s \in Session, RetryDecided(s)
      PROVE  HubSafe'
  BY <1>8 DEF RetryDecided
<1>9. ASSUME NEW s \in Session, ReleaseSlot(s)
      PROVE  HubSafe'
  BY <1>9 DEF ReleaseSlot
<1>10. ASSUME NEW s \in Session, UndoOverHeartbeat(s)
       PROVE  HubSafe'
  BY <1>10 DEF UndoOverHeartbeat, Reading, Consumed
<1>11. ASSUME NEW s \in Session, UndoOverRelease(s)
       PROVE  HubSafe'
  BY <1>11 DEF UndoOverRelease
<1>12. ASSUME NEW s \in Session, NEW taken \in BOOLEAN, NEW ms \in Seq(WorkerMsg),
              Transfer(s, taken, ms)
       PROVE  HubSafe'
  <2>1. OwnerIsOpen' /\ ClosedIsQuiet'
    BY <1>12 DEF Transfer
  <2>2. MidFrameIsTerminal'
    BY <1>12, FrameQueues DEF Transfer
  <2> QED
    BY <2>1, <2>2
<1>13. ASSUME NEW s \in Session, NEW n \in Nat, CutAfter(s, n)
       PROVE  HubSafe'
  <2>1. OwnerIsOpen' /\ ClosedIsQuiet'
    BY <1>13 DEF CutAfter
  <2>2. stage[s] # "recv" => n \in 1 .. Len(inbox[s])
    BY <1>13 DEF CutAfter, BeingHandled
  <2>3. stage[s] # "recv" =>
          /\ SubSeq(inbox[s], 1, n) # <<>>
          /\ Head(SubSeq(inbox[s], 1, n)) = Head(inbox[s])
    BY <2>2, CutKeepsHead
  <2>4. inbox' = [inbox EXCEPT ![s] = SubSeq(inbox[s], 1, n)] /\ UNCHANGED <<session, stage>>
    BY <1>13 DEF CutAfter
  <2>5. MidFrameIsTerminal'
    <3> SUFFICES ASSUME NEW r \in Session, stage[r] # "recv"
                 PROVE  /\ inbox'[r] # <<>>
                        /\ Head(inbox'[r]).kind = "update"
                        /\ Head(inbox'[r]).state \in TerminalState
      BY <2>4
    <3>1. inbox'[r] # <<>> /\ Head(inbox'[r]) = Head(inbox[r])
      BY <2>3, <2>4
    <3> QED
      BY <3>1
  <2> QED
    BY <2>1, <2>5
<1>14. ASSUME NEW s \in Session, NEW t \in Task, Assign(t, s)
       PROVE  HubSafe'
  BY <1>14 DEF Assign, AssignTo, Assignable
<1>15. ASSUME NEW s \in Session, NEW t \in Task, AssignOverHeartbeat(t, s)
       PROVE  HubSafe'
  BY <1>15 DEF AssignOverHeartbeat, AssignTo, Assignable, Reading, Consumed
<1>16. ASSUME NEW s \in Session, NEW t \in Task, PushCancel(s, t)
       PROVE  HubSafe'
  BY <1>16 DEF PushCancel
<1>17. ASSUME NEW s \in Session, ForgetTask(s)
       PROVE  HubSafe'
  BY <1>17 DEF ForgetTask, Consumed
<1> QED
  BY <1>1, <1>2, <1>3, <1>4, <1>5, <1>6, <1>7, <1>8, <1>9, <1>10, <1>11, <1>12, <1>13,
     <1>14, <1>15, <1>16, <1>17 DEF HubNext, HubStep

-----------------------------------------------------------------------------
(* What the queues hold.                                                   *)

\* The hub makes nothing up: if the frames it is given are in F and the tasks in T,
\* its inboxes hold frames of F and its outboxes messages about tasks of T.
LEMMA HubQueuesStep ==
  ASSUME HubTypeOK, HubSafe, NEW F, NEW T,
         inbox \in [Session -> Seq(F)],
         outbox \in [Session -> Seq([kind : {"assign", "cancel"}, task : T])],
         [HubStep(F, T)]_hubVars
  PROVE  /\ inbox' \in [Session -> Seq(F)]
         /\ outbox' \in [Session -> Seq([kind : {"assign", "cancel"}, task : T])]
<1> DEFINE M == [kind : {"assign", "cancel"}, task : T]
<1> USE DEF HubSafe
<1>1. ASSUME NEW s \in Session, inbox[s] # <<>>, Consumed(s)
      PROVE  inbox' \in [Session -> Seq(F)]
  BY <1>1, FrameQueues DEF Consumed
<1>2. CASE UNCHANGED <<inbox, outbox>>
  BY <1>2
<1>3. CASE HubCrash
  BY <1>3 DEF HubCrash
<1>4. ASSUME NEW s \in Session, NEW ms \in Seq(F), Register(s, ms)
      PROVE  inbox' \in [Session -> Seq(F)] /\ UNCHANGED outbox
  BY <1>4 DEF Register
<1>5. ASSUME NEW s \in Session, Unregister(s)
      PROVE  inbox' \in [Session -> Seq(F)] /\ outbox' \in [Session -> Seq(M)]
  <2>1. <<>> \in Seq(F) /\ <<>> \in Seq(M)
    BY EmptySeq
  <2> QED
    BY <1>5, <2>1 DEF Unregister
<1>6. ASSUME NEW s \in Session,
             Heartbeat(s) \/ UpdatePersisted(s) \/ UpdateFailed(s) \/ UndoOverHeartbeat(s)
      PROVE  inbox' \in [Session -> Seq(F)] /\ UNCHANGED outbox
  <2>1. inbox[s] # <<>> /\ UNCHANGED outbox
    BY <1>6 DEF Heartbeat, UpdatePersisted, UpdateFailed, UndoOverHeartbeat, Reading
  <2>2. Consumed(s) \/ UNCHANGED inbox
    BY <1>6 DEF Heartbeat, UpdatePersisted, UpdateFailed, UndoOverHeartbeat
  <2> QED
    BY <1>1, <2>1, <2>2
<1>7. ASSUME NEW s \in Session, ForgetTask(s)
      PROVE  inbox' \in [Session -> Seq(F)] /\ UNCHANGED outbox
  BY <1>1, <1>7 DEF ForgetTask, MidFrameIsTerminal
<1>8. ASSUME NEW s \in Session, NEW taken \in BOOLEAN, NEW ms \in Seq(F),
             Transfer(s, taken, ms)
      PROVE  inbox' \in [Session -> Seq(F)] /\ outbox' \in [Session -> Seq(M)]
  <2>1. inbox[s] \o ms \in Seq(F) /\ (taken => Tail(outbox[s]) \in Seq(M))
    BY <1>8, FrameQueues DEF Transfer
  <2> QED
    BY <1>8, <2>1 DEF Transfer
<1>9. ASSUME NEW s \in Session, NEW n \in Nat, CutAfter(s, n)
      PROVE  inbox' \in [Session -> Seq(F)] /\ UNCHANGED outbox
  <2>1. SubSeq(inbox[s], 1, n) \in Seq(F)
    BY <1>9, FrameQueues DEF CutAfter, BeingHandled
  <2> QED
    BY <1>9, <2>1 DEF CutAfter
<1>10. ASSUME NEW s \in Session, NEW t \in T, NEW k \in {"assign", "cancel"}
       PROVE  [outbox EXCEPT ![s] = Append(@, [kind |-> k, task |-> t])] \in [Session -> Seq(M)]
  <2>1. [kind |-> k, task |-> t] \in M
    OBVIOUS
  <2>2. Append(outbox[s], [kind |-> k, task |-> t]) \in Seq(M)
    BY <2>1, FrameQueues
  <2> QED
    BY <2>2
<1>11. ASSUME NEW s \in Session, NEW t \in T, PushCancel(s, t)
       PROVE  UNCHANGED inbox /\ outbox' \in [Session -> Seq(M)]
  BY <1>10, <1>11 DEF PushCancel
<1>12. ASSUME NEW s \in Session, NEW t \in T, Assign(t, s) \/ AssignOverHeartbeat(t, s)
       PROVE  inbox' \in [Session -> Seq(F)] /\ outbox' \in [Session -> Seq(M)]
  <2>1. outbox' \in [Session -> Seq(M)]
    <3>1. outbox' = [outbox EXCEPT ![s] = Append(@, [kind |-> "assign", task |-> t])]
      BY <1>12 DEF Assign, AssignOverHeartbeat, AssignTo
    <3> QED
      BY <1>10, <3>1
  <2>2. inbox' \in [Session -> Seq(F)]
    BY <1>1, <1>12 DEF Assign, AssignOverHeartbeat, Reading
  <2> QED
    BY <2>1, <2>2
<1> QED
  BY <1>2, <1>3, <1>4, <1>5, <1>6, <1>7, <1>8, <1>9, <1>11, <1>12
     DEF HubStep, hubVars, RetryDecided, ReleaseSlot, UndoOverRelease

-----------------------------------------------------------------------------
\* The hub keeps its types and its maps consistent under any use of it: h.tasks
\* names open sessions only, a closed session is quiet, and the frame being
\* handled is the first of its queue (connect, readLoop, Assign, releaseTask).
THEOREM HubCorrect == HubSpec => [](HubTypeOK /\ HubSafe)
<1>1. HubInit => HubTypeOK /\ HubSafe
  BY HubTypeInit, HubSafeInit
<1>2. HubTypeOK /\ HubSafe /\ [HubNext]_hubVars => (HubTypeOK /\ HubSafe)'
  BY HubTypeStep, HubSafeStep DEF HubSafe
<1> QED
  BY <1>1, <1>2, PTL DEF HubSpec

\* OwnerIsOpen: an entry of h.tasks never outlives its session.
THEOREM HubOwnerIsOpen == HubSpec => []OwnerIsOpen
<1>1. HubTypeOK /\ HubSafe => OwnerIsOpen
  BY DEF HubSafe
<1> QED
  BY HubCorrect, <1>1, PTL

\* ClosedIsQuiet: unregister leaves nothing of a session behind.
THEOREM HubClosedIsQuiet == HubSpec => []ClosedIsQuiet
<1>1. HubTypeOK /\ HubSafe => ClosedIsQuiet
  BY DEF HubSafe
<1> QED
  BY HubCorrect, <1>1, PTL

-----------------------------------------------------------------------------
(* The workers.                                                            *)

\* No two executions share an id, and there are finitely many of them.
UniqueIds == \A e, f \in execs : e.id = f.id => e = f

WorkerInv ==
  /\ WorkerTypeOK
  /\ IsFiniteSet(execs)
  /\ UniqueIds
  /\ WorkerSlotsExact
  /\ HandleIsLive

-----------------------------------------------------------------------------
(* Lemmas about sets of executions.                                        *)

LEMMA ExecsOfFinite ==
  ASSUME IsFiniteSet(execs), NEW w \in Worker
  PROVE  IsFiniteSet(ExecsOf(w)) /\ Cardinality(ExecsOf(w)) \in Nat
<1>1. ExecsOf(w) \subseteq execs
  BY DEF ExecsOf
<1> QED
  BY <1>1, FS_Subset, FS_CardinalityType

\* A step that changes executions one by one, and neither their ids nor whose and
\* of what they are, changes no worker's number of executions and no handle's target.
LEMMA Relabelling ==
  ASSUME WorkerInv, NEW g \in [execs -> Exec], execs' = {g[e] : e \in execs},
         \A e \in execs : /\ g[e].id = e.id
                          /\ g[e].worker = e.worker
                          /\ g[e].task = e.task,
         UNCHANGED <<handle, wfree>>
  PROVE  /\ execs' \subseteq Exec
         /\ IsFiniteSet(execs')
         /\ UniqueIds'
         /\ WorkerSlotsExact'
         /\ HandleIsLive'
<1>1. execs' \subseteq Exec
  OBVIOUS
<1>2. IsFiniteSet(execs')
  <2>1. g \in Surjection(execs, execs')
    BY DEF Surjection
  <2> QED
    BY <2>1, FS_Surjection DEF WorkerInv
<1>3. UniqueIds'
  BY DEF WorkerInv, UniqueIds
<1>4. WorkerSlotsExact'
  <2> SUFFICES ASSUME NEW w \in Worker
               PROVE  Cardinality(ExecsOf(w)') = Cardinality(ExecsOf(w))
    BY DEF WorkerSlotsExact, WorkerInv
  <2> DEFINE h == [e \in ExecsOf(w) |-> g[e]]
  <2>1. h \in Surjection(ExecsOf(w), ExecsOf(w)')
    BY DEF Surjection, ExecsOf
  <2>2. h \in Injection(ExecsOf(w), ExecsOf(w)')
    <3>1. \A e, f \in ExecsOf(w) : h[e] = h[f] => e = f
      BY DEF ExecsOf, WorkerInv, UniqueIds
    <3>2. h \in [ExecsOf(w) -> ExecsOf(w)']
      BY DEF ExecsOf
    <3> QED
      BY <3>1, <3>2 DEF Injection, IsInjective
  <2>3. IsFiniteSet(ExecsOf(w))
    BY ExecsOfFinite DEF WorkerInv
  <2> QED
    BY <2>1, <2>2, <2>3, FS_Surjection
<1>5. HandleIsLive'
  BY DEF WorkerInv, HandleIsLive
<1> QED
  BY <1>1, <1>2, <1>3, <1>4, <1>5

\* Replacing one execution by the same one in a later phase is such a step.
LEMMA Replacing ==
  ASSUME WorkerInv, NEW e \in execs, NEW f \in Exec, Replace(e, f),
         f.id = e.id, f.worker = e.worker, f.task = e.task,
         UNCHANGED <<handle, wfree>>
  PROVE  /\ execs' \subseteq Exec
         /\ IsFiniteSet(execs')
         /\ UniqueIds'
         /\ WorkerSlotsExact'
         /\ HandleIsLive'
<1> DEFINE g == [x \in execs |-> IF x = e THEN f ELSE x]
<1>1. g \in [execs -> Exec]
  BY DEF WorkerInv, WorkerTypeOK
<1>2. execs' = {g[x] : x \in execs}
  BY DEF Replace
<1>3. \A x \in execs : g[x].id = x.id /\ g[x].worker = x.worker /\ g[x].task = x.task
  OBVIOUS
<1> HIDE DEF g
<1> QED
  BY <1>1, <1>2, <1>3, Relabelling

LEMMA CancelledIsExec ==
  ASSUME NEW e \in Exec
  PROVE  /\ [e EXCEPT !.cancelled = TRUE] \in Exec
         /\ [e EXCEPT !.cancelled = TRUE].id = e.id
         /\ [e EXCEPT !.cancelled = TRUE].worker = e.worker
         /\ [e EXCEPT !.cancelled = TRUE].task = e.task
BY DEF Exec

\* Sending keeps the outbox a queue of frames.
LEMMA SendType ==
  ASSUME WorkerTypeOK, NEW w \in Worker, NEW m \in WorkerMsg, Send(w, <<m>>)
  PROVE  wout' \in [Worker -> Seq(WorkerMsg)]
<1>1. wout[w] \o <<m>> \in Seq(WorkerMsg)
  BY ConcatProperties DEF WorkerTypeOK
<1> QED
  BY <1>1 DEF WorkerTypeOK, Send

\* What the executor returns ends an assignment.
LEMMA OutcomeType ==
  ASSUME NEW e \in Exec, NEW o \in Outcomes(e)
  PROVE  o[1] \in TerminalState /\ o[2] \in ErrorClass
<1>1. o \in EveryEnding \cup {<<"CANCELLED", "">>, <<"CAPTCHA", "captcha">>}
  <2>1. CASE e.cancelled /\ ~e.captcha
    BY <2>1 DEF Outcomes, ResultsOf, EveryEnding
  <2>2. CASE e.cancelled /\ e.captcha
    BY <2>2 DEF Outcomes, ResultsOf, EveryEnding
  <2>3. CASE ~e.cancelled /\ e.captcha
    BY <2>3 DEF Outcomes, ResultsOf, EveryEnding
  <2>4. CASE ~e.cancelled /\ ~e.captcha
    BY <2>4, WorkerAssumption DEF Outcomes, ResultsOf
  <2> QED
    BY <2>1, <2>2, <2>3, <2>4 DEF Exec
<1>2. PICK a \in TerminalState, b \in ErrorClass : o = <<a, b>>
  BY <1>1 DEF EveryEnding, TerminalState, TaskState, ErrorClass
<1> QED
  BY <1>2

\* What an execution reports is a frame.
LEMMA ReportType ==
  ASSUME NEW e \in Exec
  PROVE  /\ StartOf(e.task) \in WorkerMsg
         /\ CaptchaOf(e.task) \in WorkerMsg
         /\ \A o \in Outcomes(e) : FinalOf(e.task, o) \in WorkerMsg
<1>1. e.task \in Task
  BY DEF Exec
<1>2. \A o \in Outcomes(e) : o[1] \in TaskState /\ o[2] \in ErrorClass
  BY OutcomeType DEF TerminalState
<1> QED
  BY <1>1, <1>2
     DEF StartOf, CaptchaOf, FinalOf, Update, WorkerMsg, UpdateMsg, TaskState, ErrorClass

-----------------------------------------------------------------------------
(* The invariant.                                                          *)

LEMMA WorkerInit_Inv == WorkerInit => WorkerInv
<1> SUFFICES ASSUME WorkerInit PROVE WorkerInv
  OBVIOUS
<1>1. WorkerTypeOK
  BY DeploymentAssumption DEF WorkerInit, WorkerTypeOK
<1>2. IsFiniteSet(execs) /\ UniqueIds /\ HandleIsLive
  BY FS_EmptySet DEF WorkerInit, UniqueIds, HandleIsLive
<1>3. WorkerSlotsExact
  <2>1. \A w \in Worker : ExecsOf(w) = {}
    BY DEF WorkerInit, ExecsOf
  <2>2. \A w \in Worker : Cardinality(ExecsOf(w)) = 0
    BY <2>1, FS_EmptySet
  <2> QED
    BY <2>2, DeploymentAssumption DEF WorkerInit, WorkerSlotsExact
<1> QED
  BY <1>1, <1>2, <1>3 DEF WorkerInv

\* Steps that leave executions, handles and slots alone.
LEMMA QuietStep ==
  ASSUME WorkerInv, UNCHANGED <<execs, handle, wfree>>, WorkerTypeOK'
  PROVE  WorkerInv'
BY DEF WorkerInv, UniqueIds, WorkerSlotsExact, HandleIsLive, ExecsOf

LEMMA WorkerCrashStep ==
  ASSUME WorkerInv, NEW w \in Worker, WorkerCrash(w)
  PROVE  WorkerInv'
<1>1. WorkerTypeOK'
  BY DeploymentAssumption DEF WorkerInv, WorkerTypeOK, WorkerCrash
<1>2. IsFiniteSet(execs)' /\ UniqueIds'
  BY FS_Subset DEF WorkerInv, WorkerCrash, UniqueIds
<1>3. HandleIsLive'
  <2> SUFFICES ASSUME NEW v \in Worker, NEW u \in Task, handle'[v][u] # 0
               PROVE  \E e \in execs' : /\ e.id = handle'[v][u]
                                        /\ e.worker = v
                                        /\ e.task = u
    BY DEF HandleIsLive
  <2>1. v # w /\ handle'[v][u] = handle[v][u]
    BY DEF WorkerInv, WorkerTypeOK, WorkerCrash
  <2>2. PICK e \in execs : e.id = handle[v][u] /\ e.worker = v /\ e.task = u
    BY <2>1 DEF WorkerInv, HandleIsLive
  <2> QED
    BY <2>1, <2>2 DEF WorkerCrash, ExecsOf
<1>4. ExecsOf(w)' = {} /\ \A v \in Worker \ {w} : ExecsOf(v)' = ExecsOf(v)
  BY DEF WorkerCrash, ExecsOf
<1>5. WorkerSlotsExact'
  <2> SUFFICES ASSUME NEW v \in Worker
               PROVE  wfree'[v] = Concurrency - Cardinality(ExecsOf(v)')
    BY DEF WorkerSlotsExact
  <2>1. CASE v = w
    <3>1. Cardinality(ExecsOf(v)') = 0
      BY <1>4, <2>1, FS_EmptySet
    <3>2. wfree'[v] = Concurrency
      BY <2>1 DEF WorkerInv, WorkerTypeOK, WorkerCrash
    <3> QED
      BY <3>1, <3>2, DeploymentAssumption
  <2>2. CASE v # w
    BY <1>4, <2>2 DEF WorkerInv, WorkerTypeOK, WorkerCrash, WorkerSlotsExact
  <2> QED
    BY <2>1, <2>2
<1> QED
  BY <1>1, <1>2, <1>3, <1>5 DEF WorkerInv

LEMMA StartTaskStep ==
  ASSUME WorkerInv, NEW w \in Worker, NEW t \in Task, StartTask(w, t)
  PROVE  WorkerInv'
<1>1. PICK i \in ExecId :
        /\ \A e \in execs : e.id # i
        /\ execs' = execs \cup {[id |-> i, worker |-> w, task |-> t, phase |-> "run",
                                 cancelled |-> FALSE, captcha |-> FALSE]}
        /\ handle' = [handle EXCEPT ![w][t] = i]
  BY DEF StartTask
<1> DEFINE x == [id |-> i, worker |-> w, task |-> t, phase |-> "run",
                 cancelled |-> FALSE, captcha |-> FALSE]
<1>2. x \in Exec /\ x \notin execs /\ x.id = i /\ x.worker = w /\ x.task = t
  BY <1>1 DEF Exec
<1>3. execs' = execs \cup {x}
  BY <1>1
<1> HIDE DEF x
<1>4. wfree' = [wfree EXCEPT ![w] = @ - 1] /\ UNCHANGED link /\ Send(w, <<StartOf(t)>>)
  BY DEF StartTask
<1>5. WorkerTypeOK'
  <2>1. StartOf(t) \in WorkerMsg
    BY <1>2, ReportType
  <2>2. wout' \in [Worker -> Seq(WorkerMsg)]
    BY <1>4, <2>1, SendType DEF WorkerInv
  <2>3. execs' \subseteq Exec
    BY <1>2, <1>3 DEF WorkerInv, WorkerTypeOK
  <2>4. handle' \in [Worker -> [Task -> ExecId \cup {0}]]
    BY <1>1 DEF WorkerInv, WorkerTypeOK
  <2>5. wfree' \in [Worker -> Int]
    BY <1>4 DEF WorkerInv, WorkerTypeOK
  <2> QED
    BY <1>4, <2>2, <2>3, <2>4, <2>5 DEF WorkerInv, WorkerTypeOK
<1>6. IsFiniteSet(execs)'
  BY <1>3, FS_AddElement DEF WorkerInv
<1>7. UniqueIds'
  BY <1>1, <1>2, <1>3 DEF WorkerInv, UniqueIds
<1>8. HandleIsLive'
  <2> SUFFICES ASSUME NEW v \in Worker, NEW u \in Task, handle'[v][u] # 0
               PROVE  \E e \in execs' : /\ e.id = handle'[v][u]
                                        /\ e.worker = v
                                        /\ e.task = u
    BY DEF HandleIsLive
  <2>1. CASE v = w /\ u = t
    BY <1>1, <1>2, <1>3, <2>1 DEF WorkerInv, WorkerTypeOK
  <2>2. CASE ~(v = w /\ u = t)
    <3>1. handle'[v][u] = handle[v][u]
      BY <1>1, <2>2 DEF WorkerInv, WorkerTypeOK
    <3> QED
      BY <1>3, <3>1 DEF WorkerInv, HandleIsLive
  <2> QED
    BY <2>1, <2>2
<1>9. WorkerSlotsExact'
  <2> SUFFICES ASSUME NEW v \in Worker
               PROVE  wfree'[v] = Concurrency - Cardinality(ExecsOf(v)')
    BY DEF WorkerSlotsExact
  <2>1. CASE v = w
    <3>1. ExecsOf(v)' = ExecsOf(v) \cup {x} /\ x \notin ExecsOf(v)
      BY <1>2, <1>3, <2>1 DEF ExecsOf
    <3>2. Cardinality(ExecsOf(v)') = Cardinality(ExecsOf(v)) + 1
      BY <3>1, ExecsOfFinite, FS_AddElement DEF WorkerInv
    <3> QED
      BY <1>4, <2>1, <3>2, ExecsOfFinite, DeploymentAssumption
         DEF WorkerInv, WorkerTypeOK, WorkerSlotsExact
  <2>2. CASE v # w
    <3>1. ExecsOf(v)' = ExecsOf(v)
      BY <1>2, <1>3, <2>2 DEF ExecsOf
    <3> QED
      BY <1>4, <2>2, <3>1 DEF WorkerInv, WorkerTypeOK, WorkerSlotsExact
  <2> QED
    BY <2>1, <2>2
<1> QED
  BY <1>5, <1>6, <1>7, <1>8, <1>9 DEF WorkerInv

LEMMA CleanUpStep ==
  ASSUME WorkerInv, NEW e \in execs, CleanUp(e)
  PROVE  WorkerInv'
<1>1. e \in Exec /\ e.worker \in Worker /\ e.task \in Task
  BY DEF WorkerInv, WorkerTypeOK, Exec
<1>2. /\ execs' = execs \ {e}
      /\ handle' = [handle EXCEPT ![e.worker][e.task] = 0]
      /\ wfree' = [wfree EXCEPT ![e.worker] = @ + 1]
      /\ UNCHANGED <<link, wout>>
  BY DEF CleanUp
<1>3. WorkerTypeOK'
  <2>1. handle' \in [Worker -> [Task -> ExecId \cup {0}]]
    BY <1>1, <1>2 DEF WorkerInv, WorkerTypeOK
  <2>2. wfree' \in [Worker -> Int]
    BY <1>1, <1>2 DEF WorkerInv, WorkerTypeOK
  <2> QED
    BY <1>2, <2>1, <2>2 DEF WorkerInv, WorkerTypeOK
<1>4. IsFiniteSet(execs)' /\ UniqueIds'
  BY <1>2, FS_RemoveElement DEF WorkerInv, UniqueIds
<1>5. HandleIsLive'
  <2> SUFFICES ASSUME NEW v \in Worker, NEW u \in Task, handle'[v][u] # 0
               PROVE  \E f \in execs' : /\ f.id = handle'[v][u]
                                        /\ f.worker = v
                                        /\ f.task = u
    BY DEF HandleIsLive
  <2>1. ~(v = e.worker /\ u = e.task) /\ handle'[v][u] = handle[v][u]
    BY <1>1, <1>2 DEF WorkerInv, WorkerTypeOK
  <2>2. PICK f \in execs : f.id = handle[v][u] /\ f.worker = v /\ f.task = u
    BY <2>1 DEF WorkerInv, HandleIsLive
  <2> QED
    BY <1>2, <2>1, <2>2
<1>6. WorkerSlotsExact'
  <2> SUFFICES ASSUME NEW v \in Worker
               PROVE  wfree'[v] = Concurrency - Cardinality(ExecsOf(v)')
    BY DEF WorkerSlotsExact
  <2>1. CASE v = e.worker
    <3>1. ExecsOf(v)' = ExecsOf(v) \ {e} /\ e \in ExecsOf(v)
      BY <1>2, <2>1 DEF ExecsOf
    <3>2. Cardinality(ExecsOf(v)') = Cardinality(ExecsOf(v)) - 1
      BY <3>1, ExecsOfFinite, FS_RemoveElement DEF WorkerInv
    <3> QED
      BY <1>2, <2>1, <3>2, ExecsOfFinite, DeploymentAssumption
         DEF WorkerInv, WorkerTypeOK, WorkerSlotsExact
  <2>2. CASE v # e.worker
    <3>1. ExecsOf(v)' = ExecsOf(v)
      BY <1>2, <2>2 DEF ExecsOf
    <3> QED
      BY <1>2, <2>2, <3>1 DEF WorkerInv, WorkerTypeOK, WorkerSlotsExact
  <2> QED
    BY <2>1, <2>2
<1> QED
  BY <1>3, <1>4, <1>5, <1>6 DEF WorkerInv

\* Every step of the workers keeps the invariant.
LEMMA WorkerStep ==
  ASSUME WorkerInv, [WorkerNext]_workerVars
  PROVE  WorkerInv'
<1>1. CASE UNCHANGED workerVars
  BY <1>1, QuietStep DEF WorkerInv, WorkerTypeOK, workerVars
<1>2. ASSUME NEW w \in Worker, NEW s \in Session, Join(w, s)
      PROVE  WorkerInv'
  BY <1>2, QuietStep DEF WorkerInv, WorkerTypeOK, Join
<1>3. ASSUME NEW w \in Worker, Beat(w)
      PROVE  WorkerInv'
  BY <1>1, <1>3 DEF Beat
<1>4. ASSUME NEW W \in SUBSET Worker, NEW left \in [W -> Seq(WorkerMsg)],
             LoseStreams(W, left)
      PROVE  WorkerInv'
  <2> DEFINE g == [e \in execs |-> IF e.worker \in W THEN [e EXCEPT !.cancelled = TRUE] ELSE e]
  <2>1. execs \subseteq Exec
    BY DEF WorkerInv, WorkerTypeOK
  <2>2. /\ g \in [execs -> Exec]
        /\ \A e \in execs : /\ g[e].id = e.id
                            /\ g[e].worker = e.worker
                            /\ g[e].task = e.task
    BY <2>1, CancelledIsExec
  <2>3. execs' = {g[e] : e \in execs} /\ UNCHANGED <<handle, wfree>>
    BY <1>4 DEF LoseStreams
  <2> HIDE DEF g
  <2>4. WorkerTypeOK'
    BY <1>4, <2>2, <2>3, Relabelling DEF WorkerInv, WorkerTypeOK, LoseStreams
  <2> QED
    BY <2>2, <2>3, <2>4, Relabelling DEF WorkerInv
<1>5. ASSUME NEW w \in Worker, NEW t \in Task, CancelTask(w, t)
      PROVE  WorkerInv'
  <2> DEFINE g == [e \in execs |-> IF e.worker = w /\ e.id = handle[w][t]
                                   THEN [e EXCEPT !.cancelled = TRUE] ELSE e]
  <2>1. execs \subseteq Exec
    BY DEF WorkerInv, WorkerTypeOK
  <2>2. /\ g \in [execs -> Exec]
        /\ \A e \in execs : /\ g[e].id = e.id
                            /\ g[e].worker = e.worker
                            /\ g[e].task = e.task
    BY <2>1, CancelledIsExec
  <2>3. execs' = {g[e] : e \in execs} /\ UNCHANGED <<link, wout, handle, wfree>>
    BY <1>5 DEF CancelTask
  <2> HIDE DEF g
  <2> QED
    BY <2>2, <2>3, Relabelling DEF WorkerInv, WorkerTypeOK
<1>6. ASSUME NEW e \in execs, ReportCaptcha(e)
      PROVE  WorkerInv'
  <2> DEFINE f == [e EXCEPT !.captcha = TRUE]
  <2>1. e \in Exec /\ e.worker \in Worker
    BY DEF WorkerInv, WorkerTypeOK, Exec
  <2>2. f \in Exec /\ f.id = e.id /\ f.worker = e.worker /\ f.task = e.task
    BY <2>1 DEF Exec
  <2>3. Replace(e, f) /\ UNCHANGED <<link, handle, wfree>> /\ Send(e.worker, <<CaptchaOf(e.task)>>)
    BY <1>6 DEF ReportCaptcha
  <2> HIDE DEF f
  <2>4. wout' \in [Worker -> Seq(WorkerMsg)]
    BY <2>1, <2>3, ReportType, SendType DEF WorkerInv
  <2> QED
    BY <2>2, <2>3, <2>4, Replacing DEF WorkerInv, WorkerTypeOK
<1>7. ASSUME NEW e \in execs, NEW o \in Outcomes(e), Finish(e, o)
      PROVE  WorkerInv'
  <2> DEFINE f == [e EXCEPT !.phase = "done"]
  <2>1. e \in Exec /\ e.worker \in Worker
    BY DEF WorkerInv, WorkerTypeOK, Exec
  <2>2. f \in Exec /\ f.id = e.id /\ f.worker = e.worker /\ f.task = e.task
    BY <2>1 DEF Exec
  <2>3. Replace(e, f) /\ UNCHANGED <<link, handle, wfree>> /\ Send(e.worker, <<FinalOf(e.task, o)>>)
    BY <1>7 DEF Finish
  <2> HIDE DEF f
  <2>4. wout' \in [Worker -> Seq(WorkerMsg)]
    BY <2>1, <2>3, ReportType, SendType DEF WorkerInv
  <2> QED
    BY <2>2, <2>3, <2>4, Replacing DEF WorkerInv, WorkerTypeOK
<1> QED
  BY <1>1, <1>2, <1>3, <1>4, <1>5, <1>6, <1>7, WorkerCrashStep, StartTaskStep, CleanUpStep
     DEF WorkerNext

-----------------------------------------------------------------------------
\* A worker's slot counter is the concurrency less its live executions, and its
\* running map names live executions only, under any stream of assignments,
\* cancellations, duplicates and broken connections (startTask, cancelTask).
THEOREM WorkerCorrect == WorkerSpec => []WorkerInv
BY WorkerInit_Inv, WorkerStep, PTL DEF WorkerSpec

-----------------------------------------------------------------------------
(* The task service.                                                       *)

\* Rows are created in the order of their ids, without a gap.
NoGaps == \A t, u \in Task : status[t] # "none" /\ u < t => status[u] # "none"

\* The dispatcher's snapshot holds rows there are: none is ever deleted.
ScanKnown == \A t \in scan : status[t] # "none"

\* A Cancel call in progress is about a row there is, and sends to a session.
CancelKnown ==
  /\ canceller.pc # "idle" => canceller.task \in Task /\ status[canceller.task] # "none"
  /\ canceller.pc = "send" => canceller.session \in Session

ServiceInv == ServiceTypeOK /\ NoGaps /\ ScanKnown /\ CancelKnown /\ ChainsBounded

-----------------------------------------------------------------------------
(* Steps that touch rows.                                                  *)

\* Overwriting the status of a row there is changes neither which rows there are
\* nor anything about attempts.
LEMMA SetStatusStep ==
  ASSUME ServiceInv, NEW t \in Task, NEW st \in Status, status[t] # "none",
         SetStatus(t, st), UNCHANGED <<attempt, parent, ready>>
  PROVE  /\ status' \in [Task -> Status \cup {"none"}]
         /\ \A u \in Task : status'[u] # "none" <=> status[u] # "none"
         /\ NoGaps'
         /\ ChainsBounded'
<1>1. status' \in [Task -> Status \cup {"none"}]
  BY DEF ServiceInv, ServiceTypeOK, SetStatus
<1>2. \A u \in Task : status'[u] # "none" <=> status[u] # "none"
  BY DEF ServiceInv, ServiceTypeOK, SetStatus, Status
<1>3. NoGaps'
  BY <1>2 DEF ServiceInv, NoGaps
<1>4. ChainsBounded'
  <2> SUFFICES ASSUME NEW u \in Task, status'[u] # "none"
               PROVE  /\ attempt[u] \in 1 .. Policy0.maxAttempts
                      /\ parent[u] = 0 => attempt[u] = 1
                      /\ parent[u] # 0 => /\ parent[u] < u
                                          /\ status'[parent[u]] # "none"
                                          /\ attempt[u] = attempt[parent[u]] + 1
    BY DEF ChainsBounded
  <2>1. parent[u] # 0 => parent[u] \in Task
    BY DEF ServiceInv, ServiceTypeOK
  <2> QED
    BY <1>2, <2>1 DEF ServiceInv, ChainsBounded
<1> QED
  BY <1>1, <1>2, <1>3, <1>4

\* Inserting the next row, as the first attempt or as the attempt after that of a
\* row there is, extends the chains and disturbs none.
LEMMA InsertStep ==
  ASSUME ServiceInv, NEW c \in Task, IsNext(c), NEW p \in Task \cup {0}, NEW n \in Nat,
         NEW due \in BOOLEAN, Insert(c, p, n, due),
         n \in 1 .. Policy0.maxAttempts,
         p = 0 => n = 1,
         p # 0 => status[p] # "none" /\ n = attempt[p] + 1
  PROVE  /\ status' \in [Task -> Status \cup {"none"}]
         /\ attempt' \in [Task -> Nat]
         /\ parent' \in [Task -> Task \cup {0}]
         /\ ready' \in [Task -> BOOLEAN]
         /\ \A u \in Task : status[u] # "none" => status'[u] = status[u]
         /\ NoGaps'
         /\ ChainsBounded'
<1> USE DeploymentAssumption
<1>1. /\ status' \in [Task -> Status \cup {"none"}]
      /\ attempt' \in [Task -> Nat]
      /\ parent' \in [Task -> Task \cup {0}]
      /\ ready' \in [Task -> BOOLEAN]
  BY DEF ServiceInv, ServiceTypeOK, Insert, Status
<1>2. /\ status[c] = "none" /\ status'[c] = "queued"
      /\ attempt'[c] = n /\ parent'[c] = p
      /\ \A u \in Task \ {c} : /\ status'[u] = status[u]
                               /\ attempt'[u] = attempt[u]
                               /\ parent'[u] = parent[u]
  BY DEF ServiceInv, ServiceTypeOK, Insert, IsNext
<1>3. NoGaps'
  BY <1>2 DEF ServiceInv, NoGaps, IsNext
<1>4. ASSUME NEW u \in Task, status'[u] # "none"
      PROVE  /\ attempt'[u] \in 1 .. Policy0.maxAttempts
             /\ parent'[u] = 0 => attempt'[u] = 1
             /\ parent'[u] # 0 => /\ parent'[u] < u
                                  /\ status'[parent'[u]] # "none"
                                  /\ attempt'[u] = attempt'[parent'[u]] + 1
  <2>1. CASE u = c
    <3>1. p # 0 => p \in Task /\ p # c /\ p < c
      BY <1>2, p # 0 => status[p] # "none" DEF ServiceInv, NoGaps
    <3> QED
      BY <1>2, <2>1, <3>1
  <2>2. CASE u # c
    <3>1. status[u] # "none"
      BY <1>2, <1>4, <2>2
    <3>2. parent[u] # 0 => parent[u] \in Task /\ parent[u] # c
      BY <1>2, <3>1 DEF ServiceInv, ServiceTypeOK, ChainsBounded
    <3> QED
      BY <1>2, <2>2, <3>1, <3>2 DEF ServiceInv, ChainsBounded
  <2> QED
    BY <2>1, <2>2
<1>5. ChainsBounded'
  BY <1>4 DEF ChainsBounded
<1> QED
  BY <1>1, <1>2, <1>3, <1>5

-----------------------------------------------------------------------------
(* The invariant.                                                          *)

LEMMA ServiceInit_Inv == ServiceInit => ServiceInv
<1> SUFFICES ASSUME ServiceInit PROVE ServiceInv
  OBVIOUS
<1>1. ServiceTypeOK
  BY DEF ServiceInit, ServiceTypeOK, NoCancel
<1>2. NoGaps /\ ScanKnown /\ ChainsBounded /\ CancelKnown
  BY DEF ServiceInit, NoGaps, ScanKnown, ChainsBounded, CancelKnown, NoCancel
<1> QED
  BY <1>1, <1>2 DEF ServiceInv

\* A step that leaves the rows and the snapshot alone, or drops rows from it.
LEMMA RowsUnchanged ==
  ASSUME ServiceInv, ServiceTypeOK', UNCHANGED <<status, attempt, parent>>, scan' \subseteq scan,
         CancelKnown'
  PROVE  ServiceInv'
BY DEF ServiceInv, NoGaps, ScanKnown, ChainsBounded

LEMMA QueueStep ==
  ASSUME ServiceInv, NEW t \in Task, Queue(t)
  PROVE  ServiceInv'
<1>1. IsNext(t) /\ Insert(t, 0, 1, TRUE) /\ wakeup' = TRUE /\ UNCHANGED <<spiderUp, scan, canceller>>
  BY DEF Queue
<1>2. 1 \in 1 .. Policy0.maxAttempts
  BY ServiceAssumption DEF Policy
<1>3. /\ status' \in [Task -> Status \cup {"none"}]
      /\ attempt' \in [Task -> Nat]
      /\ parent' \in [Task -> Task \cup {0}]
      /\ ready' \in [Task -> BOOLEAN]
      /\ \A u \in Task : status[u] # "none" => status'[u] = status[u]
      /\ NoGaps'
      /\ ChainsBounded'
  BY <1>1, <1>2, InsertStep
<1>4. ServiceTypeOK' /\ ScanKnown' /\ CancelKnown'
  BY <1>1, <1>3 DEF ServiceInv, ServiceTypeOK, ScanKnown, CancelKnown, CancelKnown
<1> QED
  BY <1>3, <1>4 DEF ServiceInv

\* A retry takes the next row, and its attempt is within the policy because Decide
\* stops at max_attempts.
LEMMA RetryRowFacts ==
  ASSUME ServiceInv, NEW t \in Task, NEW class, NEW c \in RetryRow(t, class)
  PROVE  /\ c \in Task /\ IsNext(c)
         /\ attempt[t] \in Nat /\ attempt[t] + 1 \in 1 .. Policy0.maxAttempts
<1>1. attempt[t] \in Nat
  BY DEF ServiceInv, ServiceTypeOK
<1>2. Policy0.maxAttempts \in Nat
  BY ServiceAssumption DEF Policy, MaxAttemptsLimit
<1>3. attempt[t] < Policy0.maxAttempts
  BY DEF RetryRow, ShouldRetry
<1> QED
  BY <1>1, <1>2, <1>3 DEF RetryRow

\* maybeScheduleRetry for a row there is, with or without an error.
LEMMA ScheduleRetryStep ==
  ASSUME ServiceInv, NEW t \in Task, NEW class, status[t] # "none",
         ScheduleRetry(t, class) \/ ScheduleRetryFails(t, class)
  PROVE  ServiceInv'
<1>1. CASE UNCHANGED serviceVars
  BY <1>1, RowsUnchanged DEF ServiceInv, ServiceTypeOK, CancelKnown, serviceVars, rowVars
<1>2. CASE /\ \E c \in RetryRow(t, class) : Insert(c, t, attempt[t] + 1, FALSE)
           /\ wakeup' \in {TRUE, wakeup}
           /\ UNCHANGED <<spiderUp, scan, canceller>>
  <2>1. PICK c \in RetryRow(t, class) : Insert(c, t, attempt[t] + 1, FALSE)
    BY <1>2
  <2>2. /\ c \in Task /\ IsNext(c)
        /\ attempt[t] \in Nat /\ attempt[t] + 1 \in 1 .. Policy0.maxAttempts
    BY RetryRowFacts
  <2>3. t # 0
    BY DeploymentAssumption
  <2>4. /\ status' \in [Task -> Status \cup {"none"}]
        /\ attempt' \in [Task -> Nat]
        /\ parent' \in [Task -> Task \cup {0}]
        /\ ready' \in [Task -> BOOLEAN]
        /\ \A u \in Task : status[u] # "none" => status'[u] = status[u]
        /\ NoGaps'
        /\ ChainsBounded'
    <3>1. attempt[t] + 1 \in Nat /\ FALSE \in BOOLEAN /\ t \in Task \cup {0}
      BY <2>2
    <3> QED
      BY <2>1, <2>2, <2>3, <3>1, InsertStep
  <2>5. ServiceTypeOK' /\ ScanKnown' /\ CancelKnown'
    BY <1>2, <2>4 DEF ServiceInv, ServiceTypeOK, ScanKnown, CancelKnown, CancelKnown
  <2> QED
    BY <2>4, <2>5 DEF ServiceInv
<1> QED
  BY <1>1, <1>2 DEF ScheduleRetry, ScheduleRetryFails

\* A failed buildAssign: a row of the snapshot is marked, or is not, and has a child, or has none.
LEMMA BuildAssignFailsStep ==
  ASSUME ServiceInv, NEW t \in Task, NEW marked \in BOOLEAN, NEW C \in SUBSET Task,
         BuildAssignFails(t, marked, C)
  PROVE  ServiceInv'
<1> USE DEF BuildAssignFails
<1>1. status[t] # "none" /\ t # 0
  BY DeploymentAssumption DEF ServiceInv, ScanKnown, AtRow
<1>2. \A c \in C : /\ c \in Task /\ IsNext(c)
                   /\ attempt[t] \in Nat /\ attempt[t] + 1 \in 1 .. Policy0.maxAttempts
  BY RetryRowFacts
<1>3. t \notin C
  BY <1>1, <1>2 DEF IsNext
<1>4. ServiceTypeOK'
  <2>1. /\ status' \in [Task -> Status \cup {"none"}]
        /\ attempt' \in [Task -> Nat]
        /\ parent' \in [Task -> Task \cup {0}]
        /\ ready' \in [Task -> BOOLEAN]
    BY <1>2 DEF ServiceInv, ServiceTypeOK, Status
  <2> QED
    BY <2>1 DEF ServiceInv, ServiceTypeOK
<1>5. \A u \in Task : /\ u \in C => /\ status'[u] = "queued" /\ parent'[u] = t
                                  /\ attempt'[u] = attempt[t] + 1
                     /\ u \notin C => /\ status'[u] # "none" <=> status[u] # "none"
                                     /\ parent'[u] = parent[u] /\ attempt'[u] = attempt[u]
  BY <1>1
<1>6. \A u \in Task : status[u] # "none" => status'[u] # "none"
  BY <1>5
<1>7. NoGaps'
  BY <1>2, <1>5 DEF ServiceInv, NoGaps, IsNext
<1>8. ASSUME NEW u \in Task, status'[u] # "none"
      PROVE  /\ attempt'[u] \in 1 .. Policy0.maxAttempts
             /\ parent'[u] = 0 => attempt'[u] = 1
             /\ parent'[u] # 0 => /\ parent'[u] < u
                                  /\ status'[parent'[u]] # "none"
                                  /\ attempt'[u] = attempt'[parent'[u]] + 1
  <2>1. CASE u \in C
    <3>1. t < u
      BY <1>1, <1>2, <2>1, DeploymentAssumption DEF ServiceInv, NoGaps, IsNext
    <3> QED
      BY <1>1, <1>2, <1>3, <1>5, <1>6, <2>1, <3>1
  <2>2. CASE u \notin C
    <3>1. status[u] # "none"
      BY <1>5, <1>8, <2>2
    <3>2. parent[u] # 0 => parent[u] \in Task /\ status[parent[u]] # "none" /\ parent[u] \notin C
      BY <1>2, <3>1 DEF ServiceInv, ServiceTypeOK, ChainsBounded, IsNext
    <3> QED
      BY <1>5, <1>6, <2>2, <3>1, <3>2 DEF ServiceInv, ChainsBounded
  <2> QED
    BY <2>1, <2>2
<1>9. ScanKnown' /\ CancelKnown'
  BY <1>6 DEF ServiceInv, ServiceTypeOK, ScanKnown, CancelKnown
<1> QED
  BY <1>4, <1>7, <1>8, <1>9 DEF ServiceInv, ChainsBounded

\* Every step of the service keeps the invariant.
LEMMA ServiceStep ==
  ASSUME ServiceInv, [ServiceNext]_serviceVars
  PROVE  ServiceInv'
<1>1. CASE UNCHANGED serviceVars
  BY <1>1, RowsUnchanged DEF ServiceInv, ServiceTypeOK, CancelKnown, serviceVars, rowVars
<1>2. CASE DeleteSpider \/ Refused
  BY <1>2, RowsUnchanged DEF ServiceInv, ServiceTypeOK, CancelKnown, DeleteSpider, Refused, rowVars
<1>3. CASE CancelDone
  BY <1>3, RowsUnchanged DEF ServiceInv, ServiceTypeOK, CancelKnown, CancelDone, rowVars, NoCancel
<1>4. CASE ListQueued
  <2>1. ServiceTypeOK' /\ ScanKnown' /\ CancelKnown'
    BY <1>4 DEF ServiceInv, ServiceTypeOK, ScanKnown, CancelKnown, ListQueued, rowVars
  <2> QED
    BY <1>4, <2>1 DEF ServiceInv, NoGaps, ChainsBounded, ListQueued, rowVars
<1>5. ASSUME NEW s \in Session \cup {NoSession}, CancelLookedUp(s)
      PROVE  ServiceInv'
  <2>1. canceller' \in [pc : {"idle", "lookup", "send"}, task : Task \cup {0},
                        session : Session \cup {NoSession}]
    BY <1>5 DEF ServiceInv, ServiceTypeOK, CancelLookedUp, NoCancel
  <2>2. CancelKnown'
    BY <1>5 DEF ServiceInv, ServiceTypeOK, CancelKnown, CancelLookedUp, NoCancel, rowVars
  <2>3. ServiceTypeOK' /\ UNCHANGED <<status, attempt, parent, scan>>
    BY <1>5, <2>1 DEF ServiceInv, ServiceTypeOK, CancelLookedUp, rowVars
  <2> QED
    BY <2>2, <2>3, RowsUnchanged
<1>6. ASSUME NEW t \in Task, BecomeReady(t)
      PROVE  ServiceInv'
  BY <1>6, RowsUnchanged DEF ServiceInv, ServiceTypeOK, CancelKnown, BecomeReady
<1>7. ASSUME NEW t \in Task, Dispatched(t)
      PROVE  ServiceInv'
  BY <1>7, RowsUnchanged DEF ServiceInv, ServiceTypeOK, CancelKnown, Dispatched, rowVars
<1>8. ASSUME NEW t \in Task, CancelRow(t)
      PROVE  ServiceInv'
  <2>1. "cancelled" \in Status
    BY DEF Status
  <2>2. canceller' \in [pc : {"idle", "lookup", "send"}, task : Task \cup {0},
                        session : Session \cup {NoSession}]
    BY <1>8 DEF CancelRow
  <2> QED
    BY <1>8, <2>1, <2>2, SetStatusStep DEF ServiceInv, ServiceTypeOK, ScanKnown, CancelKnown, CancelRow
<1>9. ASSUME NEW t \in Task, NEW marked \in BOOLEAN, NEW C \in SUBSET Task,
             BuildAssignFails(t, marked, C)
      PROVE  ServiceInv'
  BY <1>9, BuildAssignFailsStep
<1>10. ASSUME NEW t \in Task, status[t] # "none", NEW st \in Status \ {"queued"},
              PersistUpdate(t, st)
       PROVE  ServiceInv'
  BY <1>10, SetStatusStep DEF ServiceInv, ServiceTypeOK, ScanKnown, CancelKnown, PersistUpdate
<1>11. CASE ServiceCrash
  BY <1>11, RowsUnchanged DEF ServiceInv, ServiceTypeOK, CancelKnown, ServiceCrash, rowVars, NoCancel
<1> QED
  BY <1>1, <1>2, <1>3, <1>4, <1>5, <1>6, <1>7, <1>8, <1>9, <1>10, <1>11, QueueStep,
     ScheduleRetryStep DEF ServiceNext

-----------------------------------------------------------------------------
\* The rows keep their types, and a chain of retries stays within the policy,
\* attempt by attempt (maybeScheduleRetry, Decide, Create).
THEOREM ServiceCorrect == ServiceSpec => []ServiceInv
BY ServiceInit_Inv, ServiceStep, PTL DEF ServiceSpec

\* No step makes an existing row queued again: not an update, not a cancellation,
\* not a failed dispatch, and an insert takes a row that is not there yet.
LEMMA NeverRequeued ==
  ASSUME ServiceInv, [ServiceNext]_serviceVars, NEW u \in Task, status'[u] = "queued"
  PROVE  status[u] \in {"none", "queued"}
<1> USE DEF ServiceInv, ServiceTypeOK, SetStatus
<1>1. CASE UNCHANGED status
  BY <1>1
<1>2. ASSUME NEW t \in Task, NEW st \in Status \ {"queued"}, SetStatus(t, st)
      PROVE  status[u] \in {"none", "queued"}
  BY <1>2
<1>3. ASSUME NEW c \in Task, NEW p, NEW n, NEW due, IsNext(c), Insert(c, p, n, due)
      PROVE  status[u] \in {"none", "queued"}
  BY <1>3 DEF IsNext, Insert
<1>4. ASSUME NEW t \in Task, NEW class, ScheduleRetry(t, class) \/ ScheduleRetryFails(t, class)
      PROVE  status[u] \in {"none", "queued"}
  BY <1>1, <1>3, <1>4 DEF ScheduleRetry, ScheduleRetryFails, RetryRow, serviceVars, rowVars
<1>6. ASSUME NEW t \in Task, NEW marked \in BOOLEAN, NEW C \in SUBSET Task,
             BuildAssignFails(t, marked, C)
      PROVE  status[u] \in {"none", "queued"}
  BY <1>6 DEF BuildAssignFails, RetryRow, IsNext
<1>5. "cancelled" \in Status \ {"queued"}
  BY DEF Status
<1> QED
  BY <1>1, <1>2, <1>3, <1>4, <1>5, <1>6
     DEF ServiceNext, serviceVars, rowVars, DeleteSpider, ListQueued, Refused, CancelDone,
         ServiceCrash, CancelLookedUp, Queue, BecomeReady, CancelRow,
         Dispatched, PersistUpdate

\* No row ever disappears.
LEMMA RowsStay ==
  ASSUME ServiceInv, [ServiceNext]_serviceVars, NEW u \in Task, status[u] # "none"
  PROVE  status'[u] # "none"
<1> USE DEF ServiceInv, ServiceTypeOK, SetStatus
<1>1. CASE UNCHANGED status
  BY <1>1
<1>2. ASSUME NEW t \in Task, NEW st \in Status, SetStatus(t, st)
      PROVE  status'[u] # "none"
  BY <1>2 DEF Status
<1>3. ASSUME NEW c \in Task, NEW p, NEW n, NEW due, IsNext(c), Insert(c, p, n, due)
      PROVE  status'[u] # "none"
  BY <1>3 DEF IsNext, Insert
<1>4. ASSUME NEW t \in Task, NEW class, ScheduleRetry(t, class) \/ ScheduleRetryFails(t, class)
      PROVE  status'[u] # "none"
  BY <1>1, <1>3, <1>4 DEF ScheduleRetry, ScheduleRetryFails, RetryRow, serviceVars, rowVars
<1>6. ASSUME NEW t \in Task, NEW marked \in BOOLEAN, NEW C \in SUBSET Task,
             BuildAssignFails(t, marked, C)
      PROVE  status'[u] # "none"
  BY <1>6 DEF BuildAssignFails, RetryRow, IsNext
<1>5. "cancelled" \in Status
  BY DEF Status
<1> QED
  BY <1>1, <1>2, <1>3, <1>4, <1>5, <1>6
     DEF ServiceNext, serviceVars, rowVars, DeleteSpider, ListQueued, Refused, CancelDone,
         ServiceCrash, CancelLookedUp, Queue, BecomeReady, CancelRow,
         Dispatched, PersistUpdate
=============================================================================
