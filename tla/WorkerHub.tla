----------------------------- MODULE WorkerHub -----------------------------
(***************************************************************************)
(* The gRPC hub of the master (internal/hub/hub.go): the sessions of the   *)
(* connected workers, the slot counter the master keeps for each of them,  *)
(* the outbox of assignments and cancellations it pushes to them, the map  *)
(* from a task to the session it was given to, and the read loop that      *)
(* handles the frames of one session in order.                             *)
(*                                                                         *)
(* Rules taken from the code:                                              *)
(*   - h.mu protects the two maps, s.mu the slot counter; a heartbeat      *)
(*     stores into the counter under neither lock;                         *)
(*   - a frame is handled to the end before the next one of its session is *)
(*     read, and the handling of a terminal update has four parts that     *)
(*     other goroutines can come between: persist, retry, give the slot    *)
(*     back, forget the task;                                              *)
(*   - pushing to an outbox never blocks: a full one is skipped by Assign  *)
(*     and swallows a cancellation.                                        *)
(* The outbox stands for the Go channel and the stream behind it. The      *)
(* inbox is everything the worker has to say on its stream: the frames on  *)
(* the wire and, behind them, those still in the worker's own outbox. Which *)
(* is which matters only when the stream breaks, and is decided then.      *)
(***************************************************************************)
EXTENDS Deployment

CONSTANT OutboxCap   \* capacity of Session.outbox (64 in the code)

ASSUME HubAssumption == OutboxCap \in Nat \ {0}

VARIABLES
  session,    \* "unused", then in h.sessions ("open"), then removed ("closed")
  freeSlots,  \* Session.FreeSlots
  outbox,     \* master -> worker, per session
  inbox,      \* worker -> master, per session
  owner,      \* h.tasks: task -> session
  stage       \* where the read loop of a session stands in its current frame

hubVars == <<session, freeSlots, outbox, inbox, owner, stage>>

\* Mutant: a timeout gets a status the tasks table does not know.
MapStateMisspelt(st) ==
  CASE st \in {"ACCEPTED", "RUNNING"} -> "running"
    [] st = "TIMEOUT" -> "timed_out"
    [] OTHER -> "succeeded"

\* mapState: the row status a reported state stands for.
MapState(st) ==
  CASE st \in {"ACCEPTED", "RUNNING"} -> "running"
    [] st = "SUCCEEDED" -> "succeeded"
    [] st = "FAILED"    -> "failed"
    [] st = "CANCELLED" -> "cancelled"
    [] st = "TIMEOUT"   -> "timeout"
    [] st = "CAPTCHA"   -> "captcha_blocked"

HubInit ==
  /\ session = [s \in Session |-> "unused"]
  /\ freeSlots = [s \in Session |-> 0]
  /\ outbox = [s \in Session |-> <<>>]
  /\ inbox = [s \in Session |-> <<>>]
  /\ owner = [t \in Task |-> NoSession]
  /\ stage = [s \in Session |-> "recv"]

-----------------------------------------------------------------------------
(* Session life cycle.                                                     *)

\* Connect up to the Welcome: the session enters h.sessions with every slot free;
\* ms is what its worker has to send already.
Register(s, ms) ==
  /\ session[s] = "unused"
  /\ session' = [session EXCEPT ![s] = "open"]
  /\ freeSlots' = [freeSlots EXCEPT ![s] = Concurrency]
  /\ inbox' = [inbox EXCEPT ![s] = ms]
  /\ UNCHANGED <<outbox, owner, stage>>

\* Mutant: the tasks of the session stay in h.tasks.
UnregisterKeepsTasks(s) ==
  /\ session[s] = "open"
  /\ stage[s] = "recv"
  /\ session' = [session EXCEPT ![s] = "closed"]
  /\ outbox' = [outbox EXCEPT ![s] = <<>>]
  /\ inbox' = [inbox EXCEPT ![s] = <<>>]
  /\ UNCHANGED <<freeSlots, owner, stage>>

\* The deferred unregister of Connect: the session and its tasks leave the maps
\* and the outbox is closed; nothing is put back in the queue.
Unregister(s) ==
  /\ session[s] = "open"
  /\ stage[s] = "recv"
  /\ session' = [session EXCEPT ![s] = "closed"]
  /\ owner' = [t \in Task |-> IF owner[t] = s THEN NoSession ELSE owner[t]]
  /\ outbox' = [outbox EXCEPT ![s] = <<>>]
  /\ inbox' = [inbox EXCEPT ![s] = <<>>]
  /\ UNCHANGED <<freeSlots, stage>>

\* The master process ends: its memory and its streams are gone.
HubCrash ==
  /\ session' = [s \in Session |-> IF session[s] = "open" THEN "closed" ELSE session[s]]
  /\ owner' = [t \in Task |-> NoSession]
  /\ outbox' = [s \in Session |-> <<>>]
  /\ inbox' = [s \in Session |-> <<>>]
  /\ stage' = [s \in Session |-> "recv"]
  /\ UNCHANGED freeSlots

-----------------------------------------------------------------------------
(* The stream of a session.                                                *)

\* Mutant: a frame overtakes those sent before it.
TransferOvertakes(s, taken, ms) ==
  /\ session[s] = "open"
  /\ taken => outbox[s] # <<>>
  /\ outbox' = IF taken THEN [outbox EXCEPT ![s] = Tail(@)] ELSE outbox
  /\ inbox' = [inbox EXCEPT ![s] = ms \o @]
  /\ UNCHANGED <<session, freeSlots, owner, stage>>

\* The pumps and the wire: the worker takes the oldest message pushed to it, if
\* taken holds, and its frames ms follow the ones it sent before.
Transfer(s, taken, ms) ==
  /\ session[s] = "open"
  /\ taken => outbox[s] # <<>>
  /\ outbox' = IF taken THEN [outbox EXCEPT ![s] = Tail(@)] ELSE outbox
  /\ inbox' = [inbox EXCEPT ![s] = @ \o ms]
  /\ UNCHANGED <<session, freeSlots, owner, stage>>

\* The frame being handled stays whatever happens to the stream.
BeingHandled(s) == IF stage[s] = "recv" THEN 0 ELSE 1

\* The stream breaks when n of the frames have left the worker.
CutAfter(s, n) ==
  /\ session[s] = "open"
  /\ n \in BeingHandled(s) .. Len(inbox[s])
  /\ inbox' = [inbox EXCEPT ![s] = SubSeq(@, 1, n)]
  /\ UNCHANGED <<session, freeSlots, outbox, owner, stage>>

\* The read loop of s is about to handle a frame of this kind.
Reading(s, kind) ==
  /\ session[s] = "open"
  /\ stage[s] = "recv"
  /\ inbox[s] # <<>>
  /\ Head(inbox[s]).kind = kind

Consumed(s) == inbox' = [inbox EXCEPT ![s] = Tail(@)]

\* Mutant: a heartbeat can only lower the counter.
HeartbeatOnlyLowers(s) ==
  /\ Reading(s, "beat")
  /\ freeSlots' = [freeSlots EXCEPT ![s] =
                      IF Head(inbox[s]).free < @ THEN Head(inbox[s]).free ELSE @]
  /\ Consumed(s)
  /\ UNCHANGED <<session, outbox, owner, stage>>

\* A heartbeat overwrites the slot counter with what the worker reported.
Heartbeat(s) ==
  /\ Reading(s, "beat")
  /\ freeSlots' = [freeSlots EXCEPT ![s] = Head(inbox[s]).free]
  /\ Consumed(s)
  /\ UNCHANGED <<session, outbox, owner, stage>>

\* Mutant: only a FAILED update is put to the retry policy.
UpdatePersistedNoTimeout(s) ==
  /\ Reading(s, "update")
  /\ LET st == Head(inbox[s]).state IN
       IF st \in TerminalState
       THEN /\ stage' = [stage EXCEPT ![s] = IF st = "FAILED" THEN "retry" ELSE "slot"]
            /\ UNCHANGED inbox
       ELSE Consumed(s) /\ UNCHANGED stage
  /\ UNCHANGED <<session, freeSlots, outbox, owner>>

\* OnUpdate has persisted the status of the current update. Only a terminal one
\* needs more: a failure passes through the retry decision, then the slot.
UpdatePersisted(s) ==
  /\ Reading(s, "update")
  /\ LET st == Head(inbox[s]).state IN
       IF st \in TerminalState
       THEN /\ stage' = [stage EXCEPT ![s] =
                           IF st \in {"FAILED", "TIMEOUT"} THEN "retry" ELSE "slot"]
            /\ UNCHANGED inbox
       ELSE Consumed(s) /\ UNCHANGED stage
  /\ UNCHANGED <<session, freeSlots, outbox, owner>>

\* OnUpdate returned an error: the update is logged and nothing is released.
UpdateFailed(s) ==
  /\ Reading(s, "update")
  /\ Consumed(s)
  /\ UNCHANGED <<session, freeSlots, outbox, owner, stage>>

\* maybeScheduleRetry has returned (whatever it decided).
RetryDecided(s) ==
  /\ stage[s] = "retry"
  /\ stage' = [stage EXCEPT ![s] = "slot"]
  /\ UNCHANGED <<session, freeSlots, outbox, inbox, owner>>

\* releaseTask, under s.mu: one slot more, up to the concurrency.
ReleaseSlot(s) ==
  /\ stage[s] = "slot"
  /\ freeSlots' = [freeSlots EXCEPT ![s] = IF @ < Concurrency THEN @ + 1 ELSE @]
  /\ stage' = [stage EXCEPT ![s] = "forget"]
  /\ UNCHANGED <<session, outbox, inbox, owner>>

\* Mutant: releaseTask gives the slot back and leaves the entry.
ForgetTaskKeepsOwner(s) ==
  /\ stage[s] = "forget"
  /\ Consumed(s)
  /\ stage' = [stage EXCEPT ![s] = "recv"]
  /\ UNCHANGED <<session, freeSlots, outbox, owner>>

\* releaseTask, under h.mu: the entry goes, whichever session it names.
ForgetTask(s) ==
  /\ stage[s] = "forget"
  /\ owner' = [owner EXCEPT ![Head(inbox[s]).task] = NoSession]
  /\ Consumed(s)
  /\ stage' = [stage EXCEPT ![s] = "recv"]
  /\ UNCHANGED <<session, freeSlots, outbox>>

-----------------------------------------------------------------------------
(* Called by the task service.                                             *)

\* Mutant: Assign wants a slot to spare.
AssignableWithSpare == {s \in Session : /\ session[s] = "open"
                                        /\ freeSlots[s] > 1
                                        /\ Len(outbox[s]) < OutboxCap}

\* Sessions Assign can settle on; it meets them in any order (a Go map) and
\* undoes its reservation when an outbox is full.
Assignable == {s \in Session : /\ session[s] = "open"
                               /\ freeSlots[s] > 0
                               /\ Len(outbox[s]) < OutboxCap}

AssignTo(t, s) ==
  /\ s \in Assignable
  /\ outbox' = [outbox EXCEPT ![s] = Append(@, [kind |-> "assign", task |-> t])]
  /\ owner' = [owner EXCEPT ![t] = s]
  /\ freeSlots' = [freeSlots EXCEPT ![s] = @ - 1]
  /\ UNCHANGED <<session, stage>>

\* Assign returning true.
Assign(t, s) == AssignTo(t, s) /\ UNCHANGED inbox

\* The same while the read loop of s stores a heartbeat between the load and the
\* store of s.FreeSlots--: the heartbeat's value is overwritten.
AssignOverHeartbeat(t, s) ==
  /\ Reading(s, "beat")
  /\ AssignTo(t, s)
  /\ Consumed(s)

\* Assign reserves a slot of s, finds the outbox full and gives the slot back. A
\* heartbeat stored in between leaves the counter one above the report; one stored
\* inside either of the two updates of the counter is lost.
UndoOverHeartbeat(s) ==
  /\ Reading(s, "beat")
  /\ freeSlots[s] > 0
  /\ Len(outbox[s]) = OutboxCap
  /\ \E n \in {Head(inbox[s]).free + 1, freeSlots[s]} :
       freeSlots' = [freeSlots EXCEPT ![s] = n]
  /\ Consumed(s)
  /\ UNCHANGED <<session, outbox, owner, stage>>

\* The same with releaseTask in between: it finds room for its slot even when every
\* slot was free, and the counter ends above the concurrency.
UndoOverRelease(s) ==
  /\ stage[s] = "slot"
  /\ freeSlots[s] \in 1 .. Concurrency
  /\ Len(outbox[s]) = OutboxCap
  /\ freeSlots' = [freeSlots EXCEPT ![s] = @ + 1]
  /\ stage' = [stage EXCEPT ![s] = "forget"]
  /\ UNCHANGED <<session, outbox, inbox, owner>>

\* CancelRunning, first half (under h.mu.RLock): the session a task is on.
SessionOf(t) ==
  IF owner[t] \in Session /\ session[owner[t]] = "open" THEN owner[t] ELSE NoSession

\* CancelRunning, second half, after the unlock: a full outbox drops the message. That the
\* session was unregistered in between, and its outbox closed, is CancelPanics of TaskControl.
PushCancel(s, t) ==
  /\ session[s] = "open"
  /\ outbox' = IF Len(outbox[s]) < OutboxCap
               THEN [outbox EXCEPT ![s] = Append(@, [kind |-> "cancel", task |-> t])]
               ELSE outbox
  /\ UNCHANGED <<session, freeSlots, inbox, owner, stage>>

-----------------------------------------------------------------------------
(* The hub on its own, in any environment of workers and callers.          *)

\* A step that is given frames from Frames and tasks from Tasks.
HubStep(Frames, Tasks) ==
  \/ HubCrash
  \/ \E s \in Session :
       \/ \E ms \in Seq(Frames) : Register(s, ms)
       \/ Unregister(s) \/ Heartbeat(s)
       \/ UpdatePersisted(s) \/ UpdateFailed(s) \/ RetryDecided(s)
       \/ ReleaseSlot(s) \/ ForgetTask(s)
       \/ UndoOverHeartbeat(s) \/ UndoOverRelease(s)
       \/ \E taken \in BOOLEAN, ms \in Seq(Frames) : Transfer(s, taken, ms)
       \/ \E n \in Nat : CutAfter(s, n)
       \/ \E t \in Tasks : Assign(t, s) \/ AssignOverHeartbeat(t, s) \/ PushCancel(s, t)

HubNext == HubStep(WorkerMsg, Task)

HubSpec == HubInit /\ [][HubNext]_hubVars

HubTypeOK ==
  /\ session \in [Session -> {"unused", "open", "closed"}]
  /\ freeSlots \in [Session -> Int]
  /\ outbox \in [Session -> Seq(MasterMsg)]
  /\ inbox \in [Session -> Seq(WorkerMsg)]
  /\ owner \in [Task -> Session \cup {NoSession}]
  /\ stage \in [Session -> {"recv", "retry", "slot", "forget"}]

\* h.tasks never names a session that has left h.sessions, so a cancellation or
\* an item is never attributed to a worker that is gone (unregister, Assign and
\* releaseTask under h.mu).
OwnerIsOpen == \A t \in Task : owner[t] # NoSession => session[owner[t]] = "open"

\* A session outside h.sessions has no message left to push, and its read loop
\* is not in the middle of a frame (the strengthening behind the hub's proofs; that
\* CancelRunning may still send to its closed outbox is CancelPanics of TaskControl).
ClosedIsQuiet ==
  \A s \in Session : session[s] # "open" =>
    /\ outbox[s] = <<>>
    /\ inbox[s] = <<>>
    /\ stage[s] = "recv"

\* While a terminal update is being handled, that update is still at the head of
\* its session's frames: slot and entry are released for the task it names.
MidFrameIsTerminal ==
  \A s \in Session : stage[s] # "recv" =>
    /\ inbox[s] # <<>>
    /\ Head(inbox[s]).kind = "update"
    /\ Head(inbox[s]).state \in TerminalState
=============================================================================
