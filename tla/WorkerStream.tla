----------------------------- MODULE WorkerStream ---------------------------
(***************************************************************************)
(* The goroutines of a worker that share its outbox (internal/runner/      *)
(* worker.go): the receive loop, which is also the one that connects and   *)
(* that reports the start of a task, the pump that sends what is in the    *)
(* outbox, and the heartbeat loop. The outbox is a channel with room for   *)
(* Cap frames: whoever puts a frame into a full one waits, and only the    *)
(* pump makes room. A stream that breaks is noticed by the pump when it    *)
(* sends and by the receive loop when it receives; the loop then cancels   *)
(* the stream's context and waits for the other two before it connects     *)
(* again.                                                                  *)
(***************************************************************************)
EXTENDS Integers, Sequences, FiniteSets

CONSTANTS
  Task,      \* the tasks assigned, once each: a bound
  NoTask,    \* the task of a heartbeat
  Cap,       \* room in the outbox (64 in the code)
  MaxBreaks  \* streams that break: a bound

ASSUME StreamAssumption ==
  /\ NoTask \notin Task
  /\ Cap \in Nat \ {0} /\ MaxBreaks \in Nat

VARIABLES
  outbox,    \* Worker.outbox
  loop,      \* connectOnce: where it is, and the task it is starting
  pump,      \* pumpOutbox: "off", "select" or "send", and the frame in its hand
  beat,      \* heartbeatLoop: "off", "select", or waiting to put a heartbeat
  stream,    \* the transport: "none", "up" or "broken"
  ctx,       \* the stream's context: "live" or "done"
  stopping,  \* Run's own context is cancelled
  breaks,    \* streams broken so far
  put,       \* history: the executions' frames put so far, which are numbered as they are put
  left,      \* history: the last of them that has left, sent or lost
  lost       \* history: how many the pump had in hand when Send failed

streamVars == <<outbox, loop, pump, beat, stream, ctx, stopping, breaks, put, left, lost>>

\* What the frames say does not matter here: they are their numbers.
Beat == 0

At(pc) == [pc |-> pc, task |-> NoTask]

StreamInit ==
  /\ outbox = <<>>
  /\ loop = At("connecting")
  /\ pump = [pc |-> "off", hand |-> <<>>]
  /\ beat = "off"
  /\ stream = "none"
  /\ ctx = "done"
  /\ stopping = FALSE
  /\ breaks = 0
  /\ put = 0 /\ left = 0 /\ lost = 0

\* Mutant: the channel has room for one more.
RoomForOneMore == Len(outbox) <= Cap

HasRoom == Len(outbox) < Cap

\* A frame of an execution goes into the outbox.
Puts ==
  /\ HasRoom
  /\ put' = put + 1
  /\ outbox' = Append(outbox, put')

-----------------------------------------------------------------------------
(* The receive loop.                                                       *)

\* Run: the outbox and what is in it stay from one stream to the next.
Connect ==
  /\ loop.pc = "connecting" /\ ~stopping
  /\ loop' = At("recv")
  /\ pump' = [pc |-> "select", hand |-> <<>>]
  /\ beat' = "select"
  /\ stream' = "up"
  /\ ctx' = "live"
  /\ UNCHANGED <<outbox, stopping, breaks, put, left, lost>>

RunReturns ==
  /\ loop.pc = "connecting" /\ stopping
  /\ loop' = At("returned")
  /\ UNCHANGED <<outbox, pump, beat, stream, ctx, stopping, breaks, put, left, lost>>

Receives == loop.pc = "recv" /\ stream = "up"

\* startTask, up to the goroutine: ACCEPTED and RUNNING are put by the loop itself.
RecvAssign(t) ==
  /\ Receives
  /\ loop' = [pc |-> "accepted", task |-> t]
  /\ UNCHANGED <<outbox, pump, beat, stream, ctx, stopping, breaks, put, left, lost>>

PutAccepted(t) ==
  /\ loop = [pc |-> "accepted", task |-> t]
  /\ Puts
  /\ loop' = [loop EXCEPT !.pc = "running"]
  /\ UNCHANGED <<pump, beat, stream, ctx, stopping, breaks, left, lost>>

PutRunning(t) ==
  /\ loop = [pc |-> "running", task |-> t]
  /\ Puts
  /\ loop' = At("recv")
  /\ UNCHANGED <<pump, beat, stream, ctx, stopping, breaks, left, lost>>

\* Mutant: the loop waits for the other two without having cancelled their context.
RecvFailsUncancelled ==
  /\ loop.pc = "recv"
  /\ stream # "up" \/ ctx = "done"
  /\ loop' = At("joinPump")
  /\ UNCHANGED <<outbox, pump, beat, stream, ctx, stopping, breaks, put, left, lost>>

\* Recv fails; the context is cancelled, and with it everything that was started under it.
RecvFails ==
  /\ loop.pc = "recv"
  /\ stream # "up" \/ ctx = "done"
  /\ loop' = At("joinPump")
  /\ ctx' = "done"
  /\ UNCHANGED <<outbox, pump, beat, stream, stopping, breaks, put, left, lost>>

PumpJoined ==
  /\ loop.pc = "joinPump" /\ pump.pc = "off"
  /\ loop' = At("joinBeat")
  /\ UNCHANGED <<outbox, pump, beat, stream, ctx, stopping, breaks, put, left, lost>>

BeatJoined ==
  /\ loop.pc = "joinBeat" /\ beat = "off"
  /\ loop' = At("connecting")
  /\ stream' = "none"
  /\ UNCHANGED <<outbox, pump, beat, ctx, stopping, breaks, put, left, lost>>

-----------------------------------------------------------------------------
(* pumpOutbox. When the context is done and there is a frame, select takes *)
(* either.                                                                 *)

PumpTakes ==
  /\ pump.pc = "select" /\ outbox # <<>>
  /\ pump' = [pc |-> "send", hand |-> <<Head(outbox)>>]
  /\ outbox' = Tail(outbox)
  /\ UNCHANGED <<loop, beat, stream, ctx, stopping, breaks, put, left, lost>>

PumpStops ==
  /\ pump.pc = "select" /\ ctx = "done"
  /\ pump' = [pc |-> "off", hand |-> <<>>]
  /\ UNCHANGED <<outbox, loop, beat, stream, ctx, stopping, breaks, put, left, lost>>

Leaves(m) == left' = IF m = Beat THEN left ELSE m

\* Send may take a frame as long as the transport has not noticed that it is broken.
SendSucceeds ==
  /\ pump.pc = "send"
  /\ pump' = [pc |-> "select", hand |-> <<>>]
  /\ Leaves(Head(pump.hand))
  /\ UNCHANGED <<outbox, loop, beat, stream, ctx, stopping, breaks, put, lost>>

\* Mutant: a failed send is logged and the pump goes on.
SendFailsOn ==
  /\ pump.pc = "send" /\ (stream # "up" \/ ctx = "done")
  /\ pump' = [pc |-> "select", hand |-> <<>>]
  /\ Leaves(Head(pump.hand))
  /\ lost' = IF Head(pump.hand) = Beat THEN lost ELSE lost + 1
  /\ UNCHANGED <<outbox, loop, beat, stream, ctx, stopping, breaks, put>>

\* The frame in hand is gone, and the pump with it.
SendFails ==
  /\ pump.pc = "send" /\ (stream # "up" \/ ctx = "done")
  /\ pump' = [pc |-> "off", hand |-> <<>>]
  /\ Leaves(Head(pump.hand))
  /\ lost' = IF Head(pump.hand) = Beat THEN lost ELSE lost + 1
  /\ UNCHANGED <<outbox, loop, beat, stream, ctx, stopping, breaks, put>>

-----------------------------------------------------------------------------
(* heartbeatLoop. It looks at its context only between two heartbeats.     *)

BeatTicks ==
  /\ beat = "select"
  /\ beat' = "put"
  /\ UNCHANGED <<outbox, loop, pump, stream, ctx, stopping, breaks, put, left, lost>>

BeatPuts ==
  /\ beat = "put" /\ HasRoom
  /\ outbox' = Append(outbox, Beat)
  /\ beat' = "select"
  /\ UNCHANGED <<loop, pump, stream, ctx, stopping, breaks, put, left, lost>>

BeatStops ==
  /\ beat = "select" /\ ctx = "done"
  /\ beat' = "off"
  /\ UNCHANGED <<outbox, loop, pump, stream, ctx, stopping, breaks, put, left, lost>>

-----------------------------------------------------------------------------
(* The transport, and the end of the process.                              *)

StreamBreaks ==
  /\ stream = "up" /\ breaks < MaxBreaks
  /\ stream' = "broken"
  /\ breaks' = breaks + 1
  /\ UNCHANGED <<outbox, loop, pump, beat, ctx, stopping, put, left, lost>>

Stop ==
  /\ ~stopping
  /\ stopping' = TRUE
  /\ ctx' = "done"
  /\ UNCHANGED <<outbox, loop, pump, beat, stream, breaks, put, left, lost>>

-----------------------------------------------------------------------------
StreamTypeOK ==
  /\ outbox \in Seq(Nat) /\ Len(outbox) <= Cap
  /\ loop \in [pc : {"connecting", "recv", "accepted", "running", "joinPump", "joinBeat",
                     "returned"}, task : Task \cup {NoTask}]
  /\ pump \in [pc : {"off", "select", "send"}, hand : Seq(Nat)]
  /\ beat \in {"off", "select", "put"}
  /\ stream \in {"none", "up", "broken"}
  /\ ctx \in {"live", "done"}
  /\ stopping \in BOOLEAN
  /\ breaks \in 0 .. MaxBreaks
  /\ put \in Nat /\ left \in 0 .. put /\ lost \in 0 .. left

\* The frames of executions in q are those with the numbers from a to b, each of them once and
\* in this order; heartbeats may stand anywhere between them.
CarriesInOrder(q, a, b) ==
  /\ \A i \in DOMAIN q : q[i] = Beat \/ q[i] \in a .. b
  /\ \A n \in a .. b : \E i \in DOMAIN q : q[i] = n
  /\ \A i, j \in DOMAIN q : i < j /\ q[i] # Beat /\ q[j] # Beat => q[i] < q[j]

\* Every frame leaves once, in the order it was put, whatever streams break in between; with
\* each stream that has ended at most one is lost by a Send that fails, the one in the pump's hand.
\* ("Leaves" means that Send took it: what the transport of a broken stream then does with
\* it is another matter, see CutAfter in WorkerHub.)
FramesSurvive ==
  /\ CarriesInOrder(pump.hand \o outbox, left + 1, put)
  /\ lost <= breaks + (IF stopping THEN 1 ELSE 0)

\* Everybody waits for room in the outbox, and nobody is left to make any.
Stuck ==
  /\ ~HasRoom /\ pump.pc = "off"
  /\ beat = "put" \/ loop.pc \in {"accepted", "running"}
=============================================================================
