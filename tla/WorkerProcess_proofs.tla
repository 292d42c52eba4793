----------------------- MODULE WorkerProcess_proofs ------------------------
(***************************************************************************)
(* What a worker's process keeps true, for any number of tasks, any room   *)
(* in the outbox, and however streams break and the process is told to     *)
(* stop: proofs about Spec of WorkerProcess.                               *)
(***************************************************************************)
EXTENDS WorkerProcess, SequenceTheorems, TLAPS

\* The pump has one frame in hand while it sends, and none otherwise; it is off while the
\* loop waits for the heartbeat, connects, or has returned.
HandFull ==
  /\ pump.pc = "send" => Len(pump.hand) = 1
  /\ pump.pc # "send" => pump.hand = <<>>
  /\ loop.pc \in {"joinBeat", "connecting", "returned"} => pump.pc = "off"

\* A pump that may lose its frame has not yet lost the one its stream accounts for.
OneMoreToLose ==
  pump.pc # "off" /\ (stream # "up" \/ ctx = "done")
    => lost < breaks + (IF stopping THEN 1 ELSE 0)

StreamInv == StreamTypeOK /\ FramesSurvive /\ HandFull /\ OneMoreToLose

\* Events are written and read only while Run waits: before it there is no process, and when
\* pumpEvents has come to the end of the events nothing can come any more. When it has broken
\* off before, what is left or still to come stays in the pipe.
EventsBetween(r) ==
  /\ events[r] = "on" => at[r] \in {"wait", "drain"}
  /\ events[r] = "cut" => at[r] \in {"wait", "drain", "report"} /\ frames[r] = 0
  /\ events[r] = "off" => pipe[r] = <<>> /\ frames[r] = 0 /\ child[r] # "alive"
  /\ child[r] = "alive" => at[r] = "wait"
  /\ at[r] \in {"none", "prepare"} => emitted[r] = <<>>
  /\ outcome[r] # "none" => at[r] = "report"

HasCaptcha(q) == \E i \in DOMAIN q : q[i] = "captcha"

\* A captcha that was emitted has been seen, or is in the pipe; and no other is.
CaptchaSeenOrAhead(r) == Emits(r, "captcha") <=> captcha[r] \/ HasCaptcha(pipe[r])

RunInv(r) ==
  /\ EventsBetween(r)
  /\ CaptchaSeenOrAhead(r)
  /\ outcome[r] \in {"SUCCEEDED", "FAILED"} =>
       ~captcha[r] /\ (Emits(r, "captcha") => events[r] = "cut")

ProcessInv == ProcessTypeOK /\ \A r \in Run : RunInv(r)

-----------------------------------------------------------------------------
(* Lines of frames.                                                        *)

\* A heartbeat at the end of the line changes nothing for the frames in it.
LEMMA BeatJoins ==
  ASSUME NEW q \in Seq(Nat), NEW a \in Nat, NEW b \in Nat, CarriesInOrder(q, a, b)
  PROVE  CarriesInOrder(Append(q, Beat), a, b)
<1>1. /\ Append(q, Beat) \in Seq(Nat)
      /\ Len(Append(q, Beat)) = Len(q) + 1
      /\ \A i \in 1 .. Len(q) : Append(q, Beat)[i] = q[i]
      /\ Append(q, Beat)[Len(q) + 1] = Beat
  BY AppendProperties DEF Beat
<1>2. DOMAIN q = 1 .. Len(q) /\ DOMAIN Append(q, Beat) = 1 .. Len(q) + 1 /\ Len(q) \in Nat
  BY <1>1, LenProperties
<1> QED
  BY <1>1, <1>2 DEF CarriesInOrder

\* The next frame takes its place behind those with smaller numbers.
LEMMA FrameJoins ==
  ASSUME NEW q \in Seq(Nat), NEW a \in Nat \ {0}, NEW b \in Nat, a <= b + 1,
         CarriesInOrder(q, a, b)
  PROVE  CarriesInOrder(Append(q, b + 1), a, b + 1)
<1>1. /\ Append(q, b + 1) \in Seq(Nat)
      /\ Len(Append(q, b + 1)) = Len(q) + 1
      /\ \A i \in 1 .. Len(q) : Append(q, b + 1)[i] = q[i]
      /\ Append(q, b + 1)[Len(q) + 1] = b + 1
  BY AppendProperties
<1>2. DOMAIN q = 1 .. Len(q) /\ DOMAIN Append(q, b + 1) = 1 .. Len(q) + 1 /\ Len(q) \in Nat
  BY <1>1, LenProperties
<1>3. \A i \in 1 .. Len(q) : q[i] = Beat \/ q[i] \in a .. b
  BY <1>2 DEF CarriesInOrder
<1> DEFINE l == Append(q, b + 1)
<1>4. \A i \in DOMAIN l : l[i] = Beat \/ l[i] \in a .. b + 1
  <2> SUFFICES ASSUME NEW i \in 1 .. Len(q) + 1
               PROVE  l[i] = Beat \/ l[i] \in a .. b + 1
    BY <1>2
  <2>1. CASE i = Len(q) + 1
    BY <2>1, <1>1
  <2>2. CASE i # Len(q) + 1
    BY <2>2, <1>1, <1>2, <1>3
  <2> QED
    BY <2>1, <2>2
<1>5. \A n \in a .. b + 1 : \E i \in DOMAIN l : l[i] = n
  <2> SUFFICES ASSUME NEW n \in a .. b + 1
               PROVE  \E i \in 1 .. Len(q) + 1 : l[i] = n
    BY <1>2
  <2>1. CASE n = b + 1
    <3>1. Len(q) + 1 \in 1 .. Len(q) + 1
      BY <1>2
    <3> QED
      BY <3>1, <2>1, <1>1
  <2>2. CASE n # b + 1
    <3>1. n \in a .. b
      BY <2>2
    <3>2. PICK i \in 1 .. Len(q) : q[i] = n
      BY <3>1, <1>2 DEF CarriesInOrder
    <3> QED
      BY <3>2, <1>1, <1>2
  <2> QED
    BY <2>1, <2>2
<1>6. \A i, j \in DOMAIN l : i < j /\ l[i] # Beat /\ l[j] # Beat => l[i] < l[j]
  <2> SUFFICES ASSUME NEW i \in 1 .. Len(q) + 1, NEW j \in 1 .. Len(q) + 1,
                      i < j, l[i] # Beat, l[j] # Beat
               PROVE  l[i] < l[j]
    BY <1>2
  <2>1. i \in 1 .. Len(q) /\ l[i] = q[i] /\ q[i] \in a .. b
    BY <1>1, <1>2, <1>3
  <2>2. CASE j = Len(q) + 1
    BY <2>1, <2>2, <1>1
  <2>3. CASE j # Len(q) + 1
    <3>1. j \in 1 .. Len(q) /\ l[j] = q[j]
      BY <2>3, <1>1, <1>2
    <3> QED
      BY <2>1, <3>1, <1>2 DEF CarriesInOrder
  <2> QED
    BY <2>2, <2>3
<1> QED
  BY <1>4, <1>5, <1>6 DEF CarriesInOrder

\* What leaves the line at its head is a heartbeat or the frame with the smallest number, and
\* the rest of the line carries the others.
LEMMA HeadLeaves ==
  ASSUME NEW q \in Seq(Nat), q # <<>>, NEW a \in Nat \ {0}, NEW b \in Nat,
         CarriesInOrder(q, a, b)
  PROVE  /\ Head(q) = Beat => CarriesInOrder(Tail(q), a, b)
         /\ Head(q) # Beat => /\ Head(q) = a /\ a <= b
                              /\ CarriesInOrder(Tail(q), a + 1, b)
<1>1. /\ Len(q) \in Nat \ {0} /\ DOMAIN q = 1 .. Len(q)
      /\ Head(q) = q[1] /\ Tail(q) \in Seq(Nat)
      /\ Len(Tail(q)) = Len(q) - 1 /\ DOMAIN Tail(q) = 1 .. Len(q) - 1
      /\ \A i \in 1 .. Len(q) - 1 : Tail(q)[i] = q[i + 1]
  BY EmptySeq, LenProperties, HeadTailProperties
<1>2. 1 \in 1 .. Len(q) /\ \A i \in 1 .. Len(q) - 1 : i + 1 \in 1 .. Len(q)
  BY <1>1
<1>3. \A i \in 1 .. Len(q) - 1 : Tail(q)[i] = Beat \/ Tail(q)[i] \in a .. b
  BY <1>1, <1>2 DEF CarriesInOrder
<1>4. \A n \in a .. b : q[1] # n => \E i \in 1 .. Len(q) - 1 : Tail(q)[i] = n
  <2> SUFFICES ASSUME NEW n \in a .. b, q[1] # n
               PROVE  \E i \in 1 .. Len(q) - 1 : Tail(q)[i] = n
    OBVIOUS
  <2>1. PICK i \in 1 .. Len(q) : q[i] = n
    BY <1>1 DEF CarriesInOrder
  <2>2. i - 1 \in 1 .. Len(q) - 1 /\ (i - 1) + 1 = i
    BY <2>1, <1>1
  <2> QED
    BY <2>1, <2>2, <1>1
<1>5. \A i, j \in 1 .. Len(q) - 1 :
        i < j /\ Tail(q)[i] # Beat /\ Tail(q)[j] # Beat => Tail(q)[i] < Tail(q)[j]
  <2> SUFFICES ASSUME NEW i \in 1 .. Len(q) - 1, NEW j \in 1 .. Len(q) - 1,
                      i < j, Tail(q)[i] # Beat, Tail(q)[j] # Beat
               PROVE  Tail(q)[i] < Tail(q)[j]
    OBVIOUS
  <2> DEFINE k == i + 1
             l == j + 1
  <2>1. k \in 1 .. Len(q) /\ l \in 1 .. Len(q) /\ k < l
    BY <1>1
  <2>2. Tail(q)[i] = q[k] /\ Tail(q)[j] = q[l]
    BY <1>1
  <2> HIDE DEF k, l
  <2> QED
    BY <2>1, <2>2, <1>1 DEF CarriesInOrder
<1>6. CASE Head(q) = Beat
  <2>1. \A n \in a .. b : q[1] # n
    BY <1>6, <1>1 DEF Beat
  <2> QED
    BY <2>1, <1>1, <1>3, <1>4, <1>5, <1>6 DEF CarriesInOrder
<1>7. CASE Head(q) # Beat
  <2>1. q[1] \in a .. b
    BY <1>7, <1>1, <1>2 DEF CarriesInOrder
  <2>2. \A i \in 1 .. Len(q) - 1 : Tail(q)[i] # Beat => q[1] < Tail(q)[i]
    <3> SUFFICES ASSUME NEW i \in 1 .. Len(q) - 1, Tail(q)[i] # Beat
                 PROVE  q[1] < Tail(q)[i]
      OBVIOUS
    <3>1. i + 1 \in 1 .. Len(q) /\ 1 < i + 1 /\ q[i + 1] = Tail(q)[i]
      BY <1>1
    <3> QED
      BY <3>1, <1>1, <1>2, <1>7 DEF CarriesInOrder
  <2>3. q[1] = a
    <3> SUFFICES ASSUME q[1] # a
                 PROVE  FALSE
      OBVIOUS
    <3>1. a \in a .. b
      BY <2>1
    <3>2. PICK i \in 1 .. Len(q) - 1 : Tail(q)[i] = a
      BY <3>1, <1>4
    <3> QED
      BY <3>2, <2>1, <2>2 DEF Beat
  <2>4. \A i \in 1 .. Len(q) - 1 : Tail(q)[i] = Beat \/ Tail(q)[i] \in a + 1 .. b
    BY <2>2, <2>3, <1>3
  <2>5. \A n \in a + 1 .. b : \E i \in 1 .. Len(q) - 1 : Tail(q)[i] = n
    <3> SUFFICES ASSUME NEW n \in a + 1 .. b
                 PROVE  \E i \in 1 .. Len(q) - 1 : Tail(q)[i] = n
      OBVIOUS
    <3>1. n \in a .. b /\ q[1] # n
      BY <2>3
    <3> QED
      BY <3>1, <1>4
  <2>6. CarriesInOrder(Tail(q), a + 1, b)
    BY <2>4, <2>5, <1>1, <1>5 DEF CarriesInOrder
  <2> QED
    BY <2>1, <2>3, <2>6, <1>1, <1>7
<1> QED
  BY <1>6, <1>7

-----------------------------------------------------------------------------
(* The stream.                                                             *)

\* What is put at the end of the outbox comes to the end of the line.
LEMMA LineGrows ==
  ASSUME NEW h \in Seq(Nat), NEW q \in Seq(Nat), NEW x \in Nat
  PROVE  /\ h \o q \in Seq(Nat) /\ Append(q, x) \in Seq(Nat)
         /\ Len(Append(q, x)) = Len(q) + 1
         /\ h \o Append(q, x) = Append(h \o q, x)
<1>1. h \o q \in Seq(Nat) /\ Append(q, x) \in Seq(Nat) /\ Len(Append(q, x)) = Len(q) + 1
  BY ConcatProperties, AppendProperties
<1>2. h \o Append(q, x) = Append(h \o q, x)
  OBVIOUS
<1> QED
  BY <1>1, <1>2

\* A frame that is taken in hand stays at the head of the line.
LEMMA LineTaken ==
  ASSUME NEW q \in Seq(Nat)
  PROVE  /\ <<>> \o q = q
         /\ q # <<>> => /\ Tail(q) \in Seq(Nat) /\ <<Head(q)>> \in Seq(Nat)
                        /\ Len(<<Head(q)>>) = 1 /\ Len(Tail(q)) = Len(q) - 1
                        /\ <<Head(q)>> \o Tail(q) = q
<1>1. <<>> \o q = q
  BY ConcatEmptySeq
<1>2. ASSUME q # <<>>
      PROVE  /\ Tail(q) \in Seq(Nat) /\ <<Head(q)>> \in Seq(Nat)
             /\ Len(<<Head(q)>>) = 1 /\ Len(Tail(q)) = Len(q) - 1
             /\ <<Head(q)>> \o Tail(q) = q
  <2>1. Head(q) \in Nat /\ Tail(q) \in Seq(Nat) /\ Len(Tail(q)) = Len(q) - 1 /\ Len(q) \in Nat \ {0}
    BY <1>2, HeadTailProperties, EmptySeq, LenProperties
  <2>2. <<Head(q)>> \o Tail(q) = q
    BY <2>1, <1>2
  <2> QED
    BY <2>1, <2>2
<1> QED
  BY <1>1, <1>2

\* The frame in hand is the head of the line, and the outbox is the rest.
LEMMA HandLeads ==
  ASSUME NEW h \in Seq(Nat), NEW q \in Seq(Nat), Len(h) = 1
  PROVE  /\ h \o q \in Seq(Nat) /\ h \o q # <<>>
         /\ Head(h) = Head(h \o q) /\ Head(h) \in Nat
         /\ Tail(h \o q) = q
<1>1. h[1] \in Nat
  <2>1. 1 \in 1 .. Len(h)
    OBVIOUS
  <2> QED
    BY <2>1, ElementOfSeq
<1>2. Head(h) = h[1] /\ Head(h) \in Nat
  BY <1>1
<1>3. h \o q \in Seq(Nat) /\ Len(h \o q) = Len(q) + 1 /\ Len(q) \in Nat /\ (h \o q)[1] = h[1]
  <2>1. Len(q) \in Nat /\ h \o q \in Seq(Nat) /\ Len(h \o q) = Len(h) + Len(q)
    BY ConcatProperties, LenProperties
  <2>2. 1 \in 1 .. Len(h) + Len(q) /\ 1 <= Len(h)
    BY <2>1
  <2>3. (h \o q)[1] = h[1]
    BY <2>2, ConcatProperties
  <2> QED
    BY <2>1, <2>3
<1>4. h \o q # <<>> /\ Head(h \o q) = h[1]
  BY <1>3, EmptySeq, HeadTailProperties
<1>5. Tail(h \o q) = q
  <2> DEFINE l == h \o q
  <2>1. /\ Tail(l) \in Seq(Nat) /\ Len(Tail(l)) = Len(q)
        /\ \A i \in 1 .. Len(q) : Tail(l)[i] = l[i + 1]
    <3> HIDE DEF l
    <3>1. l \in Seq(Nat) /\ l # <<>> /\ Len(l) = Len(q) + 1 /\ Len(q) \in Nat
      BY <1>3, <1>4 DEF l
    <3> QED
      BY <3>1, HeadTailProperties
  <2>2. \A i \in 1 .. Len(q) : l[i + 1] = q[i]
    <3> SUFFICES ASSUME NEW i \in 1 .. Len(q)
                 PROVE  l[i + 1] = q[i]
      OBVIOUS
    <3> DEFINE k == i + 1
    <3>1. k \in 1 .. Len(h) + Len(q) /\ ~(k <= Len(h)) /\ k - Len(h) = i
      BY <1>3
    <3> HIDE DEF k
    <3>2. (h \o q)[k] = q[k - Len(h)]
      BY <3>1, ConcatProperties
    <3> QED
      BY <3>1, <3>2 DEF k
  <2>3. Tail(l) = q
    <3> HIDE DEF l
    <3> DEFINE r == Tail(l)
    <3>1. r \in Seq(Nat) /\ Len(r) = Len(q) /\ \A i \in 1 .. Len(r) : r[i] = q[i]
      BY <2>1, <2>2
    <3> HIDE DEF r
    <3>2. r = q
      BY <3>1, SeqEqual
    <3> QED
      BY <3>2 DEF r
  <2> QED
    BY <2>3
<1> QED
  BY <1>2, <1>3, <1>4, <1>5

LEMMA EmptyHands ==
  /\ [pc |-> "off", hand |-> <<>>] \in [pc : {"off", "select", "send"}, hand : Seq(Nat)]
  /\ [pc |-> "select", hand |-> <<>>] \in [pc : {"off", "select", "send"}, hand : Seq(Nat)]
<1>1. <<>> \in Seq(Nat)
  BY EmptySeq
<1> QED
  BY <1>1

LEMMA StreamInit_Inv == StreamInit => StreamInv
<1> SUFFICES ASSUME StreamInit
             PROVE  StreamInv
  OBVIOUS
<1> USE StreamAssumption
<1>1. StreamTypeOK
  <2>1. <<>> \in Seq(Nat) /\ Len(<<>>) = 0
    BY EmptySeq
  <2>2. At("connecting") \in [pc : {"connecting", "recv", "accepted", "running", "joinPump",
                                   "joinBeat", "returned"}, task : Task \cup {NoTask}]
    BY DEF At
  <2>3. [pc |-> "off", hand |-> <<>>] \in [pc : {"off", "select", "send"}, hand : Seq(Nat)]
    BY <2>1
  <2>4. 0 <= Cap /\ 0 \in 0 .. MaxBreaks /\ 0 \in 0 .. 0 /\ 0 \in Nat
    OBVIOUS
  <2>5. outbox \in Seq(Nat) /\ Len(outbox) <= Cap
    BY <2>1, <2>4 DEF StreamInit
  <2> QED
    BY <2>2, <2>3, <2>4, <2>5 DEF StreamInit, StreamTypeOK
<1>2. CarriesInOrder(pump.hand \o outbox, left + 1, put)
  <2>1. pump.hand \o outbox = <<>> /\ put = 0 /\ left = 0
    BY DEF StreamInit
  <2> QED
    BY <2>1 DEF CarriesInOrder
<1>3. lost <= breaks + (IF stopping THEN 1 ELSE 0)
  BY DEF StreamInit
<1> QED
  BY <1>1, <1>2, <1>3 DEF StreamInit, StreamInv, FramesSurvive, HandFull, OneMoreToLose, At

\* Putting a frame, whoever puts it, when nothing else of the stream changes but the loop.
LEMMA PutsKeeps ==
  ASSUME StreamInv, Puts, UNCHANGED <<pump, beat, stream, ctx, stopping, breaks, left, lost>>,
         loop.pc \notin {"joinBeat", "connecting", "returned"} \/ loop' = loop,
         loop'.pc \notin {"joinBeat", "connecting", "returned"} \/ loop' = loop,
         loop' \in [pc : {"connecting", "recv", "accepted", "running", "joinPump", "joinBeat",
                          "returned"}, task : Task \cup {NoTask}]
  PROVE  StreamInv'
<1> USE StreamAssumption
<1>1. StreamTypeOK'
  <2>1. outbox' \in Seq(Nat) /\ Len(outbox') = Len(outbox) + 1 /\ Len(outbox) \in Nat
    BY AppendProperties, LenProperties DEF StreamInv, StreamTypeOK, Puts
  <2> QED
    BY <2>1 DEF StreamInv, StreamTypeOK, Puts, HasRoom
<1>2. CarriesInOrder(pump.hand \o outbox, left + 1, put)'
  <2>1. pump.hand \in Seq(Nat) /\ outbox \in Seq(Nat) /\ put \in Nat /\ left \in 0 .. put
    BY DEF StreamInv, StreamTypeOK
  <2>2. pump.hand \o outbox \in Seq(Nat)
        /\ pump.hand \o Append(outbox, put + 1) = Append(pump.hand \o outbox, put + 1)
    <3> DEFINE n == put + 1
               h == pump.hand
    <3>1. n \in Nat /\ h \in Seq(Nat) /\ outbox \in Seq(Nat)
      BY <2>1
    <3> HIDE DEF n, h
    <3>2. h \o outbox \in Seq(Nat)
      BY <3>1, LineGrows
    <3>3. h \o Append(outbox, n) = Append(h \o outbox, n)
      BY <3>1, LineGrows
    <3> QED
      BY <3>2, <3>3 DEF n, h
  <2>3. CarriesInOrder(pump.hand \o outbox, left + 1, put)
    BY DEF StreamInv, FramesSurvive
  <2>4. CarriesInOrder(Append(pump.hand \o outbox, put + 1), left + 1, put + 1)
    <3> DEFINE a == left + 1
    <3>1. a \in Nat \ {0} /\ a <= put + 1
      BY <2>1
    <3> HIDE DEF a
    <3> QED
      BY <2>1, <2>2, <2>3, <3>1, FrameJoins DEF a
  <2> QED
    BY <2>2, <2>4 DEF Puts
<1>3. (lost <= breaks + (IF stopping THEN 1 ELSE 0))' /\ OneMoreToLose'
  BY DEF StreamInv, FramesSurvive, OneMoreToLose
<1>4. HandFull'
  BY DEF StreamInv, HandFull
<1> QED
  BY <1>1, <1>2, <1>3, <1>4 DEF StreamInv, FramesSurvive

\* Steps after which the line of frames is what it was.
LEMMA QuietStreamStep ==
  ASSUME StreamInv,
         \/ Connect \/ RunReturns \/ PumpJoined \/ BeatJoined \/ PumpTakes \/ PumpStops
         \/ BeatTicks \/ BeatStops \/ StreamBreaks \/ RecvFails \/ Stop
         \/ \E t \in Task : RecvAssign(t)
         \/ UNCHANGED streamVars
  PROVE  StreamInv'
<1> USE StreamAssumption
<1>1. StreamTypeOK'
  <2>1. outbox # <<>> =>
          Tail(outbox) \in Seq(Nat) /\ <<Head(outbox)>> \in Seq(Nat) /\ Len(Tail(outbox)) = Len(outbox) - 1
    BY LineTaken DEF StreamInv, StreamTypeOK
  <2>2. Len(outbox) \in Nat
    BY LenProperties DEF StreamInv, StreamTypeOK
  <2> QED
    <3>1. outbox' \in Seq(Nat) /\ Len(outbox') <= Cap
      <4>1. CASE PumpTakes
        BY <4>1, <2>1, <2>2 DEF StreamInv, StreamTypeOK, PumpTakes
      <4>2. CASE ~PumpTakes
        <5>1. outbox' = outbox
          BY <4>2 DEF Connect, RunReturns, PumpJoined, BeatJoined, PumpStops, BeatTicks, BeatStops,
            StreamBreaks, RecvFails, Stop, RecvAssign, streamVars
        <5> QED
          BY <5>1 DEF StreamInv, StreamTypeOK
      <4> QED
        BY <4>1, <4>2
    <3>2. loop' \in [pc : {"connecting", "recv", "accepted", "running", "joinPump", "joinBeat",
                          "returned"}, task : Task \cup {NoTask}]
      BY DEF StreamInv, StreamTypeOK, At, Connect, RunReturns, PumpJoined, BeatJoined,
        PumpTakes, PumpStops, BeatTicks, BeatStops, StreamBreaks, RecvFails, Stop, RecvAssign,
        streamVars
    <3>3. pump' \in [pc : {"off", "select", "send"}, hand : Seq(Nat)]
      <4>1. CASE PumpTakes
        BY <4>1, <2>1 DEF PumpTakes
      <4>2. CASE Connect \/ PumpStops
        BY <4>2, EmptyHands DEF Connect, PumpStops
      <4>3. CASE ~PumpTakes /\ ~Connect /\ ~PumpStops
        <5>1. pump' = pump
          BY <4>3 DEF RunReturns, PumpJoined, BeatJoined, BeatTicks, BeatStops, StreamBreaks,
            RecvFails, Stop, RecvAssign, streamVars
        <5> QED
          BY <5>1 DEF StreamInv, StreamTypeOK
      <4> QED
        BY <4>1, <4>2, <4>3
    <3>4. (/\ beat \in {"off", "select", "put"}
           /\ stream \in {"none", "up", "broken"}
           /\ ctx \in {"live", "done"}
           /\ stopping \in BOOLEAN
           /\ breaks \in 0 .. MaxBreaks
           /\ put \in Nat /\ left \in 0 .. put /\ lost \in 0 .. left)'
      <4>1. stopping' \in BOOLEAN
        BY DEF StreamInv, StreamTypeOK, Connect, RunReturns, PumpJoined, BeatJoined, PumpTakes,
          PumpStops, BeatTicks, BeatStops, StreamBreaks, RecvFails, Stop, RecvAssign, streamVars
      <4>2. breaks' \in 0 .. MaxBreaks
        <5>1. breaks \in 0 .. MaxBreaks /\ (breaks < MaxBreaks => breaks + 1 \in 0 .. MaxBreaks)
          BY DEF StreamInv, StreamTypeOK
        <5> QED
          BY <5>1 DEF Connect, RunReturns, PumpJoined, BeatJoined, PumpTakes,
            PumpStops, BeatTicks, BeatStops, StreamBreaks, RecvFails, Stop, RecvAssign, streamVars
      <4>3. put' = put /\ left' = left /\ lost' = lost
        BY DEF Connect, RunReturns, PumpJoined, BeatJoined, PumpTakes,
          PumpStops, BeatTicks, BeatStops, StreamBreaks, RecvFails, Stop, RecvAssign, streamVars
      <4>4. (/\ beat \in {"off", "select", "put"}
             /\ stream \in {"none", "up", "broken"}
             /\ ctx \in {"live", "done"})'
        BY DEF StreamInv, StreamTypeOK, Connect, RunReturns, PumpJoined, BeatJoined, PumpTakes,
          PumpStops, BeatTicks, BeatStops, StreamBreaks, RecvFails, Stop, RecvAssign, streamVars
      <4> QED
        BY <4>1, <4>2, <4>3, <4>4 DEF StreamInv, StreamTypeOK
    <3> QED
      BY <3>1, <3>2, <3>3, <3>4 DEF StreamTypeOK
<1>2. pump'.hand \o outbox' = pump.hand \o outbox /\ left' = left /\ put' = put
  <2>1. CASE Connect
    BY <2>1 DEF StreamInv, HandFull, Connect
  <2>2. CASE PumpTakes
    <3>1. pump.hand = <<>> /\ outbox \in Seq(Nat) /\ outbox # <<>>
      BY <2>2 DEF StreamInv, StreamTypeOK, HandFull, PumpTakes
    <3>2. <<>> \o outbox = outbox /\ <<Head(outbox)>> \o Tail(outbox) = outbox
      BY <3>1, LineTaken
    <3> QED
      BY <2>2, <3>1, <3>2 DEF PumpTakes
  <2>3. CASE PumpStops
    BY <2>3 DEF StreamInv, HandFull, PumpStops
  <2> QED
    BY <2>1, <2>2, <2>3 DEF RunReturns, PumpJoined, BeatJoined, BeatTicks, BeatStops,
      StreamBreaks, RecvFails, Stop, RecvAssign, streamVars
<1>3. HandFull'
  <2>1. outbox # <<>> => Len(<<Head(outbox)>>) = 1
    BY LineTaken DEF StreamInv, StreamTypeOK
  <2> QED
    BY <2>1 DEF StreamInv, StreamTypeOK, HandFull, At, Connect, RunReturns, PumpJoined, BeatJoined,
      PumpTakes, PumpStops, BeatTicks, BeatStops, StreamBreaks, RecvFails, Stop, RecvAssign,
      Receives, streamVars
<1>4. (lost <= breaks + (IF stopping THEN 1 ELSE 0))' /\ OneMoreToLose'
  <2> DEFINE counted == /\ (lost <= breaks + (IF stopping THEN 1 ELSE 0))'
                        /\ OneMoreToLose'
  <2> SUFFICES counted
    OBVIOUS
  <2>1. CASE Connect \/ RunReturns \/ PumpJoined \/ BeatJoined
    BY <2>1 DEF StreamInv, StreamTypeOK, FramesSurvive, HandFull, OneMoreToLose, Connect,
      RunReturns, PumpJoined, BeatJoined
  <2>2. CASE PumpTakes \/ PumpStops
    <3>1. /\ stream' = stream /\ ctx' = ctx /\ breaks' = breaks /\ stopping' = stopping
          /\ lost' = lost
      BY <2>2 DEF PumpTakes, PumpStops
    <3>2. pump'.pc = "off" \/ pump.pc # "off"
      BY <2>2 DEF PumpTakes, PumpStops
    <3> QED
      BY <3>1, <3>2 DEF StreamInv, FramesSurvive, OneMoreToLose
  <2>3. CASE StreamBreaks
    BY <2>3 DEF StreamInv, StreamTypeOK, FramesSurvive, OneMoreToLose, StreamBreaks
  <2>4. CASE RecvFails \/ Stop
    BY <2>4 DEF StreamInv, StreamTypeOK, FramesSurvive, OneMoreToLose, RecvFails, Stop
  <2>5. CASE BeatTicks \/ BeatStops \/ (\E t \in Task : RecvAssign(t)) \/ UNCHANGED streamVars
    BY <2>5 DEF StreamInv, FramesSurvive, OneMoreToLose, BeatTicks, BeatStops, RecvAssign,
      Receives, streamVars
  <2> QED
    BY <2>1, <2>2, <2>3, <2>4, <2>5
<1> QED
  BY <1>1, <1>2, <1>3, <1>4 DEF StreamInv, FramesSurvive

LEMMA BeatPutsKeeps ==
  ASSUME StreamInv, BeatPuts
  PROVE  StreamInv'
<1> USE StreamAssumption
<1>1. pump.hand \in Seq(Nat) /\ outbox \in Seq(Nat) /\ put \in Nat /\ left \in 0 .. put
  BY DEF StreamInv, StreamTypeOK
<1>2. /\ pump.hand \o outbox \in Seq(Nat)
      /\ pump.hand \o Append(outbox, Beat) = Append(pump.hand \o outbox, Beat)
      /\ Append(outbox, Beat) \in Seq(Nat) /\ Len(Append(outbox, Beat)) = Len(outbox) + 1
  <2>1. Beat \in Nat
    BY DEF Beat
  <2> QED
    BY <1>1, <2>1, LineGrows
<1>3. StreamTypeOK'
  BY <1>2, LenProperties DEF StreamInv, StreamTypeOK, BeatPuts, HasRoom
<1>4. CarriesInOrder(pump.hand \o outbox, left + 1, put)'
  <2>1. CarriesInOrder(pump.hand \o outbox, left + 1, put)
    BY DEF StreamInv, FramesSurvive
  <2>2. CarriesInOrder(Append(pump.hand \o outbox, Beat), left + 1, put)
    <3>1. left + 1 \in Nat
      BY <1>1
    <3> QED
      BY <1>1, <1>2, <2>1, <3>1, BeatJoins
  <2> QED
    BY <1>2, <2>2 DEF BeatPuts
<1> QED
  BY <1>3, <1>4 DEF StreamInv, FramesSurvive, HandFull, OneMoreToLose, BeatPuts

\* The frame in hand leaves, sent or lost; the pump goes on or ends.
LEMMA SendKeeps ==
  ASSUME StreamInv, SendSucceeds \/ SendFails
  PROVE  StreamInv'
<1> USE StreamAssumption
<1> DEFINE line == pump.hand \o outbox
           m == Head(pump.hand)
<1>1. /\ pump.pc = "send" /\ pump.hand \in Seq(Nat) /\ Len(pump.hand) = 1
      /\ outbox \in Seq(Nat) /\ put \in Nat /\ left \in 0 .. put /\ lost \in 0 .. left
  BY DEF StreamInv, StreamTypeOK, HandFull, SendSucceeds, SendFails
<1>2. line \in Seq(Nat) /\ line # <<>> /\ m = Head(line) /\ m \in Nat /\ Tail(line) = outbox
  BY <1>1, HandLeads
<1>3. CarriesInOrder(line, left + 1, put)
  BY DEF StreamInv, FramesSurvive
<1>4. /\ m = Beat => CarriesInOrder(outbox, left + 1, put)
      /\ m # Beat => m = left + 1 /\ left + 1 <= put /\ CarriesInOrder(outbox, m + 1, put)
  <2> HIDE DEF line, m
  <2> DEFINE a == left + 1
  <2>1. a \in Nat \ {0}
    BY <1>1
  <2> HIDE DEF a
  <2>2. /\ m = Beat => CarriesInOrder(outbox, a, put)
        /\ m # Beat => m = a /\ a <= put /\ CarriesInOrder(outbox, a + 1, put)
    BY <1>1, <1>2, <1>3, <2>1, HeadLeaves DEF a
  <2> QED
    BY <2>2 DEF a
<1>5. /\ left' = IF m = Beat THEN left ELSE m
      /\ lost' \in {lost, IF m = Beat THEN lost ELSE lost + 1}
      /\ pump'.hand = <<>> /\ pump' \in {[pc |-> "select", hand |-> <<>>], [pc |-> "off", hand |-> <<>>]}
      /\ UNCHANGED <<outbox, loop, beat, stream, ctx, stopping, breaks, put>>
  BY DEF SendSucceeds, SendFails, Leaves
<1>6. StreamTypeOK'
  <2> HIDE DEF m
  <2>1. pump' \in [pc : {"off", "select", "send"}, hand : Seq(Nat)]
    BY <1>5, EmptyHands
  <2>2. left' \in 0 .. put /\ lost' \in 0 .. left'
    BY <1>1, <1>4, <1>5
  <2> QED
    BY <1>1, <1>5, <2>1, <2>2 DEF StreamInv, StreamTypeOK
<1>7. CarriesInOrder(pump.hand \o outbox, left + 1, put)'
  <2>1. <<>> \o outbox = outbox
    BY <1>1, LineTaken
  <2>2. CarriesInOrder(outbox, left' + 1, put)
    <3> HIDE DEF m
    <3> QED
      BY <1>4, <1>5
  <2> QED
    BY <1>5, <2>1, <2>2
<1>8. (lost <= breaks + (IF stopping THEN 1 ELSE 0))'
  BY <1>1 DEF StreamInv, StreamTypeOK, FramesSurvive, OneMoreToLose, SendSucceeds, SendFails
<1>9. OneMoreToLose'
  BY <1>1 DEF StreamInv, StreamTypeOK, FramesSurvive, OneMoreToLose, SendSucceeds, SendFails
<1>10. HandFull'
  BY <1>1, <1>5 DEF StreamInv, HandFull, SendSucceeds, SendFails
<1> QED
  BY <1>6, <1>7, <1>8, <1>9, <1>10 DEF StreamInv, FramesSurvive

-----------------------------------------------------------------------------
(* The executions.                                                         *)

LEMMA ProcessInit_Inv == ProcessInit => ProcessInv
<1> SUFFICES ASSUME ProcessInit
             PROVE  ProcessInv
  OBVIOUS
<1>1. <<>> \in Seq(EventKind)
  BY EmptySeq
<1>2. ProcessTypeOK
  BY <1>1 DEF ProcessInit, ProcessTypeOK
<1>3. \A r \in Run : RunInv(r)
  BY DEF ProcessInit, RunInv, EventsBetween, CaptchaSeenOrAhead, Emits, HasCaptcha
<1> QED
  BY <1>2, <1>3 DEF ProcessInv

\* A step of an execution: Run, its process or pumpEvents, with the loop's part in it.
StepOf(t) ==
  \/ Internal(t) \/ FramePut(t) \/ Reported(t)
  \/ \E done \in BOOLEAN : Begin(t, done)

LEMMA StepTypes ==
  ASSUME ProcessInv, NEW t \in Run, StepOf(t)
  PROVE  ProcessTypeOK'
<1> USE DEF ProcessInv, ProcessTypeOK
<1>1. pipe[t] \in Seq(EventKind) /\ emitted[t] \in Seq(EventKind) /\ <<>> \in Seq(EventKind)
  BY EmptySeq
<1>2. CASE PrepareFails(t)
  BY <1>2 DEF PrepareFails
<1>3. CASE Spawn(t)
  BY <1>3 DEF Spawn
<1>4. ASSUME NEW k \in EventKind, Emit(t, k)
      PROVE  ProcessTypeOK'
  <2>1. Append(pipe[t], k) \in Seq(EventKind) /\ Append(emitted[t], k) \in Seq(EventKind)
    BY <1>1, AppendProperties
  <2> QED
    BY <1>4, <2>1 DEF Emit
<1>5. CASE Fork(t) \/ ForkedEnds(t)
  BY <1>5 DEF Fork, ForkedEnds
<1>6. CASE Expire(t)
  BY <1>6 DEF Expire
<1>7. ASSUME NEW how \in {"ok", "failed"}, ChildEnds(t, how)
      PROVE  ProcessTypeOK'
  BY <1>7 DEF ChildEnds
<1>8. CASE ReadEvent(t)
  <2>1. Tail(pipe[t]) \in Seq(EventKind)
    BY <1>1, <1>8, HeadTailProperties DEF ReadEvent
  <2>2. FramesOf(Head(pipe[t])) \in 0 .. 2
    BY DEF FramesOf
  <2>3. captcha' \in [Run -> BOOLEAN]
    <3> DEFINE seen == captcha[t] \/ Head(pipe[t]) = "captcha"
    <3>1. seen \in BOOLEAN /\ captcha' = [captcha EXCEPT ![t] = seen]
      BY <1>8 DEF ReadEvent
    <3> HIDE DEF seen
    <3> QED
      BY <3>1
  <2> QED
    BY <1>8, <2>1, <2>2, <2>3 DEF ReadEvent
<1>9. CASE EndOfEvents(t) \/ EventsCutOff(t) \/ Waited(t)
  BY <1>9 DEF EndOfEvents, EventsCutOff, Waited
<1>10. CASE Drained(t)
  <2>1. classifyOutcome(t) \in {"FAILED", "CANCELLED", "TIMEOUT", "CAPTCHA", "SUCCEEDED"}
    BY DEF classifyOutcome
  <2> QED
    BY <1>10, <2>1 DEF Drained
<1>11. CASE FramePut(t)
  <2>1. frames[t] - 1 \in 0 .. 2
    BY <1>11 DEF FramePut
  <2> QED
    BY <1>11, <2>1 DEF FramePut
<1>12. CASE Reported(t)
  BY <1>1, <1>12 DEF Reported
<1>13. ASSUME NEW done \in BOOLEAN, Begin(t, done)
       PROVE  ProcessTypeOK'
  BY <1>13 DEF Begin
<1> QED
  BY <1>2, <1>3, <1>4, <1>5, <1>6, <1>7, <1>8, <1>9, <1>10, <1>11, <1>12, <1>13
     DEF StepOf, Internal, Killed

\* What one execution does leaves the others as they are.
LEMMA OthersUntouched ==
  ASSUME ProcessInv, NEW t \in Run, StepOf(t), NEW r \in Run, r # t
  PROVE  /\ at'[r] = at[r] /\ child'[r] = child[r] /\ pipe'[r] = pipe[r]
         /\ emitted'[r] = emitted[r] /\ frames'[r] = frames[r] /\ events'[r] = events[r]
         /\ captcha'[r] = captcha[r] /\ outcome'[r] = outcome[r]
  BY DEF ProcessInv, ProcessTypeOK, StepOf, Internal, PrepareFails, Spawn, Emit, Fork, ForkedEnds,
    Expire, Killed, ChildEnds, ReadEvent, EndOfEvents, EventsCutOff, Waited, Drained, FramePut,
    Reported, Begin

LEMMA StepBetween ==
  ASSUME ProcessInv, NEW t \in Run, StepOf(t)
  PROVE  EventsBetween(t)'
<1> USE DEF ProcessInv, ProcessTypeOK, RunInv, EventsBetween
<1>1. CASE PrepareFails(t) \/ Spawn(t)
  BY <1>1 DEF PrepareFails, Spawn
<1>2. ASSUME NEW k \in EventKind, Emit(t, k)
      PROVE  EventsBetween(t)'
  BY <1>2 DEF Emit
<1>3. CASE Fork(t) \/ ForkedEnds(t) \/ Expire(t)
  BY <1>3 DEF Fork, ForkedEnds, Expire
<1>4. ASSUME NEW how \in {"ok", "failed"}, ChildEnds(t, how)
      PROVE  EventsBetween(t)'
  BY <1>4 DEF ChildEnds
<1>5. CASE ReadEvent(t)
  BY <1>5 DEF ReadEvent
<1>6. CASE EndOfEvents(t) \/ EventsCutOff(t) \/ Waited(t) \/ Drained(t)
  BY <1>6 DEF EndOfEvents, EventsCutOff, Waited, Drained
<1>7. CASE FramePut(t)
  BY <1>7 DEF FramePut
<1>8. CASE Reported(t)
  BY <1>8 DEF Reported
<1>9. ASSUME NEW done \in BOOLEAN, Begin(t, done)
      PROVE  EventsBetween(t)'
  BY <1>9 DEF Begin
<1> QED
  BY <1>1, <1>2, <1>3, <1>4, <1>5, <1>6, <1>7, <1>8, <1>9 DEF StepOf, Internal, Killed

LEMMA CaptchaAppended ==
  ASSUME NEW q \in Seq(EventKind), NEW k \in EventKind
  PROVE  HasCaptcha(Append(q, k)) <=> HasCaptcha(q) \/ k = "captcha"
<1>1. /\ DOMAIN Append(q, k) = 1 .. Len(q) + 1 /\ DOMAIN q = 1 .. Len(q)
      /\ \A i \in 1 .. Len(q) : Append(q, k)[i] = q[i]
      /\ Append(q, k)[Len(q) + 1] = k
      /\ Len(q) \in Nat
  BY AppendProperties, LenProperties
<1>2. Len(q) + 1 \in 1 .. Len(q) + 1 /\ 1 .. Len(q) + 1 = (1 .. Len(q)) \cup {Len(q) + 1}
  BY <1>1
<1> QED
  BY <1>1, <1>2 DEF HasCaptcha

LEMMA CaptchaTaken ==
  ASSUME NEW q \in Seq(EventKind), q # <<>>
  PROVE  HasCaptcha(q) <=> Head(q) = "captcha" \/ HasCaptcha(Tail(q))
<1>1. /\ Len(q) \in Nat \ {0} /\ DOMAIN q = 1 .. Len(q) /\ Head(q) = q[1]
      /\ DOMAIN Tail(q) = 1 .. Len(q) - 1
      /\ \A i \in 1 .. Len(q) - 1 : Tail(q)[i] = q[i + 1]
  BY EmptySeq, LenProperties, HeadTailProperties
<1>2. ASSUME NEW i \in DOMAIN q, q[i] = "captcha", i # 1
      PROVE  HasCaptcha(Tail(q))
  <2>1. i - 1 \in DOMAIN Tail(q) /\ (i - 1) + 1 = i
    BY <1>1, <1>2
  <2> QED
    BY <1>1, <1>2, <2>1 DEF HasCaptcha
<1>3. ASSUME HasCaptcha(q), ~HasCaptcha(Tail(q))
      PROVE  Head(q) = "captcha"
  <2>1. PICK i \in DOMAIN q : q[i] = "captcha"
    BY <1>3 DEF HasCaptcha
  <2>2. i = 1
    BY <1>2, <1>3, <2>1
  <2> QED
    BY <1>1, <2>1, <2>2
<1>4. ASSUME Head(q) = "captcha"
      PROVE  HasCaptcha(q)
  BY <1>1, <1>4 DEF HasCaptcha
<1>5. ASSUME HasCaptcha(Tail(q))
      PROVE  HasCaptcha(q)
  <2>1. PICK i \in 1 .. Len(q) - 1 : Tail(q)[i] = "captcha"
    BY <1>1, <1>5 DEF HasCaptcha
  <2>2. i + 1 \in 1 .. Len(q) /\ q[i + 1] = "captcha"
    BY <1>1, <2>1
  <2> QED
    BY <1>1, <2>2 DEF HasCaptcha
<1> QED
  BY <1>3, <1>4, <1>5

\* Of the events read and the events emitted none is passed over.
LEMMA StepSees ==
  ASSUME ProcessInv, NEW t \in Run, StepOf(t)
  PROVE  CaptchaSeenOrAhead(t)'
<1> USE DEF ProcessInv, ProcessTypeOK
<1>1. /\ pipe[t] \in Seq(EventKind) /\ emitted[t] \in Seq(EventKind) /\ t \in Run
      /\ ~HasCaptcha(<<>>)
  BY DEF HasCaptcha
<1>2. HasCaptcha(emitted[t]) <=> captcha[t] \/ HasCaptcha(pipe[t])
  BY DEF RunInv, CaptchaSeenOrAhead, Emits, HasCaptcha
<1>3. SUFFICES HasCaptcha(emitted'[t]) <=> captcha'[t] \/ HasCaptcha(pipe'[t])
  BY DEF CaptchaSeenOrAhead, Emits, HasCaptcha
<1>4. ASSUME NEW k \in EventKind, Emit(t, k)
      PROVE  HasCaptcha(emitted'[t]) <=> captcha'[t] \/ HasCaptcha(pipe'[t])
  <2>1. pipe'[t] = Append(pipe[t], k) /\ emitted'[t] = Append(emitted[t], k) /\ captcha'[t] = captcha[t]
    BY <1>4 DEF Emit
  <2> QED
    BY <1>1, <1>2, <2>1, CaptchaAppended
<1>5. CASE ReadEvent(t)
  <2>1. /\ emitted'[t] = emitted[t] /\ pipe'[t] = Tail(pipe[t]) /\ pipe[t] # <<>>
        /\ captcha'[t] <=> captcha[t] \/ Head(pipe[t]) = "captcha"
    BY <1>5 DEF ReadEvent
  <2>2. HasCaptcha(pipe[t]) <=> Head(pipe[t]) = "captcha" \/ HasCaptcha(Tail(pipe[t]))
    BY <1>1, <2>1, CaptchaTaken
  <2> QED
    BY <1>2, <2>1, <2>2
<1>6. CASE Reported(t)
  <2>1. emitted'[t] = <<>> /\ pipe'[t] = <<>> /\ ~captcha'[t]
    BY <1>6 DEF Reported
  <2> QED
    BY <1>1, <2>1
<1>8. ASSUME NEW done \in BOOLEAN, Begin(t, done)
      PROVE  HasCaptcha(emitted'[t]) <=> captcha'[t] \/ HasCaptcha(pipe'[t])
  <2>1. emitted' = emitted /\ pipe' = pipe /\ captcha' = captcha
    BY <1>8 DEF Begin
  <2> QED
    BY <1>2, <2>1
<1>7. ASSUME ~ReadEvent(t), ~Reported(t), \A k \in EventKind : ~Emit(t, k),
             ~\E done \in BOOLEAN : Begin(t, done)
      PROVE  HasCaptcha(emitted'[t]) <=> captcha'[t] \/ HasCaptcha(pipe'[t])
  <2>1. emitted' = emitted /\ pipe' = pipe /\ captcha' = captcha
    BY <1>7 DEF StepOf, Internal, PrepareFails, Spawn, Fork, ForkedEnds, Expire, Killed, ChildEnds,
      EndOfEvents, EventsCutOff, Waited, Drained, FramePut
  <2> QED
    BY <1>2, <2>1
<1> QED
  BY <1>4, <1>5, <1>6, <1>7, <1>8

LEMMA StepDecides ==
  ASSUME ProcessInv, NEW t \in Run, StepOf(t)
  PROVE  (outcome[t] \in {"SUCCEEDED", "FAILED"} =>
            ~captcha[t] /\ (Emits(t, "captcha") => events[t] = "cut"))'
<1> USE DEF ProcessInv, ProcessTypeOK, RunInv, EventsBetween
<1>1. CASE PrepareFails(t)
  BY <1>1 DEF PrepareFails, Emits, CaptchaSeenOrAhead
<1>2. ASSUME NEW k \in EventKind, Emit(t, k)
      PROVE  outcome'[t] = "none"
  BY <1>2 DEF Emit
<1>3. CASE Drained(t)
  <2>1. captcha[t] => outcome'[t] \notin {"SUCCEEDED", "FAILED"}
    BY <1>3 DEF Drained, classifyOutcome
  <2>2. events[t] = "cut" \/ pipe[t] = <<>>
    BY <1>3 DEF Drained
  <2>3. Emits(t, "captcha") => captcha[t] \/ events[t] = "cut"
    BY <2>2 DEF CaptchaSeenOrAhead, HasCaptcha
  <2>4. emitted' = emitted /\ captcha' = captcha /\ events' = events
    BY <1>3 DEF Drained
  <2> QED
    BY <2>1, <2>3, <2>4 DEF Emits
<1>4. CASE Reported(t)
  BY <1>4 DEF Reported
<1>5. CASE ReadEvent(t) \/ EndOfEvents(t) \/ EventsCutOff(t) \/ Spawn(t)
  <2>1. outcome'[t] = "none"
    BY <1>5 DEF ReadEvent, EndOfEvents, EventsCutOff, Spawn
  <2> QED
    BY <2>1
<1>6. ASSUME ~PrepareFails(t), ~Drained(t), ~Reported(t), \A k \in EventKind : ~Emit(t, k),
             ~(ReadEvent(t) \/ EndOfEvents(t) \/ EventsCutOff(t) \/ Spawn(t))
      PROVE  outcome' = outcome /\ emitted' = emitted /\ captcha' = captcha /\ events' = events
  BY <1>6 DEF StepOf, Internal, Begin, Fork, ForkedEnds, Expire, Killed, ChildEnds, Waited,
    FramePut
<1> QED
  BY <1>1, <1>2, <1>3, <1>4, <1>5, <1>6 DEF Emits

LEMMA StepKeeps ==
  ASSUME ProcessInv, NEW t \in Run, StepOf(t)
  PROVE  ProcessInv'
<1>1. ProcessTypeOK'
  BY StepTypes
<1>2. RunInv(t)'
  BY StepBetween, StepSees, StepDecides DEF RunInv
<1>3. ASSUME NEW r \in Run, r # t
      PROVE  RunInv(r)'
  BY <1>3, OthersUntouched DEF ProcessInv, RunInv, EventsBetween, CaptchaSeenOrAhead, Emits, HasCaptcha
<1> QED
  BY <1>1, <1>2, <1>3 DEF ProcessInv

\* A cancellation, of one execution or of all that run, changes nothing else.
LEMMA CancelKeeps ==
  ASSUME ProcessInv, NEW R \in SUBSET Run,
         Cancel(R) \/ UNCHANGED cancelled,
         UNCHANGED <<at, expired, child, forked, pipe, emitted, frames, events, captcha, outcome>>
  PROVE  ProcessInv'
<1>1. cancelled' \in [Run -> BOOLEAN]
  <2>1. CASE UNCHANGED cancelled
    BY <2>1 DEF ProcessInv, ProcessTypeOK
  <2>2. CASE Cancel(R)
    <3> DEFINE c(r) == cancelled[r] \/ (r \in R /\ Active(r))
    <3>1. \A r \in Run : c(r) \in BOOLEAN
      OBVIOUS
    <3>2. cancelled' = [r \in Run |-> c(r)]
      BY <2>2 DEF Cancel
    <3> HIDE DEF c
    <3> QED
      BY <3>1, <3>2
  <2> QED
    BY <2>1, <2>2
<1> QED
  BY <1>1 DEF ProcessInv, ProcessTypeOK, RunInv, EventsBetween, CaptchaSeenOrAhead, Emits, HasCaptcha

-----------------------------------------------------------------------------
(* The process.                                                            *)

LEMMA ProcessNext ==
  ASSUME StreamInv, ProcessInv, [Next]_vars
  PROVE  StreamInv' /\ ProcessInv'
<1> USE ProcessTasks
<1>1. ASSUME StreamStep
      PROVE  StreamInv' /\ ProcessInv'
  <2>1. StreamInv'
    BY <1>1, QuietStreamStep, BeatPutsKeeps, SendKeeps DEF StreamStep
  <2>2. ProcessInv'
    BY <1>1, CancelKeeps DEF StreamStep, processVars
  <2> QED
    BY <2>1, <2>2
<1>2. ASSUME Ends(RecvFails) \/ Ends(Stop)
      PROVE  StreamInv' /\ ProcessInv'
  <2>1. StreamInv'
    BY <1>2, QuietStreamStep DEF Ends
  <2>2. ProcessInv'
    BY <1>2, CancelKeeps DEF Ends
  <2> QED
    BY <2>1, <2>2
<1>3. ASSUME NEW t \in Task, TaskStep(t)
      PROVE  StreamInv' /\ ProcessInv'
  <2>1. CASE Assign(t)
    <3>1. StreamInv'
      BY <2>1, QuietStreamStep DEF Assign
    <3>2. ProcessInv'
      BY <2>1, CancelKeeps DEF Assign, processVars
    <3> QED
      BY <3>1, <3>2
  <2>2. CASE Accept(t)
    <3>1. loop' = [pc |-> "running", task |-> t]
      BY <2>2 DEF Accept, PutAccepted
    <3>2. StreamInv'
      BY <2>2, <3>1, PutsKeeps DEF Accept, PutAccepted
    <3>3. ProcessInv'
      BY <2>2, CancelKeeps DEF Accept, processVars
    <3> QED
      BY <3>2, <3>3
  <2>3. CASE StartRun(t)
    <3>1. StreamInv'
      BY <2>3, PutsKeeps DEF StartRun, PutRunning, At
    <3>2. StepOf(t)
      <4> DEFINE done == ctx = "done"
      <4>1. done \in BOOLEAN /\ Begin(t, done)
        BY <2>3 DEF StartRun
      <4> HIDE DEF done
      <4> QED
        BY <4>1 DEF StepOf
    <3> QED
      BY <3>1, <3>2, StepKeeps
  <2>4. CASE RecvCancel(t)
    <3>1. StreamInv'
      BY <2>4, QuietStreamStep DEF RecvCancel, streamVars
    <3>2. ProcessInv'
      BY <2>4, CancelKeeps DEF RecvCancel
    <3> QED
      BY <3>1, <3>2
  <2>5. CASE RunStep(t)
    <3>1. StreamInv'
      BY <2>5, QuietStreamStep DEF RunStep
    <3>2. ProcessInv'
      BY <2>5, StepKeeps DEF RunStep, StepOf
    <3> QED
      BY <3>1, <3>2
  <2>6. CASE PutFrame(t) \/ Report(t)
    <3>1. StreamInv'
      BY <2>6, PutsKeeps DEF PutFrame, Report, StreamInv, StreamTypeOK
    <3>2. ProcessInv'
      BY <2>6, StepKeeps DEF PutFrame, Report, StepOf
    <3> QED
      BY <3>1, <3>2
  <2> QED
    BY <1>3, <2>1, <2>2, <2>3, <2>4, <2>5, <2>6 DEF TaskStep
<1>4. CASE UNCHANGED vars
  <2>1. UNCHANGED streamVars /\ UNCHANGED processVars
    BY <1>4 DEF vars
  <2>2. StreamInv'
    BY <2>1, QuietStreamStep
  <2>3. ProcessInv'
    BY <2>1, CancelKeeps DEF processVars
  <2> QED
    BY <2>2, <2>3
<1> QED
  BY <1>1, <1>2, <1>3, <1>4 DEF Next

THEOREM ProcessCorrect == Spec => [](StreamInv /\ ProcessInv)
<1>1. Init => StreamInv /\ ProcessInv
  BY StreamInit_Inv, ProcessInit_Inv DEF Init
<1>2. StreamInv /\ ProcessInv /\ [Next]_vars => (StreamInv /\ ProcessInv)'
  BY ProcessNext
<1> QED
  BY <1>1, <1>2, PTL DEF Spec

\* Outbox, loops, executions and histories stay in their types; in particular the outbox never
\* holds more than it has room for, and no more frames are lost than have left.
THEOREM TypeCorrect == Spec => []TypeOK
<1>1. StreamInv /\ ProcessInv => TypeOK
  BY DEF StreamInv, ProcessInv, TypeOK
<1> QED
  BY <1>1, ProcessCorrect, PTL

\* The frames of the executions leave the worker in the order they were put, none twice and
\* none passed over, for any number of streams; with each stream that ends at most the one in
\* the pump's hand is lost (pumpOutbox, the outbox kept from one stream to the next).
THEOREM FramesCorrect == Spec => []FramesSurvive
<1>1. StreamInv /\ ProcessInv => FramesSurvive
  BY DEF StreamInv
<1> QED
  BY <1>1, ProcessCorrect, PTL

\* The outcome of an execution takes in what its spider has emitted: Run decides when cmd.Wait
\* and wg.Wait have both returned, and then nothing is left in the pipe, unless the reading
\* has broken off at a line that was too long or at an error.
THEOREM OutcomeCorrect == Spec => []OutcomeIsWhole
<1>1. StreamInv /\ ProcessInv => OutcomeIsWhole
  BY DEF ProcessInv, ProcessTypeOK, RunInv, EventsBetween, OutcomeIsWhole
<1> QED
  BY <1>1, ProcessCorrect, PTL
-----------------------------------------------------------------------------
(* Who waits, and for whom: nobody for ever, unless the worker is stuck.    *)

\* The loop leaves a stream only when its context is done, and connects again only when the
\* heartbeat has stopped; the pump has stopped only if the stream or its context has ended.
StreamEnds ==
  /\ loop.pc \in {"joinPump", "joinBeat", "connecting"} => ctx = "done"
  /\ loop.pc = "connecting" => beat = "off"
  /\ pump.pc = "off" => stream # "up" \/ ctx = "done"

\* The task the loop is about to start has no execution.
StartsFresh == loop.pc \in {"accepted", "running"} => loop.task \in Task /\ at[loop.task] = "none"

\* Run waits for a process there is, and then for the goroutines of one that has ended.
ChildKnown(r) ==
  /\ at[r] = "wait" => child[r] # "none"
  /\ at[r] = "drain" => child[r] # "alive"

WaitInv == StreamEnds /\ StartsFresh /\ \A r \in Run : ChildKnown(r)

\* A goroutine of the stream can do its next step: Connect or RunReturns; RecvFails; Accept or
\* StartRun; PumpJoined; BeatJoined; PumpTakes or PumpStops; SendSucceeds; BeatPuts; BeatStops.
LoopsGoOn ==
  \/ loop.pc = "connecting"
  \/ loop.pc = "recv" /\ (stream # "up" \/ ctx = "done")
  \/ loop.pc \in {"accepted", "running"} /\ at[loop.task] = "none" /\ HasRoom
  \/ loop.pc = "joinPump" /\ pump.pc = "off"
  \/ loop.pc = "joinBeat" /\ beat = "off"
  \/ pump.pc = "select" /\ (outbox # <<>> \/ ctx = "done")
  \/ pump.pc = "send"
  \/ beat = "put" /\ HasRoom
  \/ beat = "select" /\ ctx = "done"

\* An execution can: Waited; Expire or Killed; ReadEvent; PutFrame; EndOfEvents; Drained; Report.
\* (The reading may also break off, which nothing makes it do.)
RunGoesOn(r) ==
  \/ at[r] = "wait" /\ (child[r] \in {"ok", "failed"} \/ ~expired[r])
  \/ child[r] = "alive" /\ expired[r]
  \/ events[r] = "on" /\ frames[r] = 0 /\ pipe[r] # <<>>
  \/ frames[r] > 0 /\ HasRoom
  \/ /\ events[r] = "on" /\ frames[r] = 0 /\ pipe[r] = <<>>
     /\ child[r] # "alive" /\ forked[r] # "holder"
  \/ at[r] = "drain" /\ events[r] # "on"
  \/ at[r] = "report" /\ HasRoom

\* Unless the worker has returned or is stuck, a stream that ends always leaves somebody who
\* can take the next step to the one after it, and so does an execution whose spider ran,
\* unless what it has forked holds its pipe.
OnlyStuckWaits ==
  loop.pc # "returned" /\ ~Stuck =>
    /\ stream # "up" \/ ctx = "done" => LoopsGoOn
    /\ \A r \in Run : at[r] \in {"wait", "drain", "report"} /\ forked[r] # "holder"
                        => LoopsGoOn \/ RunGoesOn(r)

\* A worker that is stuck stays so, whatever the master and the spiders do.
StuckStays == [][Stuck => Stuck']_vars

LEMMA WaitInit == Init => WaitInv
  BY DEF Init, StreamInit, ProcessInit, WaitInv, StreamEnds, StartsFresh, ChildKnown, At

\* Frames of executions, and what goes on in them, leave the goroutines of the stream alone.
LEMMA StreamEndsKept ==
  ASSUME StreamInv, StreamEnds, [Next]_vars
  PROVE  StreamEnds'
<1> USE DEF StreamEnds
<1>1. CASE StreamStep
  <2>1. CASE Connect \/ RunReturns \/ PumpJoined \/ BeatJoined
    BY <2>1 DEF Connect, RunReturns, PumpJoined, BeatJoined, At
  <2>2. CASE PumpTakes \/ PumpStops \/ SendSucceeds \/ SendFails
    BY <2>2 DEF PumpTakes, PumpStops, SendSucceeds, SendFails
  <2>3. CASE BeatTicks \/ BeatPuts \/ BeatStops \/ StreamBreaks
    BY <2>3 DEF BeatTicks, BeatPuts, BeatStops, StreamBreaks
  <2> QED
    BY <1>1, <2>1, <2>2, <2>3 DEF StreamStep
<1>2. CASE Ends(RecvFails) \/ Ends(Stop)
  BY <1>2 DEF Ends, RecvFails, Stop, At
<1>3. ASSUME NEW t \in Task, TaskStep(t)
      PROVE  StreamEnds'
  <2>1. CASE Assign(t) \/ Accept(t) \/ StartRun(t)
    BY <2>1 DEF Assign, RecvAssign, Receives, Accept, PutAccepted, StartRun, PutRunning, At,
       StreamInv, StreamTypeOK
  <2>2. CASE RecvCancel(t) \/ RunStep(t) \/ PutFrame(t) \/ Report(t)
    BY <2>2 DEF RecvCancel, RunStep, PutFrame, Report, streamVars
  <2> QED
    BY <1>3, <2>1, <2>2 DEF TaskStep
<1>4. CASE UNCHANGED vars
  BY <1>4 DEF vars, streamVars
<1> QED
  BY <1>1, <1>2, <1>3, <1>4 DEF Next

\* The process of an execution is there while Run waits for it, and gone when it waits for the
\* goroutines.
LEMMA StepChild ==
  ASSUME ProcessInv, NEW t \in Run, StepOf(t), ChildKnown(t)
  PROVE  ChildKnown(t)'
<1> USE DEF ProcessInv, ProcessTypeOK, ChildKnown
<1>1. CASE PrepareFails(t) \/ Spawn(t)
  BY <1>1 DEF PrepareFails, Spawn
<1>2. ASSUME NEW k \in EventKind, Emit(t, k)
      PROVE  ChildKnown(t)'
  BY <1>2 DEF Emit
<1>3. CASE Fork(t) \/ ForkedEnds(t) \/ Expire(t)
  BY <1>3 DEF Fork, ForkedEnds, Expire
<1>4. ASSUME NEW how \in {"ok", "failed"}, ChildEnds(t, how)
      PROVE  ChildKnown(t)'
  BY <1>4 DEF ChildEnds
<1>5. CASE ReadEvent(t) \/ EndOfEvents(t) \/ EventsCutOff(t) \/ FramePut(t)
  BY <1>5 DEF ReadEvent, EndOfEvents, EventsCutOff, FramePut
<1>6. CASE Waited(t) \/ Drained(t)
  BY <1>6 DEF Waited, Drained
<1>7. CASE Reported(t)
  BY <1>7 DEF Reported
<1>8. ASSUME NEW done \in BOOLEAN, Begin(t, done)
      PROVE  ChildKnown(t)'
  BY <1>8 DEF Begin
<1> QED
  BY <1>1, <1>2, <1>3, <1>4, <1>5, <1>6, <1>7, <1>8 DEF StepOf, Internal, Killed

\* What a step of an execution leaves alone: the other executions, and those not begun.
LEMMA StepStarts ==
  ASSUME ProcessInv, NEW t \in Run, Internal(t) \/ FramePut(t) \/ Reported(t)
  PROVE  \A r \in Run : at[r] = "none" => at'[r] = "none"
<1> USE DEF ProcessInv, ProcessTypeOK
<1>1. CASE Internal(t)
  <2>1. CASE PrepareFails(t) \/ Spawn(t) \/ Waited(t) \/ Drained(t)
    BY <2>1 DEF PrepareFails, Spawn, Waited, Drained
  <2>2. CASE UNCHANGED at
    BY <2>2
  <2> QED
    BY <1>1, <2>1, <2>2 DEF Internal, Emit, Fork, ForkedEnds, Expire, Killed, ChildEnds,
       ReadEvent, EndOfEvents, EventsCutOff
<1>2. CASE FramePut(t) \/ Reported(t)
  BY <1>2 DEF FramePut, Reported
<1> QED
  BY <1>1, <1>2

LEMMA WaitNext ==
  ASSUME StreamInv, ProcessInv, WaitInv, [Next]_vars
  PROVE  WaitInv'
<1> USE ProcessTasks
<1>1. StreamEnds'
  BY StreamEndsKept DEF WaitInv
<1>2. ASSUME StartsFresh' /\ UNCHANGED <<at, child>>
      PROVE  WaitInv'
  BY <1>1, <1>2 DEF WaitInv, ChildKnown
<1>3. CASE StreamStep
  <2>1. StartsFresh'
    <3>1. UNCHANGED at
      BY <1>3 DEF StreamStep, processVars
    <3>2. UNCHANGED loop \/ loop'.pc \notin {"accepted", "running"}
      BY <1>3 DEF StreamStep, Connect, RunReturns, PumpJoined, BeatJoined, PumpTakes, PumpStops,
         SendSucceeds, SendFails, BeatTicks, BeatPuts, BeatStops, StreamBreaks, At
    <3> QED
      BY <3>1, <3>2 DEF WaitInv, StartsFresh
  <2> QED
    BY <1>2, <1>3, <2>1 DEF StreamStep, processVars
<1>4. CASE Ends(RecvFails) \/ Ends(Stop)
  <2>1. StartsFresh'
    BY <1>4 DEF Ends, RecvFails, Stop, At, WaitInv, StartsFresh
  <2> QED
    BY <1>2, <1>4, <2>1 DEF Ends
<1>5. ASSUME NEW t \in Task, TaskStep(t)
      PROVE  WaitInv'
  <2>1. CASE Assign(t) \/ Accept(t)
    <3>1. loop'.task = t /\ at[t] = "none" /\ UNCHANGED processVars
      BY <2>1 DEF Assign, RecvAssign, Accept, PutAccepted, WaitInv, StartsFresh
    <3> QED
      BY <1>2, <3>1 DEF processVars, StartsFresh
  <2>2. CASE StartRun(t)
    <3>1. StartsFresh'
      BY <2>2 DEF StartRun, PutRunning, At, StartsFresh
    <3> DEFINE done == ctx = "done"
    <3>2. done \in BOOLEAN /\ Begin(t, done)
      BY <2>2 DEF StartRun
    <3> HIDE DEF done
    <3>3. StepOf(t)
      BY <3>2 DEF StepOf
    <3>4. ChildKnown(t)'
      BY <3>3, StepChild DEF WaitInv
    <3>5. \A r \in Run : r # t => ChildKnown(r)'
      BY <3>3, OthersUntouched DEF WaitInv, ChildKnown
    <3> QED
      BY <1>1, <3>1, <3>4, <3>5 DEF WaitInv
  <2>3. CASE RecvCancel(t)
    BY <1>2, <2>3 DEF RecvCancel, streamVars, WaitInv, StartsFresh
  <2>4. CASE RunStep(t) \/ PutFrame(t) \/ Report(t)
    <3>1. (Internal(t) \/ FramePut(t) \/ Reported(t)) /\ UNCHANGED loop
      BY <2>4 DEF RunStep, PutFrame, Report, streamVars
    <3>2. StartsFresh'
      BY <3>1, StepStarts DEF WaitInv, StartsFresh
    <3>3. StepOf(t)
      BY <3>1 DEF StepOf
    <3>4. ChildKnown(t)'
      BY <3>3, StepChild DEF WaitInv
    <3>5. \A r \in Run : r # t => ChildKnown(r)'
      BY <3>3, OthersUntouched DEF WaitInv, ChildKnown
    <3> QED
      BY <1>1, <3>2, <3>4, <3>5 DEF WaitInv
  <2> QED
    BY <1>5, <2>1, <2>2, <2>3, <2>4 DEF TaskStep
<1>6. CASE UNCHANGED vars
  BY <1>2, <1>6 DEF vars, streamVars, processVars, WaitInv, StartsFresh
<1> QED
  BY <1>3, <1>4, <1>5, <1>6 DEF Next

LEMMA WaitCorrect == Spec => [](StreamInv /\ ProcessInv /\ WaitInv)
<1>1. Init => StreamInv /\ ProcessInv /\ WaitInv
  BY StreamInit_Inv, ProcessInit_Inv, WaitInit DEF Init
<1>2. StreamInv /\ ProcessInv /\ WaitInv /\ [Next]_vars => (StreamInv /\ ProcessInv /\ WaitInv)'
  BY ProcessNext, WaitNext
<1> QED
  BY <1>1, <1>2, PTL DEF Spec

\* A full outbox whose pump has not stopped is taken from.
LEMMA PumpMakesRoom ==
  ASSUME StreamInv, pump.pc # "off", ~HasRoom
  PROVE  LoopsGoOn
<1>1. Len(outbox) >= Cap /\ Cap > 0 /\ outbox \in Seq(Nat) /\ Len(outbox) \in Nat
  BY StreamAssumption, LenProperties DEF StreamInv, StreamTypeOK, HasRoom
<1>2. outbox # <<>>
  BY <1>1, StreamAssumption, EmptySeq
<1>3. pump.pc \in {"select", "send"}
  BY DEF StreamInv, StreamTypeOK
<1> QED
  BY <1>2, <1>3 DEF LoopsGoOn

\* Somebody of the stream goes on where its pump has stopped or its context is done.
LEMMA EndingGoesOn ==
  ASSUME StreamInv, WaitInv, loop.pc # "returned", ~Stuck, stream # "up" \/ ctx = "done"
  PROVE  LoopsGoOn
<1>1. /\ loop.pc \in {"connecting", "recv", "accepted", "running", "joinPump", "joinBeat"}
      /\ beat \in {"off", "select", "put"} /\ pump.pc \in {"off", "select", "send"}
  BY DEF StreamInv, StreamTypeOK
<1>2. CASE loop.pc \in {"connecting", "recv"}
  BY <1>2 DEF LoopsGoOn
<1>3. CASE loop.pc \in {"accepted", "running"}
  <2>1. CASE HasRoom
    BY <1>3, <2>1 DEF LoopsGoOn, WaitInv, StartsFresh
  <2>2. CASE ~HasRoom
    BY <1>3, <2>2, PumpMakesRoom DEF Stuck
  <2> QED
    BY <2>1, <2>2
<1>4. CASE loop.pc = "joinPump"
  <2>1. ctx = "done"
    BY <1>4 DEF WaitInv, StreamEnds
  <2> QED
    BY <1>1, <1>4, <2>1 DEF LoopsGoOn
<1>5. CASE loop.pc = "joinBeat"
  <2>1. ctx = "done" /\ pump.pc = "off"
    BY <1>5 DEF WaitInv, StreamEnds, StreamInv, HandFull
  <2>2. CASE beat = "put"
    BY <2>1, <2>2 DEF LoopsGoOn, Stuck
  <2> QED
    BY <1>1, <1>5, <2>1, <2>2 DEF LoopsGoOn
<1> QED
  BY <1>1, <1>2, <1>3, <1>4, <1>5

\* Stuck is the only way in which the goroutines of a worker wait for each other: it never
\* stops between a broken stream and the next, nor between a spider's start and its report,
\* in any other state but the ones named (connectOnce, pumpOutbox, heartbeatLoop, Run).
THEOREM WaitsCorrect == Spec => []OnlyStuckWaits
<1>1. StreamInv /\ ProcessInv /\ WaitInv => OnlyStuckWaits
  <2> SUFFICES ASSUME StreamInv, ProcessInv, WaitInv, loop.pc # "returned", ~Stuck
               PROVE  /\ stream # "up" \/ ctx = "done" => LoopsGoOn
                      /\ \A r \in Run : /\ at[r] \in {"wait", "drain", "report"}
                                        /\ forked[r] # "holder"
                                        => LoopsGoOn \/ RunGoesOn(r)
    BY DEF OnlyStuckWaits
  <2>1. stream # "up" \/ ctx = "done" => LoopsGoOn
    BY EndingGoesOn
  <2>2. ~HasRoom => LoopsGoOn
    BY <2>1, PumpMakesRoom DEF WaitInv, StreamEnds
  <2>3. ASSUME NEW r \in Run, at[r] \in {"wait", "drain", "report"}, forked[r] # "holder",
               HasRoom
        PROVE  RunGoesOn(r)
    <3>1. /\ child[r] \in {"none", "alive", "ok", "failed"} /\ expired[r] \in BOOLEAN
          /\ events[r] \in {"off", "on", "cut"} /\ frames[r] \in 0 .. 2
      BY DEF ProcessInv, ProcessTypeOK
    <3>2. CASE at[r] = "wait"
      BY <3>1, <3>2 DEF RunGoesOn, WaitInv, ChildKnown
    <3>3. CASE at[r] = "drain"
      <4>1. child[r] # "alive"
        BY <3>3 DEF WaitInv, ChildKnown
      <4>2. frames[r] = 0 \/ frames[r] > 0
        BY <3>1
      <4> QED
        BY <2>3, <3>1, <3>3, <4>1, <4>2 DEF RunGoesOn
    <3>4. CASE at[r] = "report"
      BY <2>3, <3>4 DEF RunGoesOn
    <3> QED
      BY <2>3, <3>2, <3>3, <3>4
  <2> QED
    BY <2>1, <2>2, <2>3
<1> QED
  BY <1>1, WaitCorrect, PTL

\* A stuck worker is stuck for good: nothing the master, a spider or a shutdown does makes room
\* in its outbox again, since a new pump is started only after the loop has joined the heartbeat.
THEOREM StuckForever == Spec => StuckStays
<1>1. StreamInv /\ WaitInv /\ [Next]_vars => [Stuck => Stuck']_vars
  <2> SUFFICES ASSUME StreamInv, WaitInv, Next, Stuck
               PROVE  Stuck'
    OBVIOUS
  <2>1. /\ ~HasRoom /\ pump.pc = "off" /\ (beat = "put" \/ loop.pc \in {"accepted", "running"})
        /\ loop.pc = "connecting" => beat = "off"
    BY DEF Stuck, WaitInv, StreamEnds
  <2>2. ASSUME UNCHANGED <<outbox, pump>>, beat' = "put" \/ loop'.pc \in {"accepted", "running"}
        PROVE  Stuck'
    BY <2>1, <2>2 DEF Stuck, HasRoom
  <2>3. CASE StreamStep
    <3>1. CASE RunReturns \/ PumpJoined \/ BeatJoined
      BY <2>1, <2>2, <3>1 DEF RunReturns, PumpJoined, BeatJoined, At
    <3>2. CASE BeatTicks \/ BeatStops \/ StreamBreaks
      BY <2>1, <2>2, <3>2 DEF BeatTicks, BeatStops, StreamBreaks
    <3> QED
      BY <2>1, <2>3, <3>1, <3>2 DEF StreamStep, Connect, PumpTakes, PumpStops, SendSucceeds, SendFails,
         BeatPuts
  <2>4. CASE Ends(RecvFails) \/ Ends(Stop)
    BY <2>1, <2>2, <2>4 DEF Ends, RecvFails, Stop, At
  <2>5. ASSUME NEW t \in Task, TaskStep(t)
        PROVE  Stuck'
    BY <2>1, <2>2, <2>5 DEF TaskStep, Assign, RecvAssign, Accept, PutAccepted, StartRun, PutRunning,
       RecvCancel, RunStep, PutFrame, Report, Puts, streamVars
  <2> QED
    BY <2>3, <2>4, <2>5 DEF Next
<1> QED
  BY <1>1, WaitCorrect, PTL DEF Spec, StuckStays
-----------------------------------------------------------------------------
(* An execution as TaskControl takes it to be.                             *)

PromiseVars == <<Phase, CutShort, CaptchaMet, Owing, Unheard, outcome>>

LEMMA PromiseInit == Init => Promise!Init
<1> SUFFICES ASSUME Init
             PROVE  Promise!Init
  OBVIOUS
<1>1. /\ Phase = [r \in Run |-> "none"] /\ CutShort = [r \in Run |-> FALSE]
      /\ CaptchaMet = [r \in Run |-> FALSE] /\ Unheard = [r \in Run |-> FALSE]
  BY DEF Init, ProcessInit, Phase, CutShort, CaptchaMet, Unheard, Running
<1>2. Owing = [r \in Run |-> FALSE]
  <2>1. \A r \in Run : ~(frames[r] > 0 \/ (pipe[r] # <<>> /\ events[r] # "cut"))
    BY DEF Init, ProcessInit
  <2> QED
    BY <2>1 DEF Owing
<1> QED
  BY <1>1, <1>2 DEF Promise!Init, Init, ProcessInit

\* Cancelling an execution that has its result changes nothing in it.
LEMMA PromiseCancelled ==
  ASSUME ProcessInv, NEW R \in SUBSET Run, Cancel(R),
         UNCHANGED <<at, expired, child, forked, pipe, emitted, frames, events, captcha, outcome>>
  PROVE  Promise!Cancelled(R)
<1>1. UNCHANGED <<Phase, CaptchaMet, Owing, Unheard, outcome>>
  BY DEF Phase, CaptchaMet, Owing, Unheard, Running, Emits
<1>2. \A r \in Run : Running(r) => Active(r)
  BY DEF Running, Active
<1>3. \A r \in Run : (Phase[r] = "run" <=> Running(r)) /\ Running(r)' = Running(r)
  BY DEF Phase, Running, ProcessInv, ProcessTypeOK
<1>4. CutShort' = [r \in Run |-> CutShort[r] \/ (r \in R /\ Phase[r] = "run")]
  BY <1>2, <1>3 DEF CutShort, Cancel
<1> QED
  BY <1>1, <1>4 DEF Promise!Cancelled

\* A step of one execution is a step of that one alone.
LEMMA PromiseOfOne ==
  ASSUME ProcessInv, NEW t \in Run, StepOf(t)
  PROVE  /\ Phase' = [Phase EXCEPT ![t] = Phase'[t]]
         /\ CutShort' = [CutShort EXCEPT ![t] = CutShort'[t]]
         /\ CaptchaMet' = [CaptchaMet EXCEPT ![t] = CaptchaMet'[t]]
         /\ Owing' = [Owing EXCEPT ![t] = Owing'[t]]
         /\ Unheard' = [Unheard EXCEPT ![t] = Unheard'[t]]
         /\ outcome' = [outcome EXCEPT ![t] = outcome'[t]]
<1>1. ASSUME NEW r \in Run, r # t
      PROVE  /\ at'[r] = at[r] /\ pipe'[r] = pipe[r] /\ emitted'[r] = emitted[r]
             /\ frames'[r] = frames[r] /\ outcome'[r] = outcome[r]
             /\ cancelled'[r] = cancelled[r] /\ events'[r] = events[r]
             /\ captcha'[r] = captcha[r]
  <2>1. cancelled'[r] = cancelled[r]
    BY <1>1 DEF ProcessInv, ProcessTypeOK, StepOf, Internal, PrepareFails, Spawn, Emit, Fork, ForkedEnds,
      Expire, Killed, ChildEnds, ReadEvent, EndOfEvents, EventsCutOff, Waited, Drained, FramePut,
      Reported, Begin
  <2> QED
    BY <1>1, <2>1, OthersUntouched
<1>2. ProcessTypeOK'
  BY StepTypes
<1>3. Phase' = [Phase EXCEPT ![t] = Phase'[t]]
  BY <1>1 DEF Phase, Running
<1>4. CutShort' = [CutShort EXCEPT ![t] = CutShort'[t]]
  BY <1>1 DEF CutShort, Running
<1>5. CaptchaMet' = [CaptchaMet EXCEPT ![t] = CaptchaMet'[t]]
  <2> DEFINE met(r) == Running(r) /\ IF Unheard[r] THEN captcha[r] ELSE Emits(r, "captcha")
  <2>1. \A r \in Run : r # t => met(r)' = met(r)
    <3> SUFFICES ASSUME NEW r \in Run, r # t
                 PROVE  met(r)' = met(r)
      OBVIOUS
    <3>1. /\ at'[r] = at[r] /\ emitted'[r] = emitted[r] /\ captcha'[r] = captcha[r]
          /\ Unheard'[r] = Unheard[r]
      BY <1>1 DEF Unheard, Running
    <3> QED
      BY <3>1 DEF Running, Emits
  <2>2. CaptchaMet = [r \in Run |-> met(r)] /\ CaptchaMet' = [r \in Run |-> met(r)']
    BY DEF CaptchaMet
  <2> HIDE DEF met
  <2> QED
    BY <2>1, <2>2
<1>6. Owing' = [Owing EXCEPT ![t] = Owing'[t]]
  BY <1>1 DEF Owing
<1>8. Unheard' = [Unheard EXCEPT ![t] = Unheard'[t]]
  BY <1>1 DEF Unheard, Running
<1>7. outcome' = [outcome EXCEPT ![t] = outcome'[t]]
  BY <1>1, <1>2 DEF ProcessInv, ProcessTypeOK
<1> QED
  BY <1>3, <1>4, <1>5, <1>6, <1>7, <1>8

LEMMA PromiseSame ==
  ASSUME ProcessInv, NEW t \in Run, StepOf(t)
  PROVE  /\ Phase'[t] = Phase[t] => UNCHANGED Phase
         /\ CutShort'[t] = CutShort[t] => UNCHANGED CutShort
         /\ CaptchaMet'[t] = CaptchaMet[t] => UNCHANGED CaptchaMet
         /\ Owing'[t] = Owing[t] => UNCHANGED Owing
         /\ Unheard'[t] = Unheard[t] => UNCHANGED Unheard
         /\ outcome'[t] = outcome[t] => UNCHANGED outcome
<1>1. /\ [Phase EXCEPT ![t] = Phase[t]] = Phase
      /\ [CutShort EXCEPT ![t] = CutShort[t]] = CutShort
  BY DEF Phase, CutShort
<1>2. /\ [CaptchaMet EXCEPT ![t] = CaptchaMet[t]] = CaptchaMet
      /\ [Owing EXCEPT ![t] = Owing[t]] = Owing
      /\ [Unheard EXCEPT ![t] = Unheard[t]] = Unheard
  BY DEF CaptchaMet, Owing, Unheard
<1>3. [outcome EXCEPT ![t] = outcome[t]] = outcome
  BY DEF ProcessInv, ProcessTypeOK
<1> QED
  BY <1>1, <1>2, <1>3, PromiseOfOne

\* What the execution t is in the promise, before and after a step.
LEMMA PromiseAt ==
  ASSUME NEW t \in Run
  PROVE  /\ Running(t) => Phase[t] = "run"
         /\ at[t] = "report" => Phase[t] = "ended"
         /\ at[t] \in {"none", "over"} => Phase[t] = at[t]
         /\ CutShort[t] \in BOOLEAN /\ (CutShort[t] <=> Running(t) /\ cancelled[t])
         /\ Unheard[t] \in BOOLEAN /\ (Unheard[t] <=> Running(t) /\ events[t] = "cut")
         /\ captcha[t] \in BOOLEAN => CaptchaMet[t] \in BOOLEAN
         /\ Unheard[t] => (CaptchaMet[t] <=> captcha[t])
         /\ ~Unheard[t] => (CaptchaMet[t] <=> Running(t) /\ HasCaptcha(emitted[t]))
         /\ Owing[t] \in BOOLEAN
         /\ Owing[t] <=> frames[t] > 0 \/ (pipe[t] # <<>> /\ events[t] # "cut")
<1>1. /\ Running(t) => Phase[t] = "run"
      /\ at[t] = "report" => Phase[t] = "ended"
      /\ at[t] \in {"none", "over"} => Phase[t] = at[t]
  BY DEF Phase, Running
<1>2. CutShort[t] \in BOOLEAN /\ (CutShort[t] <=> Running(t) /\ cancelled[t])
  BY DEF CutShort, Running
<1>3. /\ captcha[t] \in BOOLEAN => CaptchaMet[t] \in BOOLEAN
      /\ Unheard[t] => (CaptchaMet[t] <=> captcha[t])
      /\ ~Unheard[t] => (CaptchaMet[t] <=> Running(t) /\ HasCaptcha(emitted[t]))
  BY DEF CaptchaMet, Unheard, Emits, HasCaptcha, Running
<1>4. /\ Owing[t] \in BOOLEAN
      /\ Owing[t] <=> frames[t] > 0 \/ (pipe[t] # <<>> /\ events[t] # "cut")
  BY DEF Owing
<1>5. Unheard[t] \in BOOLEAN /\ (Unheard[t] <=> Running(t) /\ events[t] = "cut")
  BY DEF Unheard, Running
<1> QED
  BY <1>1, <1>2, <1>3, <1>4, <1>5

LEMMA PromiseAtNext ==
  ASSUME NEW t \in Run
  PROVE  /\ Running(t)' => Phase'[t] = "run"
         /\ at'[t] = "report" => Phase'[t] = "ended"
         /\ at'[t] \in {"none", "over"} => Phase'[t] = at'[t]
         /\ CutShort'[t] \in BOOLEAN /\ (CutShort'[t] <=> Running(t)' /\ cancelled'[t])
         /\ Unheard'[t] \in BOOLEAN /\ (Unheard'[t] <=> Running(t)' /\ events'[t] = "cut")
         /\ captcha'[t] \in BOOLEAN => CaptchaMet'[t] \in BOOLEAN
         /\ Unheard'[t] => (CaptchaMet'[t] <=> captcha'[t])
         /\ ~Unheard'[t] => (CaptchaMet'[t] <=> Running(t)' /\ HasCaptcha(emitted'[t]))
         /\ Owing'[t] \in BOOLEAN
         /\ Owing'[t] <=> frames'[t] > 0 \/ (pipe'[t] # <<>> /\ events'[t] # "cut")
<1>1. /\ Running(t)' => Phase'[t] = "run"
      /\ at'[t] = "report" => Phase'[t] = "ended"
      /\ at'[t] \in {"none", "over"} => Phase'[t] = at'[t]
  BY DEF Phase, Running
<1>2. CutShort'[t] \in BOOLEAN /\ (CutShort'[t] <=> Running(t)' /\ cancelled'[t])
  BY DEF CutShort, Running
<1>3. /\ captcha'[t] \in BOOLEAN => CaptchaMet'[t] \in BOOLEAN
      /\ Unheard'[t] => (CaptchaMet'[t] <=> captcha'[t])
      /\ ~Unheard'[t] => (CaptchaMet'[t] <=> Running(t)' /\ HasCaptcha(emitted'[t]))
  BY DEF CaptchaMet, Unheard, Emits, HasCaptcha, Running
<1>4. /\ Owing'[t] \in BOOLEAN
      /\ Owing'[t] <=> frames'[t] > 0 \/ (pipe'[t] # <<>> /\ events'[t] # "cut")
  BY DEF Owing
<1>5. Unheard'[t] \in BOOLEAN /\ (Unheard'[t] <=> Running(t)' /\ events'[t] = "cut")
  BY DEF Unheard, Running
<1> QED
  BY <1>1, <1>2, <1>3, <1>4, <1>5

\* Before its process and once it has a result there is nothing to say, and before its process
\* no captcha. Only pumpEvents having broken off is known until the report.
LEMMA QuietOutside ==
  ASSUME ProcessInv, NEW t \in Run
  PROVE  /\ at[t] \notin {"wait", "drain"} =>
              events[t] # "on" /\ frames[t] = 0 /\ child[t] # "alive"
         /\ at[t] \notin {"wait", "drain", "report"} => events[t] = "off"
         /\ events[t] = "off" => pipe[t] = <<>> /\ frames[t] = 0
         /\ events[t] = "cut" => frames[t] = 0
         /\ at[t] \in {"none", "prepare"} => ~HasCaptcha(emitted[t])
<1>1. EventsBetween(t)
  BY DEF ProcessInv, RunInv
<1>2. events[t] \in {"off", "on", "cut"}
  BY DEF ProcessInv, ProcessTypeOK
<1>3. at[t] \in {"none", "prepare"} => ~HasCaptcha(emitted[t])
  BY <1>1 DEF EventsBetween, HasCaptcha
<1>4. at[t] \notin {"wait", "drain"} => child[t] # "alive"
  BY <1>1 DEF EventsBetween
<1> QED
  BY <1>1, <1>2, <1>3, <1>4 DEF EventsBetween

\* Whether a captcha was met is known, before and after a step.
LEMMA CaptchaKnown ==
  ASSUME ProcessInv, NEW t \in Run, StepOf(t)
  PROVE  CaptchaMet[t] \in BOOLEAN /\ CaptchaMet'[t] \in BOOLEAN
<1>1. ProcessTypeOK /\ ProcessTypeOK'
  BY StepTypes DEF ProcessInv
<1>2. captcha[t] \in BOOLEAN /\ captcha'[t] \in BOOLEAN
  BY <1>1 DEF ProcessTypeOK
<1> QED
  BY <1>2, PromiseAt, PromiseAtNext

\* pumpEvents ends before the events do: a captcha it has seen is still the execution's, and
\* one it has not seen is not.
LEMMA PromiseBrokenOff ==
  ASSUME ProcessInv, NEW t \in Run, EventsCutOff(t)
  PROVE  Promise!BrokenOff(t)
<1>1. StepOf(t)
  BY DEF StepOf, Internal
<1>2. /\ at' = at /\ cancelled' = cancelled /\ outcome' = outcome /\ captcha' = captcha
      /\ frames' = frames /\ frames[t] = 0 /\ events[t] = "on" /\ events'[t] = "cut"
      /\ captcha[t] \in BOOLEAN
  BY DEF EventsCutOff, ProcessInv, ProcessTypeOK
<1>3. Running(t) /\ Running(t)'
  BY <1>2, QuietOutside DEF Running
<1>4. /\ Phase[t] = "run" /\ Phase'[t] = "run" /\ CutShort'[t] = CutShort[t]
      /\ Unheard[t] = FALSE /\ Unheard'[t] = TRUE /\ outcome'[t] = outcome[t]
  BY <1>2, <1>3, PromiseAt, PromiseAtNext
<1>5. Owing'[t] = FALSE
  BY <1>2, PromiseAtNext
<1>6. CaptchaMet'[t] \in {CaptchaMet[t], FALSE}
  <2>1. captcha[t] => HasCaptcha(emitted[t])
    BY DEF ProcessInv, RunInv, CaptchaSeenOrAhead, Emits, HasCaptcha
  <2> QED
    BY <1>1, <1>2, <1>3, <1>4, <2>1, PromiseAt, PromiseAtNext, CaptchaKnown
<1>7. /\ UNCHANGED <<Phase, CutShort, outcome>>
      /\ Owing' = [Owing EXCEPT ![t] = FALSE] /\ Unheard' = [Unheard EXCEPT ![t] = TRUE]
      /\ CaptchaMet' = [CaptchaMet EXCEPT ![t] = CaptchaMet'[t]]
  BY <1>1, <1>4, <1>5, PromiseOfOne, PromiseSame
<1> QED
  BY <1>4, <1>6, <1>7 DEF Promise!BrokenOff

\* The steps between the start of an execution and its end which the promise does not see.
LEMMA PromiseUnseen ==
  ASSUME ProcessInv, NEW t \in Run,
         \/ Spawn(t) \/ Fork(t) \/ ForkedEnds(t) \/ Expire(t) \/ EndOfEvents(t) \/ Waited(t)
         \/ ReadEvent(t) \/ \E how \in {"ok", "failed"} : ChildEnds(t, how)
  PROVE  UNCHANGED PromiseVars
<1>1. StepOf(t)
  BY DEF StepOf, Internal
<1>2. /\ (Running(t)' <=> Running(t)) /\ (~Running(t) => at'[t] = at[t])
      /\ cancelled' = cancelled /\ emitted' = emitted /\ outcome' = outcome
  BY DEF ProcessInv, ProcessTypeOK, Running, Spawn, Fork, ForkedEnds, Expire, EndOfEvents, Waited,
     ReadEvent, ChildEnds
<1>3. /\ events'[t] = "cut" <=> events[t] = "cut"
      /\ captcha' = captcha \/ events[t] = "on"
      /\ captcha[t] \in BOOLEAN /\ captcha'[t] \in BOOLEAN
  <2>1. CASE Spawn(t)
    BY <2>1, QuietOutside DEF Spawn, ProcessInv, ProcessTypeOK
  <2>2. CASE ReadEvent(t)
    BY <2>2 DEF ReadEvent, ProcessInv, ProcessTypeOK
  <2>3. CASE EndOfEvents(t)
    BY <2>3 DEF EndOfEvents, ProcessInv, ProcessTypeOK
  <2>4. CASE UNCHANGED <<events, captcha>>
    BY <2>4 DEF ProcessInv, ProcessTypeOK
  <2> QED
    BY <2>1, <2>2, <2>3, <2>4 DEF Fork, ForkedEnds, Expire, Waited, ChildEnds
<1>4. /\ pipe'[t] # <<>> \/ frames'[t] > 0 <=> pipe[t] # <<>> \/ frames[t] > 0
      /\ UNCHANGED <<pipe, frames>> \/ events[t] # "cut"
  <2>1. CASE ReadEvent(t)
    <3>1. pipe[t] # <<>> /\ frames'[t] = FramesOf(Head(pipe[t])) /\ events[t] = "on"
      BY <2>1 DEF ReadEvent, ProcessInv, ProcessTypeOK
    <3>2. FramesOf(Head(pipe[t])) > 0
      BY DEF FramesOf
    <3> QED
      BY <3>1, <3>2
  <2>2. CASE UNCHANGED <<pipe, frames>>
    BY <2>2
  <2> QED
    BY <2>1, <2>2 DEF Spawn, Fork, ForkedEnds, Expire, EndOfEvents, Waited, ChildEnds
<1>5. Phase'[t] = Phase[t]
  BY <1>2 DEF Phase
<1>6. Unheard'[t] = Unheard[t]
  BY <1>2, <1>3, PromiseAt, PromiseAtNext
<1>7. CaptchaMet'[t] = CaptchaMet[t]
  <2>1. CASE Unheard[t]
    <3>1. captcha' = captcha
      BY <1>3, <2>1, PromiseAt
    <3>2. Unheard'[t]
      BY <1>6, <2>1
    <3>3. (CaptchaMet[t] <=> captcha[t]) /\ (CaptchaMet'[t] <=> captcha'[t])
      BY <2>1, <3>2, PromiseAt, PromiseAtNext
    <3>4. CaptchaMet'[t] <=> CaptchaMet[t]
      BY <3>1, <3>3
    <3> QED
      BY <1>1, <3>4, CaptchaKnown
  <2>2. CASE ~Unheard[t]
    BY <1>2, <1>3, <1>6, <2>2, PromiseAt, PromiseAtNext
  <2> QED
    BY <2>1, <2>2, PromiseAt
<1>8. /\ CutShort'[t] = CutShort[t] /\ Owing'[t] = Owing[t] /\ outcome'[t] = outcome[t]
  BY <1>2, <1>3, <1>4, PromiseAt, PromiseAtNext
<1> QED
  BY <1>1, <1>2, <1>5, <1>6, <1>7, <1>8, PromiseSame DEF PromiseVars

LEMMA PromiseBegins ==
  ASSUME ProcessInv, NEW t \in Run, NEW done \in BOOLEAN, Begin(t, done)
  PROVE  Promise!Begin(t)
<1>1. StepOf(t)
  BY DEF StepOf
<1>2. /\ at[t] = "none" /\ at'[t] = "prepare" /\ cancelled'[t] = done
      /\ pipe' = pipe /\ frames' = frames /\ emitted' = emitted /\ outcome' = outcome
      /\ events' = events /\ captcha' = captcha /\ captcha[t] \in BOOLEAN
  BY DEF Begin, ProcessInv, ProcessTypeOK
<1>3. ~Running(t) /\ Running(t)'
  BY <1>2 DEF Running
<1>4. Phase[t] = "none" /\ Phase'[t] = "run" /\ CutShort'[t] = done
  BY <1>2, <1>3, PromiseAt, PromiseAtNext
<1>7. events[t] = "off" /\ ~Unheard[t] /\ ~Unheard'[t]
  BY <1>2, <1>3, QuietOutside, PromiseAt, PromiseAtNext
<1>5. /\ CaptchaMet'[t] = CaptchaMet[t] /\ Owing'[t] = Owing[t]
      /\ Unheard'[t] = Unheard[t] /\ outcome'[t] = outcome[t]
  BY <1>2, <1>3, <1>7, QuietOutside, PromiseAt, PromiseAtNext
<1>6. /\ Phase' = [Phase EXCEPT ![t] = "run"] /\ CutShort' = [CutShort EXCEPT ![t] = done]
      /\ UNCHANGED <<CaptchaMet, Owing, Unheard, outcome>>
  BY <1>1, <1>2, <1>4, <1>5, PromiseOfOne, PromiseSame
<1> QED
  BY <1>4, <1>6 DEF Promise!Begin

LEMMA PromiseEmitted ==
  ASSUME ProcessInv, NEW t \in Run, NEW k \in EventKind, Emit(t, k)
  PROVE  Promise!Emitted(t) \/ UNCHANGED PromiseVars
<1>1. StepOf(t)
  BY DEF StepOf, Internal
<1>2. /\ at' = at /\ cancelled' = cancelled /\ outcome' = outcome /\ child[t] = "alive"
      /\ pipe'[t] = Append(pipe[t], k) /\ emitted'[t] = Append(emitted[t], k)
      /\ pipe[t] \in Seq(EventKind) /\ emitted[t] \in Seq(EventKind)
      /\ events' = events /\ captcha' = captcha /\ frames' = frames /\ captcha[t] \in BOOLEAN
  BY DEF Emit, ProcessInv, ProcessTypeOK
<1>3. Running(t) /\ Running(t)'
  BY <1>2, QuietOutside DEF Running
<1>4. pipe'[t] # <<>>
  BY <1>2, AppendProperties
<1>5. /\ Phase'[t] = "run" /\ Phase[t] = "run" /\ CutShort'[t] = CutShort[t]
      /\ Unheard'[t] = Unheard[t] /\ outcome'[t] = outcome[t]
  BY <1>2, <1>3, PromiseAt, PromiseAtNext
<1>6. UNCHANGED <<Phase, CutShort, Unheard, outcome>>
  BY <1>1, <1>5, PromiseSame
<1>7. CASE Unheard[t]
  <2>1. events[t] = "cut" /\ CaptchaMet'[t] = CaptchaMet[t]
    BY <1>2, <1>5, <1>7, PromiseAt, PromiseAtNext
  <2>2. Owing'[t] = Owing[t]
    BY <1>2, <2>1, PromiseAt, PromiseAtNext
  <2> QED
    BY <1>1, <1>6, <2>1, <2>2, PromiseSame DEF PromiseVars
<1>8. CASE ~Unheard[t]
  <2>1. events[t] # "cut" /\ Owing'[t] = TRUE
    BY <1>2, <1>3, <1>4, <1>8, PromiseAt, PromiseAtNext
  <2>2. HasCaptcha(emitted[t]) => HasCaptcha(emitted'[t])
    BY <1>2, CaptchaAppended
  <2>3. CaptchaMet'[t] \in {CaptchaMet[t], TRUE}
    BY <1>2, <1>3, <1>5, <1>8, <2>2, PromiseAt, PromiseAtNext
  <2>4. /\ Owing' = [Owing EXCEPT ![t] = TRUE]
        /\ CaptchaMet' = [CaptchaMet EXCEPT ![t] = CaptchaMet'[t]]
    BY <1>1, <2>1, PromiseOfOne
  <2> QED
    BY <1>5, <1>6, <1>8, <2>3, <2>4 DEF Promise!Emitted
<1> QED
  BY <1>7, <1>8

LEMMA PromiseSettled ==
  ASSUME ProcessInv, NEW t \in Run, FramePut(t)
  PROVE  Promise!Settled(t) \/ UNCHANGED PromiseVars
<1>1. StepOf(t)
  BY DEF StepOf
<1>2. /\ at' = at /\ cancelled' = cancelled /\ outcome' = outcome /\ emitted' = emitted
      /\ frames[t] > 0 /\ frames[t] \in 0 .. 2 /\ events' = events
  BY DEF FramePut, ProcessInv, ProcessTypeOK
<1>3. Running(t) /\ Running(t)'
  BY <1>2, QuietOutside DEF Running
<1>8. ~Unheard[t] /\ ~Unheard'[t]
  <2>1. events[t] # "cut"
    BY <1>2, QuietOutside
  <2> QED
    BY <1>2, <2>1, PromiseAt, PromiseAtNext
<1>4. /\ Phase[t] = "run" /\ Phase'[t] = "run" /\ CutShort'[t] = CutShort[t]
      /\ CaptchaMet'[t] = CaptchaMet[t] /\ Owing[t] = TRUE /\ Owing'[t] \in BOOLEAN
      /\ Unheard'[t] = Unheard[t] /\ outcome'[t] = outcome[t]
  BY <1>1, <1>2, <1>3, <1>8, PromiseAt, PromiseAtNext, CaptchaKnown
<1>5. UNCHANGED <<Phase, CutShort, CaptchaMet, Unheard, outcome>>
  BY <1>1, <1>2, <1>4, PromiseSame
<1>6. CASE Owing'[t] = TRUE
  BY <1>1, <1>4, <1>5, <1>6, PromiseSame DEF PromiseVars
<1>7. CASE Owing'[t] = FALSE
  <2>1. Owing' = [Owing EXCEPT ![t] = FALSE]
    BY <1>1, <1>7, PromiseOfOne
  <2> QED
    BY <1>4, <1>5, <2>1 DEF Promise!Settled
<1> QED
  BY <1>4, <1>6, <1>7

\* The result fits what was cancelled and what was emitted: a process was started only if the
\* execution was not cancelled before, and nothing is left in the pipe when Run decides.
LEMMA ResultFits ==
  ASSUME ProcessInv, NEW t \in Run, PrepareFails(t) \/ Drained(t)
  PROVE  \E o \in Promise!ResultsOf(CutShort[t], CaptchaMet[t], Promise!EveryEnding) :
           outcome'[t] = o[1]
<1>1. CASE PrepareFails(t)
  <2>4. at[t] = "prepare" /\ outcome'[t] = "FAILED"
    BY <1>1 DEF PrepareFails, ProcessInv, ProcessTypeOK
  <2>5. events[t] = "off" /\ ~HasCaptcha(emitted[t])
    BY <2>4, QuietOutside
  <2>1. outcome'[t] = "FAILED" /\ ~CaptchaMet[t] /\ CutShort[t] \in BOOLEAN
    BY <2>4, <2>5, PromiseAt
  <2>2. <<"FAILED", "deps">> \in Promise!ResultsOf(CutShort[t], CaptchaMet[t], Promise!EveryEnding)
    BY <2>1 DEF Promise!ResultsOf, Promise!EveryEnding
  <2>3. <<"FAILED", "deps">>[1] = "FAILED"
    OBVIOUS
  <2> QED
    BY <2>1, <2>2, <2>3
<1>2. CASE Drained(t)
  <2>1. at[t] = "drain" /\ events[t] \in {"off", "cut"} /\ outcome'[t] = classifyOutcome(t)
    BY <1>2 DEF Drained, ProcessInv, ProcessTypeOK
  <2>2. Running(t) /\ (events[t] = "off" => pipe[t] = <<>>)
    BY <2>1, QuietOutside DEF Running
  <2>3. events[t] = "off" => (HasCaptcha(emitted[t]) <=> captcha[t])
    BY <2>2 DEF ProcessInv, RunInv, CaptchaSeenOrAhead, Emits, HasCaptcha
  <2>4. (CutShort[t] <=> cancelled[t]) /\ (CaptchaMet[t] <=> captcha[t])
    BY <2>1, <2>2, <2>3, PromiseAt
  <2>5. \E o \in {<<"CANCELLED", "">>, <<"TIMEOUT", "timeout">>, <<"CAPTCHA", "captcha">>,
                  <<"SUCCEEDED", "">>, <<"FAILED", "exit">>} :
          /\ classifyOutcome(t) = o[1]
          /\ o \in Promise!ResultsOf(CutShort[t], CaptchaMet[t], Promise!EveryEnding)
    <3>1. CASE cancelled[t]
      BY <2>4, <3>1 DEF classifyOutcome, Promise!ResultsOf
    <3>2. CASE ~cancelled[t] /\ expired[t]
      BY <2>4, <3>2 DEF classifyOutcome, Promise!ResultsOf, Promise!EveryEnding
    <3>3. CASE ~cancelled[t] /\ ~expired[t] /\ captcha[t]
      BY <2>4, <3>3 DEF classifyOutcome, Promise!ResultsOf
    <3>4. CASE ~cancelled[t] /\ ~expired[t] /\ ~captcha[t]
      BY <2>4, <3>4 DEF classifyOutcome, Promise!ResultsOf, Promise!EveryEnding
    <3> QED
      BY <3>1, <3>2, <3>3, <3>4
  <2> QED
    BY <2>1, <2>5
<1> QED
  BY <1>1, <1>2

LEMMA PromiseEnded ==
  ASSUME ProcessInv, NEW t \in Run, PrepareFails(t) \/ Drained(t)
  PROVE  Promise!Ended(t)
<1>1. StepOf(t)
  BY DEF StepOf, Internal
<1>2. /\ at[t] \in {"prepare", "drain"} /\ at'[t] = "report" /\ events[t] \in {"off", "cut"}
      /\ pipe' = pipe /\ frames' = frames /\ events' = events
  <2>1. CASE PrepareFails(t)
    BY <2>1, QuietOutside DEF PrepareFails, ProcessInv, ProcessTypeOK
  <2>2. CASE Drained(t)
    BY <2>2 DEF Drained, ProcessInv, ProcessTypeOK
  <2> QED
    BY <2>1, <2>2
<1>3. Running(t) /\ ~Running(t)'
  BY <1>2 DEF Running
<1>4. (events[t] = "off" => pipe[t] = <<>>) /\ frames[t] = 0
  BY <1>2, QuietOutside
<1>5. /\ Phase[t] = "run" /\ Phase'[t] = "ended" /\ CutShort'[t] = FALSE
      /\ Unheard'[t] = FALSE /\ CaptchaMet'[t] = FALSE /\ ~Owing[t] /\ Owing'[t] = Owing[t]
  <2>1. /\ Phase[t] = "run" /\ Phase'[t] = "ended" /\ CutShort'[t] = FALSE
        /\ Unheard'[t] = FALSE
    BY <1>2, <1>3, PromiseAt, PromiseAtNext
  <2>2. ~Owing[t] /\ Owing'[t] = Owing[t]
    BY <1>2, <1>4, PromiseAt, PromiseAtNext
  <2>3. CaptchaMet'[t] = FALSE
    BY <1>1, <1>3, <2>1, PromiseAtNext, CaptchaKnown
  <2> QED
    BY <2>1, <2>2, <2>3
<1>6. /\ Phase' = [Phase EXCEPT ![t] = "ended"]
      /\ CutShort' = [CutShort EXCEPT ![t] = FALSE]
      /\ CaptchaMet' = [CaptchaMet EXCEPT ![t] = FALSE]
      /\ Unheard' = [Unheard EXCEPT ![t] = FALSE]
      /\ outcome' = [outcome EXCEPT ![t] = outcome'[t]]
      /\ UNCHANGED Owing
  BY <1>1, <1>5, PromiseOfOne, PromiseSame
<1>7. \E o \in Promise!ResultsOf(CutShort[t], CaptchaMet[t], Promise!EveryEnding) :
        outcome' = [outcome EXCEPT ![t] = o[1]]
  BY <1>6, ResultFits
<1> QED
  BY <1>5, <1>6, <1>7 DEF Promise!Ended

LEMMA PromiseReported ==
  ASSUME ProcessInv, NEW t \in Run, Reported(t)
  PROVE  Promise!Reported(t)
<1>1. StepOf(t)
  BY DEF StepOf
<1>2. /\ at[t] = "report" /\ at'[t] = "over" /\ outcome'[t] = "none"
      /\ pipe'[t] = <<>> /\ frames' = frames
  BY DEF Reported, ProcessInv, ProcessTypeOK
<1>3. ~Running(t) /\ ~Running(t)'
  BY <1>2 DEF Running
<1>6. frames[t] = 0 /\ (pipe[t] = <<>> \/ events[t] = "cut")
  BY <1>2, QuietOutside DEF ProcessInv, ProcessTypeOK
<1>4. /\ Phase[t] = "ended" /\ Phase'[t] = "over" /\ CutShort'[t] = CutShort[t]
      /\ Unheard'[t] = Unheard[t] /\ CaptchaMet'[t] = CaptchaMet[t] /\ Owing'[t] = Owing[t]
  <2>1. /\ Phase[t] = "ended" /\ Phase'[t] = "over" /\ CutShort'[t] = CutShort[t]
        /\ ~Unheard[t] /\ ~Unheard'[t]
    BY <1>2, <1>3, PromiseAt, PromiseAtNext
  <2>2. Owing'[t] = Owing[t]
    BY <1>2, <1>6, PromiseAt, PromiseAtNext
  <2>3. CaptchaMet'[t] = CaptchaMet[t]
    BY <1>1, <1>3, <2>1, PromiseAt, PromiseAtNext, CaptchaKnown
  <2> QED
    BY <2>1, <2>2, <2>3, PromiseAt, PromiseAtNext
<1>5. /\ Phase' = [Phase EXCEPT ![t] = "over"] /\ outcome' = [outcome EXCEPT ![t] = "none"]
      /\ UNCHANGED <<CutShort, CaptchaMet, Owing, Unheard>>
  BY <1>1, <1>2, <1>4, PromiseOfOne, PromiseSame
<1> QED
  BY <1>4, <1>5 DEF Promise!Reported

\* Every step of the worker is a step of the promise, or none.
LEMMA PromiseStep ==
  ASSUME ProcessInv, [Next]_vars
  PROVE  [Promise!Next]_(Promise!vars)
<1> USE ProcessTasks
<1>1. ASSUME UNCHANGED processVars
      PROVE  UNCHANGED PromiseVars
  BY <1>1 DEF processVars, PromiseVars, Phase, CutShort, CaptchaMet, Owing, Unheard, Running, Emits
<1>2. ASSUME NEW R \in SUBSET Run, Promise!Cancelled(R)
      PROVE  Promise!Next
  BY <1>2 DEF Promise!Next
<1>3. ASSUME NEW t \in Run, StepOf(t)
      PROVE  Promise!Next \/ UNCHANGED PromiseVars
  <2>1. CASE PrepareFails(t) \/ Drained(t)
    BY <2>1, PromiseEnded DEF Promise!Next
  <2>2. ASSUME NEW k \in EventKind, Emit(t, k)
        PROVE  Promise!Next \/ UNCHANGED PromiseVars
    BY <2>2, PromiseEmitted DEF Promise!Next
  <2>3. CASE FramePut(t)
    BY <2>3, PromiseSettled DEF Promise!Next
  <2>4. CASE Reported(t)
    BY <2>4, PromiseReported DEF Promise!Next
  <2>5. ASSUME NEW done \in BOOLEAN, Begin(t, done)
        PROVE  Promise!Next
    BY <2>5, PromiseBegins DEF Promise!Next
  <2>6. CASE \/ Spawn(t) \/ Fork(t) \/ ForkedEnds(t) \/ Expire(t) \/ EndOfEvents(t) \/ Waited(t)
             \/ ReadEvent(t) \/ \E how \in {"ok", "failed"} : ChildEnds(t, how)
    BY <2>6, PromiseUnseen
  <2>7. CASE EventsCutOff(t)
    BY <2>7, PromiseBrokenOff DEF Promise!Next
  <2> QED
    BY <1>3, <2>1, <2>2, <2>3, <2>4, <2>5, <2>6, <2>7 DEF StepOf, Internal, Killed
<1>4. Promise!Next \/ UNCHANGED PromiseVars
  <2>1. CASE StreamStep
    BY <1>1, <2>1 DEF StreamStep
  <2>2. CASE Ends(RecvFails) \/ Ends(Stop)
    BY <1>2, <2>2, PromiseCancelled DEF Ends
  <2>3. ASSUME NEW t \in Task, TaskStep(t)
        PROVE  Promise!Next \/ UNCHANGED PromiseVars
    <3>1. CASE Assign(t) \/ Accept(t)
      BY <1>1, <3>1 DEF Assign, Accept
    <3>2. CASE StartRun(t)
      <4> DEFINE done == ctx = "done"
      <4>1. done \in BOOLEAN /\ Begin(t, done)
        BY <3>2 DEF StartRun
      <4> HIDE DEF done
      <4> QED
        BY <1>3, <4>1 DEF StepOf
    <3>3. CASE RecvCancel(t)
      BY <1>2, <3>3, PromiseCancelled DEF RecvCancel
    <3>4. CASE RunStep(t) \/ PutFrame(t) \/ Report(t)
      BY <1>3, <3>4 DEF RunStep, PutFrame, Report, StepOf
    <3> QED
      BY <2>3, <3>1, <3>2, <3>3, <3>4 DEF TaskStep
  <2>4. CASE UNCHANGED vars
    BY <1>1, <2>4 DEF vars
  <2> QED
    BY <2>1, <2>2, <2>3, <2>4 DEF Next
<1> QED
  BY <1>4 DEF PromiseVars, Promise!vars

\* The executions of a worker, with their processes, pipes and deadlines, are executions as
\* WorkerRuntime has them: what TaskControl takes for granted about their results is what Run,
\* pumpEvents and classifyOutcome lead to.
THEOREM PromiseCorrect == Spec => ExecutionKept
<1>1. Init => Promise!Init
  BY PromiseInit
<1>2. ProcessInv /\ [Next]_vars => [Promise!Next]_(Promise!vars)
  BY PromiseStep
<1> QED
  BY <1>1, <1>2, ProcessCorrect, PTL DEF Spec, ExecutionKept, Promise!Spec
=============================================================================
