--------------------------- MODULE LogStore_proofs -------------------------
(***************************************************************************)
(* The log store implements its promise (LogPromise), and a shutdown       *)
(* flushes what was written before it began, for any number of lines,      *)
(* levels, failing calls, shutdowns and crashes.                           *)
(***************************************************************************)
EXTENDS LogStore, SequenceTheorems, FiniteSetTheorems, TLAPS

-----------------------------------------------------------------------------
(* Types.                                                                  *)

\* What the operators on queues of lines give.
LEMMA Queues ==
  /\ <<>> \in Seq(Line)
  /\ \A q, r \in Seq(Line) : q \o r \in Seq(Line) /\ Range(q \o r) = Range(q) \cup Range(r)
  /\ \A q \in Seq(Line) : <<>> \o q = q /\ q \o <<>> = q
  /\ \A q \in Seq(Line), n \in Line :
       /\ Append(q, n) \in Seq(Line)
       /\ Range(Append(q, n)) = Range(q) \cup {n}
<1>1. <<>> \in Seq(Line)
  BY EmptySeq
<1>2. ASSUME NEW q \in Seq(Line), NEW r \in Seq(Line)
      PROVE  q \o r \in Seq(Line) /\ Range(q \o r) = Range(q) \cup Range(r)
  BY <1>2, ConcatProperties, RangeConcatenation
<1>3. ASSUME NEW q \in Seq(Line)
      PROVE  <<>> \o q = q /\ q \o <<>> = q
  BY <1>3, ConcatEmptySeq
<1>4. ASSUME NEW q \in Seq(Line), NEW n \in Line
      PROVE  Append(q, n) \in Seq(Line) /\ Range(Append(q, n)) = Range(q) \cup {n}
  <2>1. Append(q, n) = q \o <<n>> /\ Append(q, n) \in Seq(Line)
    BY AppendIsConcat, AppendProperties
  <2>2. <<n>> \in Seq(Line) /\ Range(<<n>>) = {n}
    <3>1. <<n>> \in Seq(Line) /\ Len(<<n>>) = 1 /\ <<n>>[1] = n
      OBVIOUS
    <3> QED
      BY <3>1 DEF Range
  <2> QED
    BY <2>1, <2>2, <1>2
<1> QED
  BY <1>1, <1>2, <1>3, <1>4

LEMMA QueuesAssociate ==
  ASSUME NEW q \in Seq(Line), NEW r \in Seq(Line), NEW t \in Seq(Line)
  PROVE  (q \o r) \o t = q \o (r \o t)
BY ConcatAssociative

LEMMA EmptyIsBatch == Empty \in Batch /\ Empty.lines = <<>>
BY Queues DEF Empty, Batch, NoCounts

LEMMA IdleType ==
  /\ Idle.pc = "idle" /\ Idle.taken = Empty /\ Idle.last = FALSE
  /\ Idle \in [pc : {"idle", "read", "upload", "index"}, last : BOOLEAN,
               base : Seq(Line), taken : Batch]
BY EmptyIsBatch, Queues DEF Idle

LEMMA PlusType == \A c, d \in [Level -> Nat] : Plus(c, d) \in [Level -> Nat]
BY DEF Plus

LEMMA BatchFields == \A b \in Batch : b.lines \in Seq(Line) /\ b.counts \in [Level -> Nat]
BY DEF Batch

LEMMA FlushFields ==
  ASSUME TypeOK
  PROVE  /\ buffer.lines \in Seq(Line) /\ buffer.counts \in [Level -> Nat]
         /\ flush.taken \in Batch
         /\ flush.taken.lines \in Seq(Line) /\ flush.taken.counts \in [Level -> Nat]
         /\ flush.base \in Seq(Line)
         /\ flush.last \in BOOLEAN
         /\ flush.pc \in {"idle", "read", "upload", "index"}
BY BatchFields DEF TypeOK

LEMMA AppendedType == TypeOK => Appended \in Seq(Line)
BY FlushFields, Queues DEF Appended

LEMMA PutBackType == TypeOK /\ PutBack => buffer' \in Batch /\ flush' = Idle
<1> SUFFICES ASSUME TypeOK, PutBack PROVE buffer' \in Batch /\ flush' = Idle
  OBVIOUS
<1>1. flush.taken.lines \o buffer.lines \in Seq(Line)
  BY FlushFields, Queues
<1>2. Plus(buffer.counts, flush.taken.counts) \in [Level -> Nat]
  BY FlushFields, PlusType
<1> QED
  BY <1>1, <1>2 DEF PutBack, Done, Batch

\* The lines known are numbered from one on.
LEMMA WriteFacts ==
  ASSUME TypeOK, NEW l \in Level \cup {NoLevel}, Write(l)
  PROVE  /\ Len(written) \in Nat /\ Len(written) + 1 \in Line
         /\ Len(written') = Len(written) + 1
         /\ written' \in Seq(Level \cup {NoLevel}) /\ Len(written') <= MaxLines
         /\ buffer' \in Batch
<1>1. Len(written) \in Nat /\ Len(written) + 1 \in Line
  BY LogAssumption, LenProperties DEF TypeOK, Write, Line
<1>2. /\ Len(written') = Len(written) + 1
      /\ written' \in Seq(Level \cup {NoLevel}) /\ Len(written') <= MaxLines
  BY <1>1, LogAssumption, AppendProperties DEF TypeOK, Write
<1>3. CountedIn(buffer.counts, l) \in [Level -> Nat]
  BY FlushFields DEF CountedIn
<1>4. Append(buffer.lines, Len(written) + 1) \in Seq(Line)
  BY <1>1, FlushFields, Queues
<1> QED
  BY <1>1, <1>2, <1>3, <1>4 DEF Write, Batch

\* The steps of a flush and the others, one by one.
LEMMA Steps ==
  ASSUME [Next]_vars
  PROVE  \/ UNCHANGED vars
         \/ \E l \in Level \cup {NoLevel} : Write(l)
         \/ \E last \in BOOLEAN : Take(last)
         \/ NothingToTake \/ Read \/ ReadCutOff \/ Upload \/ UploadFails \/ UpsertLogIndex
         \/ Stop \/ Restart
BY DEF Next, FlushStep

Fates == [crashed : SUBSET Line, overwritten : SUBSET Line, early : SUBSET Line,
          lastFailed : BOOLEAN]

\* What a step adds to the history is of its type.
LEMMA FateGrows ==
  ASSUME NEW f \in Fates, NEW C \in SUBSET Line, NEW O \in SUBSET Line, NEW b \in BOOLEAN
  PROVE  /\ [f EXCEPT !.crashed = @ \cup C] \in Fates
         /\ [f EXCEPT !.overwritten = @ \cup O] \in Fates
         /\ [f EXCEPT !.early = C] \in Fates
         /\ [f EXCEPT !.lastFailed = b] \in Fates
<1>1. f.crashed \cup C \in SUBSET Line /\ f.overwritten \cup O \in SUBSET Line
  BY DEF Fates
<1> QED
  BY <1>1 DEF Fates

LEMMA TypeInit == Init => TypeOK
<1> SUFFICES ASSUME Init PROVE TypeOK
  OBVIOUS
<1>1. written \in Seq(Level \cup {NoLevel}) /\ Len(written) = 0
  BY EmptySeq DEF Init
<1> QED
  BY <1>1, LogAssumption, Queues, EmptyIsBatch, IdleType DEF Init, TypeOK, NoCounts

LEMMA TypeStep ==
  ASSUME TypeOK, [Next]_vars
  PROVE  TypeOK'
<1> USE LogAssumption DEF TypeOK
<1>1. CASE UNCHANGED vars
  BY <1>1 DEF vars, Batch
<1>2. ASSUME NEW l \in Level \cup {NoLevel}, Write(l)
      PROVE  TypeOK'
  BY <1>2, WriteFacts DEF Write
<1>3. ASSUME NEW last \in BOOLEAN, Take(last)
      PROVE  TypeOK'
  BY <1>3, EmptyIsBatch, Queues DEF Take
<1>4. CASE NothingToTake
  BY <1>4 DEF NothingToTake
<1>5. CASE Read
  <2>1. \E b \in Seq(Line) : flush' = [flush EXCEPT !.pc = "upload", !.base = b]
    BY <1>5, EmptySeq DEF Read
  <2>2. faults' \in 0 .. MaxFaults
    BY <1>5 DEF Read
  <2> QED
    BY <1>5, <2>1, <2>2 DEF Read
<1>6. CASE ReadCutOff
  BY <1>6, PutBackType, IdleType DEF ReadCutOff, PutBack, Done
<1>7. CASE Upload
  <2>1. Range(object) \in SUBSET Line
    BY RangeOfSeq
  <2> QED
    BY <1>7, <2>1, AppendedType DEF Upload, Stores
<1>8. CASE UploadFails
  <2>1. Range(object) \in SUBSET Line
    BY RangeOfSeq
  <2>2. buffer' \in Batch /\ flush' = Idle /\ run' \in {"up", "ending", "over"}
    BY <1>8, PutBackType DEF UploadFails, PutBack, Done
  <2>3. object' \in Seq(Line)
    BY <1>8, AppendedType DEF UploadFails
  <2>6. \E O \in SUBSET Line :
          fate' = [fate EXCEPT !.lastFailed = flush.last, !.overwritten = @ \cup O]
    <3>1. CASE fate' = [fate EXCEPT !.lastFailed = flush.last]
      <4>1. fate' = [fate EXCEPT !.lastFailed = flush.last, !.overwritten = @ \cup {}]
        BY <3>1
      <4> QED
        BY <4>1
    <3>2. CASE fate' = [[fate EXCEPT !.lastFailed = flush.last] EXCEPT
                          !.overwritten = @ \cup (Range(object) \ Range(Appended))]
      BY <3>2, <2>1
    <3> QED
      BY <1>8, <3>1, <3>2 DEF UploadFails
  <2>5. fate' \in [crashed : SUBSET Line, overwritten : SUBSET Line,
                   early : SUBSET Line, lastFailed : BOOLEAN]
    <3>1. PICK O \in SUBSET Line :
            fate' = [[fate EXCEPT !.lastFailed = flush.last] EXCEPT !.overwritten = @ \cup O]
      BY <2>6
    <3>2. fate \in Fates /\ flush.last \in BOOLEAN
      BY FlushFields DEF Fates
    <3>3. [fate EXCEPT !.lastFailed = flush.last] \in Fates
      BY <3>2, FateGrows
    <3> QED
      BY <3>1, <3>3, FateGrows DEF Fates
  <2>4. faults' \in 0 .. MaxFaults
    BY <1>8 DEF UploadFails
  <2> QED
    BY <1>8, <2>2, <2>3, <2>4, <2>5, IdleType DEF UploadFails
<1>9. CASE UpsertLogIndex
  <2>1. Len(flush.taken.lines) \in Nat
    BY FlushFields, LenProperties
  <2>2. Counted \in [lines : Nat, counts : [Level -> Nat]]
    BY <2>1, FlushFields DEF Counted
  <2> QED
    BY <1>9, <2>2, IdleType DEF UpsertLogIndex, Done
<1>10. CASE Stop
  <2>1. Known \in SUBSET Line
    BY LenProperties DEF Known, Line
  <2> QED
    BY <1>10, <2>1 DEF Stop
<1>11. CASE Restart
  <2>1. /\ Range(object) \in SUBSET Line /\ Range(buffer.lines) \in SUBSET Line
        /\ Range(buffer.lines \o flush.taken.lines) \in SUBSET Line
    BY FlushFields, Queues, RangeOfSeq
  <2>3. object' \in Seq(Line)
    BY <1>11, AppendedType DEF Restart
  <2>4. \E C, O \in SUBSET Line :
          fate' = [fate EXCEPT !.crashed = @ \cup C, !.overwritten = @ \cup O,
                               !.early = {}, !.lastFailed = FALSE]
    <3>1. CASE fate' = [fate EXCEPT
             !.crashed = @ \cup (Range(buffer.lines \o flush.taken.lines) \ Range(object)),
             !.early = {}, !.lastFailed = FALSE]
      <4> DEFINE C == Range(buffer.lines \o flush.taken.lines) \ Range(object)
      <4>1. C \in SUBSET Line /\ {} \in SUBSET Line
        BY <2>1
      <4>2. fate' = [fate EXCEPT !.crashed = @ \cup C, !.overwritten = @ \cup {},
                               !.early = {}, !.lastFailed = FALSE]
        BY <3>1
      <4> QED
        BY <4>1, <4>2
    <3>2. CASE fate' = [fate EXCEPT
             !.crashed = @ \cup (Range(buffer.lines) \ Range(Appended)),
             !.overwritten = @ \cup (Range(object) \ Range(Appended)),
             !.early = {}, !.lastFailed = FALSE]
      BY <3>2, <2>1
    <3> QED
      BY <1>11, <3>1, <3>2 DEF Restart
  <2>2. fate' \in [crashed : SUBSET Line, overwritten : SUBSET Line,
                   early : SUBSET Line, lastFailed : BOOLEAN]
    <3>1. PICK C \in SUBSET Line, O \in SUBSET Line :
            fate' = [fate EXCEPT !.crashed = @ \cup C, !.overwritten = @ \cup O,
                                 !.early = {}, !.lastFailed = FALSE]
      BY <2>4
    <3> DEFINE f1 == [fate EXCEPT !.crashed = @ \cup C]
               f2 == [f1 EXCEPT !.overwritten = @ \cup O]
               f3 == [f2 EXCEPT !.early = {}]
               f4 == [f3 EXCEPT !.lastFailed = FALSE]
    <3>2. fate \in Fates
      BY DEF Fates
    <3>3. f1 \in Fates
      BY <3>2, FateGrows
    <3> HIDE DEF f1
    <3>4. f2 \in Fates
      BY <3>3, FateGrows
    <3> HIDE DEF f2
    <3>5. f3 \in Fates
      BY <3>4, FateGrows
    <3> HIDE DEF f3
    <3>6. f4 \in Fates
      BY <3>5, FateGrows
    <3>7. fate' = f4
      BY <3>1 DEF f1, f2, f3
    <3> QED
      BY <3>6, <3>7 DEF Fates
  <2> QED
    BY <1>11, <2>2, <2>3, EmptyIsBatch, IdleType DEF Restart
<1> QED
  BY <1>1, <1>2, <1>3, <1>4, <1>5, <1>6, <1>7, <1>8, <1>9, <1>10, <1>11, Steps

-----------------------------------------------------------------------------
(* A flush.                                                                *)

\* What a flush has taken is something, and it builds on the object or on nothing.
FlushInv ==
  /\ flush.pc = "idle" => flush.taken.lines = <<>> /\ flush.last = FALSE
  /\ flush.pc # "idle" => flush.taken.lines # <<>>
  /\ flush.pc = "upload" => flush.base \in {object, <<>>}

LEMMA FlushInit == Init => FlushInv
BY IdleType, EmptyIsBatch DEF Init, FlushInv

LEMMA FlushStays ==
  ASSUME TypeOK, FlushInv, [Next]_vars
  PROVE  FlushInv'
<1> USE DEF FlushInv
<1>0. flush' = Idle => FlushInv'
  BY IdleType, EmptyIsBatch
<1>1. CASE UNCHANGED vars
  BY <1>1 DEF vars
<1>2. ASSUME NEW l \in Level \cup {NoLevel}, Write(l)
      PROVE  FlushInv'
  BY <1>2 DEF Write
<1>3. ASSUME NEW last \in BOOLEAN, Take(last)
      PROVE  FlushInv'
  BY <1>3 DEF Take, AnyToTake
<1>4. CASE NothingToTake
  BY <1>4 DEF NothingToTake
<1>5. CASE Read
  BY <1>5 DEF Read, TypeOK
<1>6. CASE ReadCutOff
  BY <1>6, <1>0 DEF ReadCutOff, PutBack, Done
<1>7. CASE Upload
  BY <1>7 DEF Upload, TypeOK
<1>8. CASE UploadFails
  BY <1>8, <1>0 DEF UploadFails, PutBack, Done
<1>9. CASE UpsertLogIndex
  BY <1>9, <1>0 DEF UpsertLogIndex, Done
<1>10. CASE Stop
  BY <1>10 DEF Stop
<1>11. CASE Restart
  BY <1>11, <1>0 DEF Restart
<1> QED
  BY <1>1, <1>2, <1>3, <1>4, <1>5, <1>6, <1>7, <1>8, <1>9, <1>10, <1>11, Steps

\* The types hold for any number of lines and failures.
THEOREM TypeCorrect == Spec => []TypeOK
<1>1. Init => TypeOK
  BY TypeInit
<1>2. TypeOK /\ [Next]_vars => TypeOK'
  BY TypeStep
<1> QED
  BY <1>1, <1>2, PTL DEF Spec

LEMMA FlushCorrect == Spec => [](TypeOK /\ FlushInv)
<1>1. Init => TypeOK /\ FlushInv
  BY TypeInit, FlushInit
<1>2. TypeOK /\ FlushInv /\ [Next]_vars => TypeOK' /\ FlushInv'
  BY TypeStep, FlushStays
<1> QED
  BY <1>1, <1>2, PTL DEF Spec

-----------------------------------------------------------------------------
(* The log store implements its promise.                                   *)

\* Cutting a concatenation where its parts meet gives the parts back.
LEMMA Cuts ==
  ASSUME NEW q \in Seq(Line), NEW r \in Seq(Line), q # <<>>
  PROVE  /\ Len(q) \in 1 .. Len(q \o r)
         /\ SubSeq(q \o r, 1, Len(q)) = q
         /\ SubSeq(q \o r, Len(q) + 1, Len(q \o r)) = r
<1>1. /\ Len(q) \in Nat \ {0} /\ Len(r) \in Nat
      /\ Len(q \o r) = Len(q) + Len(r)
      /\ q \o r \in Seq(Line)
  BY EmptySeq, LenProperties, ConcatProperties
<1>2. SubSeq(q \o r, 1, Len(q)) = q
  <2>1. SubSeq(q \o r, 1, Len(q)) = SubSeq(q, 1, Len(q))
    BY <1>1, SubSeqOfConcat1
  <2> QED
    BY <2>1, SubSeqFull
<1>3. SubSeq(q \o r, Len(q) + 1, Len(q \o r)) = r
  <2>1. CASE r = <<>>
    <3>1. Len(r) = 0
      BY <2>1
    <3>2. SubSeq(q \o r, Len(q) + 1, Len(q \o r)) = <<>>
      BY <1>1, <3>1, SubSeqEmpty
    <3> QED
      BY <2>1, <3>2
  <2>2. CASE r # <<>>
    <3>1. Len(r) \in Nat \ {0}
      BY <2>2, EmptySeq
    <3>2. SubSeq(q \o r, Len(q) + 1, Len(q) + Len(r))
            = SubSeq(r, Len(q) + 1 - Len(q), Len(q) + Len(r) - Len(q))
      BY <1>1, <3>1, SubSeqOfConcat2
    <3>3. Len(q) + 1 - Len(q) = 1 /\ Len(q) + Len(r) - Len(q) = Len(r)
      BY <1>1
    <3> QED
      BY <1>1, <3>2, <3>3, SubSeqFull
  <2> QED
    BY <2>1, <2>2
<1> QED
  BY <1>1, <1>2, <1>3

LEMMA PromiseInit == Init => Promise!Init
<1> SUFFICES ASSUME Init PROVE Promise!Init
  OBVIOUS
<1>1. OnTheWay = <<>>
  BY IdleType, EmptyIsBatch, Queues DEF Init, OnTheWay
<1>2. Len(written) = 0 /\ flush.pc = "idle" /\ object = <<>> /\ index.lines = 0
  BY EmptySeq, IdleType DEF Init
<1> QED
  BY <1>1, <1>2 DEF Promise!Init

\* What a step leaves to be done.
Due == IF flush.pc = "index" THEN Len(flush.taken.lines) ELSE 0

LEMMA PromiseStep ==
  ASSUME TypeOK, FlushInv, [Next]_vars
  PROVE  [Promise!Next]_(Promise!vars)
<1> DEFINE P == /\ Len(written') = Len(written) /\ OnTheWay' = OnTheWay /\ object' = object
                /\ Due' = Due /\ index'.lines = index.lines
<1>a. P => [Promise!Next]_(Promise!vars)
  BY DEF Promise!vars, Due
<1>b. /\ buffer.lines \in Seq(Line) /\ flush.taken.lines \in Seq(Line)
      /\ Idle.taken.lines = <<>> /\ Idle.pc = "idle" /\ Empty.lines = <<>>
  BY FlushFields, IdleType, EmptyIsBatch
<1>c. flush.pc \in {"idle", "read", "upload"} => OnTheWay = flush.taken.lines \o buffer.lines
  BY DEF OnTheWay
<1>1. CASE UNCHANGED vars
  <2>1. P
    BY <1>1 DEF vars, OnTheWay, Due
  <2> QED
    BY <2>1, <1>a
<1>2. ASSUME NEW l \in Level \cup {NoLevel}, Write(l)
      PROVE  [Promise!Next]_(Promise!vars)
  <2> DEFINE n == Len(written) + 1
  <2>1. n \in Line /\ Len(written') = n
    BY <1>2, WriteFacts
  <2>2. buffer'.lines = Append(buffer.lines, n) /\ UNCHANGED <<flush, object, index>>
    BY <1>2 DEF Write
  <2>3. OnTheWay' = Append(OnTheWay, n)
    <3>1. /\ Append(buffer.lines, n) = buffer.lines \o <<n>>
          /\ flush.taken.lines \o buffer.lines \in Seq(Line)
          /\ <<n>> \in Seq(Line)
      BY <1>b, <2>1, AppendIsConcat, Queues
    <3>2. Append(flush.taken.lines \o buffer.lines, n) = (flush.taken.lines \o buffer.lines) \o <<n>>
      BY <2>1, <3>1, AppendIsConcat
    <3>3. (flush.taken.lines \o buffer.lines) \o <<n>> = flush.taken.lines \o (buffer.lines \o <<n>>)
      BY <1>b, <3>1, QueuesAssociate
    <3> QED
      BY <2>2, <3>1, <3>2, <3>3 DEF OnTheWay
  <2>4. Promise!Accept
    BY <2>1, <2>2, <2>3 DEF Promise!Accept
  <2> QED
    BY <2>4 DEF Promise!Next
<1>3. ASSUME NEW last \in BOOLEAN, Take(last)
      PROVE  [Promise!Next]_(Promise!vars)
  <2>1. /\ flush.taken.lines = <<>> /\ flush.pc = "idle"
        /\ flush'.pc = "read" /\ flush'.taken = buffer /\ buffer'.lines = <<>>
        /\ UNCHANGED <<written, object, index>>
    BY <1>3, <1>b DEF Take, FlushInv
  <2>2. OnTheWay = buffer.lines /\ OnTheWay' = buffer.lines
    BY <2>1, <1>b, Queues DEF OnTheWay
  <2> QED
    BY <2>1, <2>2, <1>a DEF Due
<1>4. CASE NothingToTake
  BY <1>4, <1>a DEF NothingToTake, OnTheWay, Due
<1>5. CASE Read
  <2>1. /\ flush.pc = "read" /\ flush'.pc = "upload" /\ flush'.taken = flush.taken
        /\ UNCHANGED <<written, buffer, object, index>>
    BY <1>5 DEF Read, TypeOK
  <2> QED
    BY <2>1, <1>a DEF OnTheWay, Due
<1>d. ASSUME PutBack, flush.pc # "index"
      PROVE  OnTheWay' = OnTheWay /\ flush'.pc = "idle"
  <2>1. /\ flush' = Idle /\ buffer'.lines = flush.taken.lines \o buffer.lines
    BY <1>d DEF PutBack, Done
  <2>2. <<>> \o (flush.taken.lines \o buffer.lines) = flush.taken.lines \o buffer.lines
    BY <1>b, Queues
  <2> QED
    BY <1>b, <1>d, <2>1, <2>2 DEF OnTheWay
<1>6. CASE ReadCutOff
  <2>1. flush.pc = "read" /\ PutBack /\ UNCHANGED <<written, object, index>>
    BY <1>6 DEF ReadCutOff
  <2> QED
    BY <2>1, <1>d, <1>a DEF Due
<1>e. ASSUME object' = Appended, flush.pc = "upload"
      PROVE  /\ Len(flush.taken.lines) \in 1 .. Len(OnTheWay)
             /\ Promise!Stored(Len(flush.taken.lines))
             /\ SubSeq(OnTheWay, Len(flush.taken.lines) + 1, Len(OnTheWay)) = buffer.lines
  <2>1. flush.taken.lines # <<>> /\ flush.base \in {object, <<>>}
    BY <1>e DEF FlushInv
  <2>2. OnTheWay = flush.taken.lines \o buffer.lines
    BY <1>e, <1>c
  <2>3. /\ Len(flush.taken.lines) \in 1 .. Len(OnTheWay)
        /\ SubSeq(OnTheWay, 1, Len(flush.taken.lines)) = flush.taken.lines
        /\ SubSeq(OnTheWay, Len(flush.taken.lines) + 1, Len(OnTheWay)) = buffer.lines
    BY <1>b, <2>1, <2>2, Cuts
  <2>4. object' = flush.base \o SubSeq(OnTheWay, 1, Len(flush.taken.lines))
    BY <1>e, <2>3 DEF Appended
  <2> QED
    BY <2>1, <2>3, <2>4 DEF Promise!Stored
<1>7. CASE Upload
  <2> DEFINE k == Len(flush.taken.lines)
  <2>1. /\ flush.pc = "upload" /\ object' = Appended
        /\ flush'.pc = "index" /\ flush'.taken = flush.taken
        /\ UNCHANGED <<written, buffer, index>>
    BY <1>7 DEF Upload, Stores, TypeOK
  <2>2. /\ k \in 1 .. Len(OnTheWay) /\ Promise!Stored(k)
        /\ SubSeq(OnTheWay, k + 1, Len(OnTheWay)) = buffer.lines
    BY <2>1, <1>e
  <2>3. OnTheWay' = buffer.lines
    BY <2>1 DEF OnTheWay
  <2>4. Promise!Store(k)
    BY <2>1, <2>2, <2>3 DEF Promise!Store
  <2> QED
    BY <2>2, <2>4 DEF Promise!Next
<1>8. CASE UploadFails
  <2>1. flush.pc = "upload" /\ PutBack /\ UNCHANGED <<written, index>>
    BY <1>8 DEF UploadFails
  <2>2. OnTheWay' = OnTheWay /\ flush'.pc = "idle"
    BY <2>1, <1>d
  <2>3. CASE object' = object
    BY <2>1, <2>2, <2>3, <1>a DEF Due
  <2>4. CASE object' = Appended
    <3> DEFINE k == Len(flush.taken.lines)
    <3>1. k \in 1 .. Len(OnTheWay) /\ Promise!Stored(k)
      BY <2>1, <2>4, <1>e
    <3>2. Promise!StoreInDoubt(k)
      BY <2>1, <2>2, <3>1 DEF Promise!StoreInDoubt
    <3> QED
      BY <3>1, <3>2 DEF Promise!Next
  <2> QED
    BY <1>8, <2>3, <2>4 DEF UploadFails
<1>9. CASE UpsertLogIndex
  <2>1. /\ flush.pc = "index" /\ flush' = Idle /\ UNCHANGED <<written, buffer, object>>
        /\ index'.lines \in {index.lines, index.lines + Len(flush.taken.lines)}
    BY <1>9 DEF UpsertLogIndex, Done, Counted
  <2>2. OnTheWay = buffer.lines /\ OnTheWay' = buffer.lines
    BY <2>1, <1>b, Queues DEF OnTheWay
  <2>3. Promise!Count
    BY <2>1, <2>2, <1>b DEF Promise!Count
  <2> QED
    BY <2>3 DEF Promise!Next
<1>10. CASE Stop
  BY <1>10, <1>a DEF Stop, OnTheWay, Due
<1>11. CASE Restart
  <2>1. buffer'.lines = <<>> /\ flush' = Idle /\ UNCHANGED <<written, index>>
    BY <1>11, <1>b DEF Restart
  <2>2. OnTheWay' = <<>> /\ flush'.pc = "idle"
    BY <2>1, <1>b, Queues DEF OnTheWay
  <2>3. CASE object' = object
    BY <2>1, <2>2, <2>3 DEF Promise!Crash, Promise!Next
  <2>4. CASE flush.pc = "upload" /\ object' = Appended
    <3>1. Len(flush.taken.lines) \in 1 .. Len(OnTheWay) /\ Promise!Stored(Len(flush.taken.lines))
      BY <2>4, <1>e
    <3>2. Promise!Crash
      BY <2>1, <2>2, <2>4, <3>1 DEF Promise!Crash
    <3> QED
      BY <3>2 DEF Promise!Next
  <2> QED
    BY <1>11, <2>3, <2>4 DEF Restart
<1> QED
  BY <1>1, <1>2, <1>3, <1>4, <1>5, <1>6, <1>7, <1>8, <1>9, <1>10, <1>11, Steps

\* Every step of the log store is one its promise allows, or none: a line that was accepted
\* is stored behind the ones before it and not again once it is known to be stored, what is
\* counted is stored, and only a crash or a batch on an empty base loses lines (Write,
\* flushTask, AppendJSONL, UpsertLogIndex).
THEOREM PromiseCorrect == Spec => PromiseKept
<1>1. Init => Promise!Init
  BY PromiseInit
<1>2. TypeOK /\ FlushInv /\ [Next]_vars => [Promise!Next]_(Promise!vars)
  BY PromiseStep
<1> QED
  BY <1>1, <1>2, FlushCorrect, PTL DEF Spec, PromiseKept, Promise!Spec

-----------------------------------------------------------------------------
(* A shutdown flushes.                                                     *)

\* The lines that are stored, or are known to be lost.
Kept == Range(object) \cup Gone

Taken == Range(flush.taken.lines)

Buffered == Range(buffer.lines)

\* Every line is in one of three places, and the last flush has all the early ones.
ShutdownInv ==
  /\ fate.early \subseteq Known
  /\ Known \subseteq Taken \cup Buffered \cup Kept
  /\ flush.pc = "index" => Taken \subseteq Kept
  /\ flush.pc # "idle" => run # "over"
  /\ flush.last => run = "ending" /\ fate.early \subseteq Taken \cup Kept
  /\ StopFlushes

LEMMA ShutdownInit == Init => ShutdownInv
<1> SUFFICES ASSUME Init PROVE ShutdownInv
  OBVIOUS
<1>1. Len(written) = 0 /\ Known = {}
  BY EmptySeq DEF Init, Known
<1> QED
  BY <1>1, IdleType DEF Init, ShutdownInv, StopFlushes

\* What a step that puts the lines back leaves in the three places.
LEMMA PutBackPlaces ==
  ASSUME TypeOK, PutBack
  PROVE  Buffered' = Taken \cup Buffered /\ Taken' = {} /\ flush'.last = FALSE /\ flush'.pc = "idle"
<1>1. Range(<<>>) = {}
  BY DEF Range
<1>2. Range(flush.taken.lines \o buffer.lines) = Taken \cup Buffered
  BY FlushFields, Queues DEF Taken, Buffered
<1> QED
  BY <1>1, <1>2, IdleType, EmptyIsBatch DEF PutBack, Done, Taken, Buffered

\* An upload keeps what it has and remembers what it has replaced.
LEMMA UploadKeeps ==
  ASSUME TypeOK, object' = Appended, fate'.crashed = fate.crashed,
         fate'.overwritten = fate.overwritten \cup (Range(object) \ Range(Appended))
  PROVE  Kept \subseteq Kept' /\ Taken \subseteq Kept'
<1>1. Range(Appended) = Range(flush.base) \cup Taken
  BY FlushFields, Queues DEF Appended, Taken
<1> QED
  BY <1>1 DEF Kept, Gone

LEMMA ShutdownStep ==
  ASSUME TypeOK, FlushInv, ShutdownInv, [Next]_vars
  PROVE  ShutdownInv'
<1>a. Range(<<>>) = {} /\ Idle.taken.lines = <<>> /\ Idle.last = FALSE /\ Idle.pc = "idle"
      /\ Empty.lines = <<>>
  BY IdleType, EmptyIsBatch DEF Range
<1>1. CASE UNCHANGED vars
  BY <1>1 DEF vars, ShutdownInv, StopFlushes, Known, Taken, Buffered, Kept, Gone
<1>2. ASSUME NEW l \in Level \cup {NoLevel}, Write(l)
      PROVE  ShutdownInv'
  <2>1. Len(written) \in Nat /\ Len(written') = Len(written) + 1 /\ Len(written) + 1 \in Line
    BY <1>2, WriteFacts
  <2>2. Known \subseteq Known' /\ Known' \subseteq Known \cup {Len(written) + 1}
    BY <2>1 DEF Known
  <2>3. Buffered' = Buffered \cup {Len(written) + 1}
    BY <1>2, <2>1, FlushFields, Queues DEF Write, Buffered
  <2>4. Taken' = Taken /\ Kept' = Kept /\ UNCHANGED <<flush, run, fate, object>>
    BY <1>2 DEF Write, Taken, Kept, Gone
  <2> QED
    BY <2>2, <2>3, <2>4 DEF ShutdownInv, StopFlushes, Kept, Gone
<1>3. ASSUME NEW last \in BOOLEAN, Take(last)
      PROVE  ShutdownInv'
  <2>1. Taken' = Buffered /\ Buffered' = {} /\ Taken = {} /\ Kept' = Kept /\ Known' = Known
    BY <1>3, <1>a DEF Take, FlushInv, Taken, Buffered, Kept, Gone, Known
  <2>2. /\ flush'.pc = "read" /\ flush'.last = last /\ run = (IF last THEN "ending" ELSE "up")
        /\ UNCHANGED <<run, fate, object>>
    BY <1>3 DEF Take
  <2> QED
    BY <2>1, <2>2 DEF ShutdownInv, StopFlushes, Kept, Gone
<1>4. CASE NothingToTake
  <2>1. Taken = {} /\ Buffered = {}
    BY <1>4, <1>a DEF NothingToTake, AnyToTake, FlushInv, Taken, Buffered
  <2>2. fate.early \subseteq Range(object) \cup Gone
    BY <2>1 DEF ShutdownInv, Kept
  <2>3. /\ UNCHANGED <<flush, fate, object>> /\ flush.pc = "idle" /\ flush.last = FALSE
        /\ Taken' = Taken /\ Buffered' = Buffered /\ Kept' = Kept /\ Known' = Known /\ Gone' = Gone
    BY <1>4 DEF NothingToTake, FlushInv, Taken, Buffered, Kept, Gone, Known
  <2> QED
    BY <2>2, <2>3 DEF ShutdownInv, StopFlushes
<1>5. CASE Read
  <2>1. /\ flush'.pc = "upload" /\ flush'.last = flush.last /\ flush'.taken = flush.taken
        /\ flush.pc = "read" /\ UNCHANGED <<written, buffer, object, run, fate>>
    BY <1>5 DEF Read, TypeOK
  <2> QED
    BY <2>1 DEF ShutdownInv, StopFlushes, Known, Taken, Buffered, Kept, Gone
<1>6. CASE ReadCutOff
  <2>1. Buffered' = Taken \cup Buffered /\ Taken' = {} /\ flush'.last = FALSE /\ flush'.pc = "idle"
    BY <1>6, PutBackPlaces DEF ReadCutOff
  <2>2. run' = "ending" /\ UNCHANGED <<written, object, fate>>
    BY <1>6 DEF ReadCutOff, CutOff, PutBack, Done
  <2> QED
    BY <2>1, <2>2 DEF ShutdownInv, StopFlushes, Known, Kept, Gone
<1>7. CASE Upload
  <2>1. /\ flush.pc = "upload" /\ flush'.pc = "index" /\ flush'.last = flush.last
        /\ flush'.taken = flush.taken /\ UNCHANGED <<written, buffer, run>>
    BY <1>7 DEF Upload, TypeOK
  <2>2. /\ object' = Appended /\ fate'.crashed = fate.crashed
        /\ fate'.overwritten = fate.overwritten \cup (Range(object) \ Range(Appended))
        /\ fate'.early = fate.early /\ fate'.lastFailed = fate.lastFailed
    BY <1>7 DEF Upload, Stores, TypeOK
  <2>3. Kept \subseteq Kept' /\ Taken \subseteq Kept'
    BY <2>2, UploadKeeps
  <2>4. Taken' = Taken /\ Buffered' = Buffered /\ Known' = Known
    BY <2>1 DEF Taken, Buffered, Known
  <2> QED
    BY <2>1, <2>2, <2>3, <2>4 DEF ShutdownInv, StopFlushes
<1>8. CASE UploadFails
  <2>1. /\ Buffered' = Taken \cup Buffered /\ Taken' = {} /\ flush'.last = FALSE
        /\ flush'.pc = "idle" /\ flush.pc = "upload"
    BY <1>8, PutBackPlaces DEF UploadFails
  <2>2. /\ fate'.early = fate.early /\ fate'.lastFailed = flush.last
        /\ Kept \subseteq Kept' /\ Known' = Known
    <3>1. CASE object' = object /\ fate' = [fate EXCEPT !.lastFailed = flush.last]
      BY <1>8, <3>1 DEF UploadFails, TypeOK, Kept, Gone, Known
    <3>2. CASE /\ object' = Appended
               /\ fate' = [[fate EXCEPT !.lastFailed = flush.last] EXCEPT
                             !.overwritten = @ \cup (Range(object) \ Range(Appended))]
      <4>1. /\ fate'.crashed = fate.crashed
            /\ fate'.overwritten = fate.overwritten \cup (Range(object) \ Range(Appended))
            /\ fate'.early = fate.early /\ fate'.lastFailed = flush.last
        BY <3>2 DEF TypeOK
      <4> QED
        BY <1>8, <3>2, <4>1, UploadKeeps DEF UploadFails, Known
    <3> QED
      BY <1>8, <3>1, <3>2 DEF UploadFails
  <2>3. run' = IF flush.last THEN "over" ELSE run
    BY <1>8 DEF UploadFails, PutBack, Done
  <2> QED
    BY <2>1, <2>2, <2>3 DEF ShutdownInv, StopFlushes
<1>9. CASE UpsertLogIndex
  <2>1. /\ flush.pc = "index" /\ flush'.pc = "idle" /\ flush'.last = FALSE /\ Taken' = {}
        /\ run' = (IF flush.last THEN "over" ELSE run)
        /\ UNCHANGED <<written, buffer, object, fate>>
    BY <1>9, <1>a DEF UpsertLogIndex, Done, Taken
  <2>2. Known' = Known /\ Buffered' = Buffered /\ Kept' = Kept
    BY <2>1 DEF Known, Buffered, Kept, Gone
  <2> QED
    BY <2>1, <2>2 DEF ShutdownInv, StopFlushes, Kept, Gone
<1>10. CASE Stop
  <2>1. /\ fate'.early = Known /\ fate'.crashed = fate.crashed
        /\ fate'.overwritten = fate.overwritten
        /\ run = "up" /\ run' = "ending" /\ UNCHANGED <<written, buffer, flush, object>>
    BY <1>10 DEF Stop, TypeOK
  <2> QED
    BY <2>1 DEF ShutdownInv, StopFlushes, Known, Taken, Buffered, Kept, Gone
<1>11. CASE Restart
  <2>1. /\ Taken' = {} /\ Buffered' = {} /\ flush'.pc = "idle" /\ flush'.last = FALSE
        /\ run' = "up" /\ Known' = Known
    BY <1>11, <1>a DEF Restart, Taken, Buffered, Known
  <2>2. fate'.early = {}
    BY <1>11 DEF Restart, TypeOK
  <2>3. Range(buffer.lines \o flush.taken.lines) = Taken \cup Buffered
    BY FlushFields, Queues DEF Taken, Buffered
  <2>4. Taken \cup Buffered \cup Kept \subseteq Kept'
    <3>1. CASE /\ object' = object
               /\ fate'.crashed = fate.crashed \cup ((Taken \cup Buffered) \ Range(object))
               /\ fate'.overwritten = fate.overwritten
      BY <3>1 DEF Kept, Gone
    <3>2. CASE /\ object' = Appended
               /\ fate'.crashed = fate.crashed \cup (Buffered \ Range(Appended))
               /\ fate'.overwritten = fate.overwritten \cup (Range(object) \ Range(Appended))
      <4>1. Range(Appended) = Range(flush.base) \cup Taken
        BY FlushFields, Queues DEF Appended, Taken
      <4> QED
        BY <3>2, <4>1 DEF Kept, Gone
    <3> QED
      BY <1>11, <2>3, <3>1, <3>2 DEF Restart, TypeOK, Buffered
  <2> QED
    BY <2>1, <2>2, <2>4 DEF ShutdownInv, StopFlushes
<1> QED
  BY <1>1, <1>2, <1>3, <1>4, <1>5, <1>6, <1>7, <1>8, <1>9, <1>10, <1>11, Steps

\* When Run has returned after its last flush, every line written before the shutdown began
\* is stored, or was lost before, unless that flush failed (LogSink.Run).
THEOREM StopCorrect == Spec => []StopFlushes
<1>1. Init => ShutdownInv
  BY ShutdownInit
<1>2. TypeOK /\ FlushInv /\ ShutdownInv /\ [Next]_vars => ShutdownInv'
  BY ShutdownStep
<1>3. ShutdownInv => StopFlushes
  BY DEF ShutdownInv
<1> QED
  BY <1>1, <1>2, <1>3, FlushCorrect, PTL DEF Spec

-----------------------------------------------------------------------------
(* The counts of a batch.                                                  *)

\* A line is taken or buffered, not both, and was written.
CountsInv ==
  /\ Taken \subseteq Known /\ Buffered \subseteq Known
  /\ Taken \cap Buffered = {}
  /\ CountsMatch

\* The lines of a set at a level.
Of(S, l) == {n \in S : written[n] = l}

LEMMA Tallies ==
  ASSUME NEW q
  PROVE  Tally(q) = [l \in Level |-> Cardinality(Of(Range(q), l))]
BY DEF Tally, Of

LEMMA EmptyTally == Tally(<<>>) = NoCounts
<1>1. \A l \in Level : {n \in Range(<<>>) : written[n] = l} = {}
  BY DEF Range
<1> QED
  BY <1>1, FS_EmptySet DEF Tally, NoCounts

\* Sets of known lines are finite.
LEMMA KnownIsFinite ==
  ASSUME TypeOK, NEW S \in SUBSET Known, NEW l
  PROVE  IsFiniteSet(Of(S, l)) /\ Cardinality(Of(S, l)) \in Nat
<1>1. IsFiniteSet(Known)
  BY LenProperties, FS_Interval DEF TypeOK, Known
<1>2. Of(S, l) \in SUBSET Known
  BY DEF Of
<1> QED
  BY <1>1, <1>2, FS_Subset, FS_CardinalityType

LEMMA DisjointUnion ==
  ASSUME NEW A, NEW B, IsFiniteSet(A), IsFiniteSet(B), A \cap B = {}
  PROVE  Cardinality(A \cup B) = Cardinality(A) + Cardinality(B)
<1>1. Cardinality(A \cap B) = 0
  BY FS_EmptySet
<1>2. Cardinality(A \cup B) = Cardinality(A) + Cardinality(B) - Cardinality(A \cap B)
  BY FS_Union
<1>3. Cardinality(A) \in Nat /\ Cardinality(B) \in Nat
  BY FS_CardinalityType
<1> QED
  BY <1>1, <1>2, <1>3

\* Counts of batches without a line in common add up.
LEMMA CountsAdd ==
  ASSUME TypeOK, CountsInv, NEW l \in Level
  PROVE  Cardinality(Of(Taken \cup Buffered, l)) = buffer.counts[l] + flush.taken.counts[l]
<1>1. /\ IsFiniteSet(Of(Taken, l)) /\ Cardinality(Of(Taken, l)) \in Nat
      /\ IsFiniteSet(Of(Buffered, l)) /\ Cardinality(Of(Buffered, l)) \in Nat
  BY KnownIsFinite DEF CountsInv
<1>2. /\ Of(Taken \cup Buffered, l) = Of(Taken, l) \cup Of(Buffered, l)
      /\ Of(Taken, l) \cap Of(Buffered, l) = {}
  BY DEF Of, CountsInv
<1>3. Cardinality(Of(Taken, l) \cup Of(Buffered, l))
        = Cardinality(Of(Taken, l)) + Cardinality(Of(Buffered, l))
  BY <1>1, <1>2, DisjointUnion
<1>4. /\ buffer.counts[l] = Cardinality(Of(Buffered, l))
      /\ flush.taken.counts[l] = Cardinality(Of(Taken, l))
  BY Tallies DEF CountsInv, CountsMatch, Taken, Buffered
<1>5. Cardinality(Of(Taken \cup Buffered, l)) = Cardinality(Of(Taken, l) \cup Of(Buffered, l))
  BY <1>2
<1>6. Cardinality(Of(Taken, l) \cup Of(Buffered, l)) = flush.taken.counts[l] + buffer.counts[l]
  BY <1>3, <1>4
<1>7. flush.taken.counts[l] \in Nat /\ buffer.counts[l] \in Nat
  BY FlushFields
<1> QED
  BY <1>5, <1>6, <1>7

LEMMA CountsInit == Init => CountsInv
<1> SUFFICES ASSUME Init PROVE CountsInv
  OBVIOUS
<1>1. Range(<<>>) = {} /\ buffer = Empty /\ flush.taken = Empty
  BY IdleType DEF Init, Range
<1> QED
  BY <1>1, EmptyIsBatch, EmptyTally DEF CountsInv, CountsMatch, Taken, Buffered, Empty

\* A line written is counted at its level, and no other count changes.
LEMMA WriteCounts ==
  ASSUME TypeOK, CountsInv, NEW l \in Level \cup {NoLevel}, Write(l)
  PROVE  CountsInv'
<1> DEFINE n == Len(written) + 1
<1>1. /\ Len(written) \in Nat /\ n \in Line /\ Len(written') = n
      /\ Known \subseteq Known' /\ n \in Known' /\ n \notin Known
  BY WriteFacts DEF Known
<1>2. written' = Append(written, l) /\ (\A i \in Known : written'[i] = written[i]) /\ written'[n] = l
  BY <1>1, AppendProperties DEF Write, TypeOK, Known
<1>3. /\ Buffered' = Buffered \cup {n} /\ Taken' = Taken /\ flush' = flush
      /\ buffer'.counts = CountedIn(buffer.counts, l)
  BY <1>1, FlushFields, Queues DEF Write, Buffered, Taken
<1>4. Tally(flush.taken.lines)' = Tally(flush.taken.lines)
  <2>1. \A k \in Level : {i \in Taken : written'[i] = k} = {i \in Taken : written[i] = k}
    BY <1>2 DEF CountsInv
  <2> QED
    BY <1>3, <2>1 DEF Tally, Taken
<1>5. Tally(buffer.lines)' = CountedIn(buffer.counts, l)
  <2>1. Tally(buffer.lines)' = [k \in Level |-> Cardinality({i \in Buffered \cup {n} : written'[i] = k})]
    BY <1>3 DEF Tally, Buffered
  <2>2. buffer.counts \in [Level -> Nat]
        /\ \A k \in Level : buffer.counts[k] = Cardinality(Of(Buffered, k))
    BY FlushFields, Tallies DEF CountsInv, CountsMatch, Buffered
  <2>3. ASSUME NEW k \in Level
        PROVE  Cardinality({i \in Buffered \cup {n} : written'[i] = k}) = CountedIn(buffer.counts, l)[k]
    <3>1. IsFiniteSet(Of(Buffered, k)) /\ n \notin Of(Buffered, k)
      BY <1>1, KnownIsFinite DEF CountsInv, Of
    <3>2. CASE k = l
      <4>1. {i \in Buffered \cup {n} : written'[i] = k} = Of(Buffered, k) \cup {n}
        BY <1>2, <3>2 DEF Of, CountsInv
      <4> QED
        <5>1. Cardinality(Of(Buffered, k) \cup {n}) = Cardinality(Of(Buffered, k)) + 1
          BY <3>1, FS_AddElement
        <5>2. CountedIn(buffer.counts, l)[k] = buffer.counts[k] + 1
          BY <2>2, <3>2 DEF CountedIn
        <5> QED
          BY <2>2, <4>1, <5>1, <5>2
    <3>3. CASE k # l
      <4>1. {i \in Buffered \cup {n} : written'[i] = k} = Of(Buffered, k)
        BY <1>2, <3>3 DEF Of, CountsInv
      <4> QED
        BY <2>2, <3>3, <4>1 DEF CountedIn
    <3> QED
      BY <3>2, <3>3
  <2>4. CountedIn(buffer.counts, l) \in [Level -> Nat]
    BY <2>2 DEF CountedIn
  <2> QED
    BY <2>1, <2>3, <2>4
<1>6. CountsMatch'
  BY <1>3, <1>4, <1>5 DEF CountsInv, CountsMatch
<1> QED
  BY <1>1, <1>3, <1>6 DEF CountsInv

LEMMA PutBackCounts ==
  ASSUME TypeOK, CountsInv, PutBack, written' = written
  PROVE  CountsInv'
<1>1. Buffered' = Taken \cup Buffered /\ Taken' = {}
  BY PutBackPlaces
<1>2. /\ buffer'.counts = Plus(buffer.counts, flush.taken.counts)
      /\ flush'.taken.counts = NoCounts /\ flush'.taken.lines = <<>>
  BY IdleType, EmptyIsBatch DEF PutBack, Done, Empty
<1>3. Tally(buffer.lines)' = [l \in Level |-> Cardinality(Of(Taken \cup Buffered, l))]
  BY <1>1 DEF Tally, Of, Buffered
<1>4. buffer'.counts = Tally(buffer.lines)'
  BY <1>2, <1>3, CountsAdd DEF Plus
<1>5. Tally(<<>>)' = NoCounts
  <2>1. \A l \in Level : {i \in Range(<<>>) : written'[i] = l} = {}
    BY DEF Range
  <2> QED
    BY <2>1, FS_EmptySet DEF Tally, NoCounts
<1>6. CountsMatch'
  BY <1>2, <1>4, <1>5 DEF CountsMatch
<1> QED
  BY <1>1, <1>6 DEF CountsInv, Known

\* A step that leaves the written lines and the two batches alone.
LEMMA CountsStay ==
  ASSUME CountsInv, UNCHANGED <<written, buffer>>, flush'.taken = flush.taken
  PROVE  CountsInv'
BY DEF CountsInv, CountsMatch, Tally, Taken, Buffered, Known

LEMMA CountsStep ==
  ASSUME TypeOK, FlushInv, CountsInv, [Next]_vars
  PROVE  CountsInv'
<1>a. /\ Range(<<>>) = {} /\ Idle.taken = Empty /\ Empty.lines = <<>> /\ Empty.counts = NoCounts
      /\ Tally(<<>>) = NoCounts
  BY IdleType, EmptyIsBatch, EmptyTally DEF Range, Empty
<1>1. CASE UNCHANGED vars
  BY <1>1, CountsStay DEF vars
<1>2. ASSUME NEW l \in Level \cup {NoLevel}, Write(l)
      PROVE  CountsInv'
  BY <1>2, WriteCounts
<1>3. ASSUME NEW last \in BOOLEAN, Take(last)
      PROVE  CountsInv'
  <2>1. flush'.taken = buffer /\ buffer' = Empty /\ written' = written
    BY <1>3 DEF Take
  <2> QED
    BY <2>1, <1>a DEF CountsInv, CountsMatch, Tally, Taken, Buffered, Known
<1>4. CASE NothingToTake
  BY <1>4, CountsStay DEF NothingToTake
<1>5. CASE Read
  BY <1>5, CountsStay DEF Read, TypeOK
<1>6. CASE ReadCutOff
  BY <1>6, PutBackCounts DEF ReadCutOff
<1>7. CASE Upload
  BY <1>7, CountsStay DEF Upload, TypeOK
<1>8. CASE UploadFails
  BY <1>8, PutBackCounts DEF UploadFails
<1>9. CASE UpsertLogIndex
  <2>1. flush'.taken = Empty /\ buffer' = buffer /\ written' = written
    BY <1>9, <1>a DEF UpsertLogIndex, Done
  <2> QED
    BY <2>1, <1>a DEF CountsInv, CountsMatch, Tally, Taken, Buffered, Known
<1>10. CASE Stop
  BY <1>10, CountsStay DEF Stop
<1>11. CASE Restart
  <2>1. flush'.taken = Empty /\ buffer' = Empty /\ written' = written
    BY <1>11, <1>a DEF Restart
  <2> QED
    BY <2>1, <1>a DEF CountsInv, CountsMatch, Tally, Taken, Buffered, Known
<1> QED
  BY <1>1, <1>2, <1>3, <1>4, <1>5, <1>6, <1>7, <1>8, <1>9, <1>10, <1>11, Steps

\* The counts of a batch are those of its lines, whatever was put back (Write, flushTask).
THEOREM CountsCorrect == Spec => []CountsMatch
<1>1. Init => CountsInv
  BY CountsInit
<1>2. TypeOK /\ FlushInv /\ CountsInv /\ [Next]_vars => CountsInv'
  BY CountsStep
<1>3. CountsInv => CountsMatch
  BY DEF CountsInv
<1> QED
  BY <1>1, <1>2, <1>3, FlushCorrect, PTL DEF Spec
=============================================================================
