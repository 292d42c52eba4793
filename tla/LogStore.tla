------------------------------ MODULE LogStore -----------------------------
(***************************************************************************)
(* The log of one task on its way to the object store: the sink's buffer   *)
(* (internal/hub/sinks.go), the object it is appended to by download and   *)
(* upload (internal/storage/minio.go) and the row that counts its lines    *)
(* (internal/repository/artifacts.go). Tasks share the flusher's goroutine *)
(* and nothing else.                                                       *)
(*                                                                         *)
(* A flush takes the buffered lines under the lock and works without it:   *)
(* it reads the object, uploads the longer one, and counts the lines. Any  *)
(* call can fail: a failed read passes for a missing object, a failed      *)
(* upload puts the lines back in front of those written meanwhile, and may *)
(* have been stored all the same; a failed count is ignored. At the        *)
(* shutdown the flush under way is cut off and a last one follows, while   *)
(* the workers' streams go on for a while. A line is the number of its     *)
(* write.                                                                  *)
(***************************************************************************)
EXTENDS Integers, Sequences, FiniteSets, Functions

CONSTANTS
  Level,       \* the levels a line can have
  NoLevel,     \* a line without one
  MaxLines,    \* lines written: a bound
  MaxFaults    \* calls that fail although nothing cut them off: a bound

ASSUME LogAssumption ==
  /\ NoLevel \notin Level
  /\ MaxLines \in Nat \ {0}
  /\ MaxFaults \in Nat

VARIABLES
  written,   \* the levels of the lines written so far
  buffer,    \* logBuffer: the lines not taken yet, and how many of each level
  flush,     \* flushTask: what it has taken, what it has read, and whether it is the last
  object,    \* the object's lines; <<>> when there is none
  index,     \* the row of task_log_index: line_count and level_counts
  run,       \* LogSink.Run: "up", "ending" (context cancelled), "over" (returned)
  faults,    \* calls that have failed on their own
  fate       \* history: the lines lost with the memory, those overwritten by an upload,
             \* those written before the shutdown began, and whether its last flush failed

vars == <<written, buffer, flush, object, index, run, faults, fate>>

Line == 1 .. MaxLines

NoCounts == [l \in Level |-> 0]

Empty == [lines |-> <<>>, counts |-> NoCounts]

Idle == [pc |-> "idle", last |-> FALSE, base |-> <<>>, taken |-> Empty]

Known == 1 .. Len(written)

Init ==
  /\ written = <<>>
  /\ buffer = Empty
  /\ flush = Idle
  /\ object = <<>>
  /\ index = [lines |-> 0, counts |-> NoCounts]
  /\ run = "up"
  /\ faults = 0
  /\ fate = [crashed |-> {}, overwritten |-> {}, early |-> {}, lastFailed |-> FALSE]

Plus(c, d) == [l \in Level |-> c[l] + d[l]]

-----------------------------------------------------------------------------
(* Write.                                                                  *)

\* Mutant: a line without a level is counted too.
CountedAnyhow(c, l) == [k \in Level \cup {l} |-> IF k = l THEN 1 ELSE c[k]]

CountedIn(c, l) == IF l \in Level THEN [c EXCEPT ![l] = @ + 1] ELSE c

Write(l) ==
  /\ Len(written) < MaxLines
  /\ written' = Append(written, l)
  /\ buffer' = [lines |-> Append(buffer.lines, Len(written) + 1),
                counts |-> CountedIn(buffer.counts, l)]
  /\ UNCHANGED <<flush, object, index, run, faults, fate>>

-----------------------------------------------------------------------------
(* flushTask.                                                              *)

\* The context of the flush under way is cancelled.
CutOff == run = "ending" /\ ~flush.last

\* Mutant: small batches wait for more.
WorthTaking == Len(buffer.lines) > 1

AnyToTake == buffer.lines # <<>>

\* The lines are taken under the lock, by a tick or by the last flush of the
\* shutdown. (A tick that comes with the cancellation puts back what it takes.)
Take(last) ==
  /\ flush.pc = "idle"
  /\ AnyToTake
  /\ run = (IF last THEN "ending" ELSE "up")
  /\ flush' = [pc |-> "read", last |-> last, base |-> <<>>, taken |-> buffer]
  /\ buffer' = Empty
  /\ UNCHANGED <<written, object, index, run, faults, fate>>

\* Mutant: Run returns without a last flush.
NothingIsTaken ==
  /\ flush.pc = "idle" /\ run = "ending"
  /\ run' = "over"
  /\ UNCHANGED <<written, buffer, flush, object, index, faults, fate>>

\* Nothing is left to flush at the end.
NothingToTake ==
  /\ flush.pc = "idle" /\ run = "ending"
  /\ ~AnyToTake
  /\ run' = "over"
  /\ UNCHANGED <<written, buffer, flush, object, index, faults, fate>>

\* tryDownload: what the object has, or nothing when a call fails.
Read ==
  /\ flush.pc = "read" /\ ~CutOff
  /\ \/ /\ flush' = [flush EXCEPT !.pc = "upload", !.base = object]
        /\ UNCHANGED faults
     \/ /\ faults < MaxFaults
        /\ flush' = [flush EXCEPT !.pc = "upload", !.base = <<>>]
        /\ faults' = faults + 1
  /\ UNCHANGED <<written, buffer, object, index, run, fate>>

\* The flush is done; after the last one Run returns.
Done ==
  /\ flush' = Idle
  /\ run' = IF flush.last THEN "over" ELSE run

Appended == flush.base \o flush.taken.lines

Stores ==
  /\ object' = Appended
  /\ fate' = [fate EXCEPT !.overwritten = @ \cup (Range(object) \ Range(Appended))]

\* The upload succeeds.
Upload ==
  /\ flush.pc = "upload" /\ ~CutOff
  /\ Stores
  /\ flush' = [flush EXCEPT !.pc = "index"]
  /\ UNCHANGED <<written, buffer, index, run, faults>>

\* Mutant: the lines go back behind the others.
PutBackBehind ==
  /\ buffer' = [lines |-> buffer.lines \o flush.taken.lines,
                counts |-> Plus(buffer.counts, flush.taken.counts)]
  /\ Done

\* Mutant: only the lines go back.
PutBackLines ==
  /\ buffer' = [buffer EXCEPT !.lines = flush.taken.lines \o @]
  /\ Done

\* The lines go back in front of those written since, and their counts with them.
PutBack ==
  /\ buffer' = [lines |-> flush.taken.lines \o buffer.lines,
                counts |-> Plus(buffer.counts, flush.taken.counts)]
  /\ Done

\* The row after an UpsertLogIndex: line_count is added to, level_counts is merged, where
\* the latest count of a level replaces the one before.
Counted ==
  [lines |-> index.lines + Len(flush.taken.lines),
   counts |-> [l \in Level |-> IF flush.taken.counts[l] > 0 THEN flush.taken.counts[l]
                               ELSE index.counts[l]]]

\* The upload fails, on its own or cut off; the store may have the object all the same.
UploadFails ==
  /\ flush.pc = "upload"
  /\ \/ CutOff /\ UNCHANGED faults
     \/ ~CutOff /\ faults < MaxFaults /\ faults' = faults + 1
  /\ PutBack
  /\ LET known == [fate EXCEPT !.lastFailed = flush.last]
     IN \/ UNCHANGED object /\ fate' = known
        \/ /\ object' = Appended
           /\ fate' = [known EXCEPT !.overwritten = @ \cup (Range(object) \ Range(Appended))]
  /\ UNCHANGED <<written, index>>

\* Cut off before the upload: it fails like the read before it.
ReadCutOff ==
  /\ flush.pc = "read" /\ CutOff
  /\ PutBack
  /\ UNCHANGED <<written, object, index, faults, fate>>

\* UpsertLogIndex; an error is ignored.
UpsertLogIndex ==
  /\ flush.pc = "index"
  /\ \/ ~CutOff /\ index' = Counted /\ UNCHANGED faults
     \/ CutOff /\ UNCHANGED <<index, faults>>
     \/ ~CutOff /\ faults < MaxFaults /\ faults' = faults + 1 /\ UNCHANGED index
  /\ Done
  /\ UNCHANGED <<written, buffer, object, fate>>

-----------------------------------------------------------------------------
(* The life of the master.                                                 *)

Stop ==
  /\ run = "up"
  /\ run' = "ending"
  /\ fate' = [fate EXCEPT !.early = Known]
  /\ UNCHANGED <<written, buffer, flush, object, index, faults>>

\* The process ends, after a shutdown or at any moment, and starts again. An upload
\* it leaves behind may still be stored.
Restart ==
  /\ \/ UNCHANGED object /\ fate' = [fate EXCEPT
          !.crashed = @ \cup (Range(buffer.lines \o flush.taken.lines) \ Range(object)),
          !.early = {}, !.lastFailed = FALSE]
     \/ /\ flush.pc = "upload"
        /\ object' = Appended
        /\ fate' = [fate EXCEPT
             !.crashed = @ \cup (Range(buffer.lines) \ Range(Appended)),
             !.overwritten = @ \cup (Range(object) \ Range(Appended)),
             !.early = {}, !.lastFailed = FALSE]
  /\ buffer' = Empty
  /\ flush' = Idle
  /\ run' = "up"
  /\ UNCHANGED <<written, index, faults>>

-----------------------------------------------------------------------------
FlushStep ==
  \/ \E last \in BOOLEAN : Take(last)
  \/ NothingToTake \/ Read \/ ReadCutOff \/ Upload \/ UploadFails \/ UpsertLogIndex

Next ==
  \/ \E l \in Level \cup {NoLevel} : Write(l)
  \/ FlushStep \/ Stop \/ Restart

Spec == Init /\ [][Next]_vars

\* The ticker, the calls of a flush, and the end of a process whose Run has returned (the
\* servers are given 15 s); nothing obliges a line, a shutdown or a crash.
FairSpec == Spec /\ WF_vars(FlushStep) /\ WF_vars(run = "over" /\ Restart)

-----------------------------------------------------------------------------
Batch == [lines : Seq(Line), counts : [Level -> Nat]]

TypeOK ==
  /\ written \in Seq(Level \cup {NoLevel}) /\ Len(written) <= MaxLines
  /\ buffer \in Batch
  /\ flush \in [pc : {"idle", "read", "upload", "index"}, last : BOOLEAN,
                base : Seq(Line), taken : Batch]
  /\ object \in Seq(Line)
  /\ index \in [lines : Nat, counts : [Level -> Nat]]
  /\ run \in {"up", "ending", "over"}
  /\ faults \in 0 .. MaxFaults
  /\ fate \in [crashed : SUBSET Line, overwritten : SUBSET Line, early : SUBSET Line,
               lastFailed : BOOLEAN]

Gone == fate.crashed \cup fate.overwritten

\* The lines on their way to the object, in that order.
OnTheWay == IF flush.pc = "index" THEN buffer.lines ELSE flush.taken.lines \o buffer.lines

Promise == INSTANCE LogPromise WITH
  accepted <- Len(written),
  promised <- OnTheWay,
  stored <- object,
  due <- IF flush.pc = "index" THEN Len(flush.taken.lines) ELSE 0,
  counted <- index.lines

\* Whatever fails, is put back or comes while a flush works without the lock, each line
\* written is stored behind those written before it, and once if its upload is known to have
\* succeeded; the row counts what is in the object; and only a crash, or an upload after a
\* read that failed, loses lines (Write, flushTask, AppendJSONL: the log store implements
\* LogPromise).
PromiseKept == Promise!Spec

Tally(s) == [l \in Level |-> Cardinality({n \in Range(s) : written[n] = l})]

\* The counts of a batch are those of its lines, after writes, failures and lines put
\* back in any order (Write, flushTask).
CountsMatch ==
  /\ buffer.counts = Tally(buffer.lines)
  /\ flush.taken.counts = Tally(flush.taken.lines)

\* When Run has returned, the lines written before the shutdown began are in the object,
\* unless its last flush failed, or they were lost before (Run).
StopFlushes ==
  run = "over" /\ ~fate.lastFailed => fate.early \subseteq Range(object) \cup Gone

\* A line that was written gets into the object, or is lost with the process or
\* overwritten (Run's ticker).
EventuallyStored ==
  \A n \in Line : n \in Known ~> n \in Range(object) \cup Gone

\* minio.go, tryDownload: "Other errors (network, auth) are swallowed - the caller will hit
\* the same error on the subsequent Upload"; so no upload takes stored lines away.
NothingOverwritten == fate.overwritten = {}
=============================================================================
