---------------------------- MODULE TaskService ----------------------------
(***************************************************************************)
(* The task service (internal/task/service.go) over its table              *)
(* (internal/repository/tasks.go): rows are created queued, SetStatus      *)
(* overwrites whatever status a row has, the dispatch loop walks a         *)
(* snapshot of the queued rows, a failed row may get one more attempt as a *)
(* child row, and Cancel writes the row first and looks for the worker     *)
(* afterwards.                                                             *)
(*                                                                         *)
(* There is one spider: its retry policy is the constant Policy0, and it   *)
(* may be deleted. A row's queued_at order is the order of the ids.        *)
(***************************************************************************)
EXTENDS Deployment, RetryPolicy

CONSTANT Policy0   \* PolicyFromSpiderConfig of the spider's config

ASSUME ServiceAssumption == Policy0 \in Policy

VARIABLES
  status,     \* tasks.status; "none" is a row that does not exist yet
  attempt,    \* tasks.attempt
  parent,     \* tasks.parent_task_id, 0 for none
  ready,      \* tasks.not_before has passed
  spiderUp,   \* the spider is not soft-deleted
  scan,       \* rows of the dispatcher's snapshot it has not come to
  wakeup,     \* the one-place wakeup channel is full
  canceller   \* the Cancel call in progress

rowVars == <<status, attempt, parent, ready>>
serviceVars == <<rowVars, spiderUp, scan, wakeup, canceller>>

Status == {"queued", "running", "succeeded", "failed", "cancelled", "timeout",
           "captcha_blocked"}

\* isTerminalStatus
TerminalStatus == Status \ {"queued", "running"}

NoCancel == [pc |-> "idle", task |-> 0, session |-> NoSession]

ServiceInit ==
  /\ status = [t \in Task |-> "none"]
  /\ attempt = [t \in Task |-> 0]
  /\ parent = [t \in Task |-> 0]
  /\ ready = [t \in Task |-> FALSE]
  /\ spiderUp = TRUE
  /\ scan = {}
  /\ wakeup = FALSE
  /\ canceller = NoCancel

-----------------------------------------------------------------------------
(* The rows.                                                               *)

\* SetStatus: unconditional, whatever the row says now.
SetStatus(t, st) == status' = [status EXCEPT ![t] = st]

\* The id the next insert gets, if there is room for one more row.
IsNext(t) == /\ t \in Task
             /\ status[t] = "none"
             /\ \A u \in Task : u < t => status[u] # "none"

Insert(t, p, n, due) ==
  /\ status' = [status EXCEPT ![t] = "queued"]
  /\ attempt' = [attempt EXCEPT ![t] = n]
  /\ parent' = [parent EXCEPT ![t] = p]
  /\ ready' = [ready EXCEPT ![t] = due]

\* Queue, from the API or a schedule.
Queue(t) ==
  /\ spiderUp
  /\ IsNext(t)
  /\ Insert(t, 0, 1, TRUE)
  /\ wakeup' = TRUE
  /\ UNCHANGED <<spiderUp, scan, canceller>>

\* A child row's not_before passes.
BecomeReady(t) ==
  /\ status[t] # "none"
  /\ ~ready[t]
  /\ ready' = [ready EXCEPT ![t] = TRUE]
  /\ UNCHANGED <<status, attempt, parent, spiderUp, scan, wakeup, canceller>>

\* The spider is soft-deleted: every later lookup of it fails.
DeleteSpider ==
  /\ spiderUp
  /\ spiderUp' = FALSE
  /\ UNCHANGED <<rowVars, scan, wakeup, canceller>>

-----------------------------------------------------------------------------
(* OnUpdate.                                                               *)

PersistUpdate(t, st) ==
  /\ SetStatus(t, st)
  /\ UNCHANGED <<attempt, parent, ready, spiderUp, scan, wakeup, canceller>>

\* Mutant: the failed row itself is queued again.
ScheduleRetryInPlace(t, class) ==
  IF spiderUp /\ ShouldRetry(Policy0, attempt[t], class)
  THEN /\ SetStatus(t, "queued")
       /\ attempt' = [attempt EXCEPT ![t] = @ + 1]
       /\ wakeup' = TRUE
       /\ UNCHANGED <<parent, ready, spiderUp, scan, canceller>>
  ELSE UNCHANGED serviceVars

\* The row that a retry of t becomes: a set of one, or none if the spider is gone, the
\* policy says no, or there is no room for one more row.
RetryRow(t, class) ==
  {c \in Task : IsNext(c) /\ spiderUp /\ ShouldRetry(Policy0, attempt[t], class)}

\* maybeScheduleRetry: a child row one attempt later, due after the backoff.
\* Without room for a row the insert fails, which is logged and forgotten.
ScheduleRetry(t, class) ==
  IF RetryRow(t, class) = {} THEN UNCHANGED serviceVars
  ELSE /\ \E c \in RetryRow(t, class) : Insert(c, t, attempt[t] + 1, FALSE)
       /\ wakeup' = TRUE
       /\ UNCHANGED <<spiderUp, scan, canceller>>

\* The same when one of its statements fails: the insert may have been made all the
\* same, and nobody is woken.
ScheduleRetryFails(t, class) ==
  \/ UNCHANGED serviceVars
  \/ /\ \E c \in RetryRow(t, class) : Insert(c, t, attempt[t] + 1, FALSE)
     /\ UNCHANGED <<spiderUp, scan, wakeup, canceller>>

-----------------------------------------------------------------------------
(* RunDispatcher and dispatchOnce.                                         *)

\* The loop wakes, on a wakeup or on the tick, and reads the queued rows that are
\* due. (A tick that leaves a pending wakeup alone only adds one more round.)
ListQueued ==
  /\ scan = {}
  /\ wakeup' = FALSE
  /\ scan' = {t \in Task : status[t] = "queued" /\ ready[t]}
  /\ UNCHANGED <<rowVars, spiderUp, canceller>>

\* The row the loop has come to: the oldest left in its snapshot.
AtRow(t) == t \in scan /\ \A u \in scan : t <= u

\* buildAssign fails: the row, whatever became of it since, is marked failed, unless
\* that fails too, and put to the retry policy; C is the row it becomes, if any.
BuildAssignFails(t, marked, C) ==
  /\ AtRow(t)
  /\ C \in {{}, RetryRow(t, "build_assign")}
  /\ status' = [u \in Task |-> IF u \in C THEN "queued"
                               ELSE IF u = t /\ marked THEN "failed" ELSE status[u]]
  /\ attempt' = [u \in Task |-> IF u \in C THEN attempt[t] + 1 ELSE attempt[u]]
  /\ parent' = [u \in Task |-> IF u \in C THEN t ELSE parent[u]]
  /\ ready' = [u \in Task |-> u \notin C /\ ready[u]]
  /\ wakeup' = (wakeup \/ C # {})
  /\ scan' = scan \ {t}
  /\ UNCHANGED <<spiderUp, canceller>>

\* buildAssign succeeds and the hub takes the task; the row is left as it is.
Dispatched(t) ==
  /\ AtRow(t)
  /\ spiderUp
  /\ scan' = scan \ {t}
  /\ UNCHANGED <<rowVars, spiderUp, wakeup, canceller>>

\* No worker has capacity: the rest of the snapshot is dropped.
Refused ==
  /\ \E t \in Task : AtRow(t)
  /\ spiderUp
  /\ scan' = {}
  /\ UNCHANGED <<rowVars, spiderUp, wakeup, canceller>>

-----------------------------------------------------------------------------
(* Cancel: the row first, then the worker that runs it, if any.            *)

CancelRow(t) ==
  /\ canceller.pc = "idle"
  /\ status[t] # "none"
  /\ SetStatus(t, "cancelled")
  /\ canceller' = [pc |-> "lookup", task |-> t, session |-> NoSession]
  /\ UNCHANGED <<attempt, parent, ready, spiderUp, scan, wakeup>>

\* CancelRunning found session s for the task, or none.
CancelLookedUp(s) ==
  /\ canceller.pc = "lookup"
  /\ canceller' = IF s = NoSession THEN NoCancel
                  ELSE [canceller EXCEPT !.pc = "send", !.session = s]
  /\ UNCHANGED <<rowVars, spiderUp, scan, wakeup>>

CancelDone ==
  /\ canceller.pc = "send"
  /\ canceller' = NoCancel
  /\ UNCHANGED <<rowVars, spiderUp, scan, wakeup>>

\* The master process ends: the table stays, the loop and the calls are gone.
ServiceCrash ==
  /\ scan' = {}
  /\ wakeup' = FALSE
  /\ canceller' = NoCancel
  /\ UNCHANGED <<rowVars, spiderUp>>

-----------------------------------------------------------------------------
(* The service on its own: any update of a row there is, any answer of the *)
(* hub.                                                                    *)

ServiceNext ==
  \/ DeleteSpider \/ ListQueued \/ Refused \/ CancelDone \/ ServiceCrash
  \/ \E s \in Session \cup {NoSession} : CancelLookedUp(s)
  \/ \E t \in Task :
       \/ Queue(t) \/ BecomeReady(t) \/ CancelRow(t)
       \/ Dispatched(t)
       \/ \E marked \in BOOLEAN, C \in SUBSET Task : BuildAssignFails(t, marked, C)
       \/ /\ status[t] # "none"
          /\ \/ \E st \in Status \ {"queued"} : PersistUpdate(t, st)
             \/ \E class \in ErrorClass : ScheduleRetry(t, class) \/ ScheduleRetryFails(t, class)

ServiceSpec == ServiceInit /\ [][ServiceNext]_serviceVars

ServiceTypeOK ==
  /\ status \in [Task -> Status \cup {"none"}]
  /\ attempt \in [Task -> Nat]
  /\ parent \in [Task -> Task \cup {0}]
  /\ ready \in [Task -> BOOLEAN]
  /\ spiderUp \in BOOLEAN
  /\ scan \subseteq Task
  /\ wakeup \in BOOLEAN
  /\ canceller \in [pc : {"idle", "lookup", "send"}, task : Task \cup {0},
                    session : Session \cup {NoSession}]

\* The numbers on the rows of a chain: each child is one attempt after its parent, and no
\* row's attempt exceeds max_attempts (the strengthening behind the proofs about rows; how
\* many children a row has is RetriesEarned in TaskControl).
ChainsBounded ==
  \A t \in Task : status[t] # "none" =>
    /\ attempt[t] \in 1 .. Policy0.maxAttempts
    /\ parent[t] = 0 => attempt[t] = 1
    /\ parent[t] # 0 => /\ parent[t] < t
                        /\ status[parent[t]] # "none"
                        /\ attempt[t] = attempt[parent[t]] + 1
=============================================================================
