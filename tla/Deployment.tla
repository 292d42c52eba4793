----------------------------- MODULE Deployment ----------------------------
(***************************************************************************)
(* What the components of the system have in common: the tasks, the        *)
(* sessions between master and workers, the size of a worker, and the      *)
(* messages they exchange (proto/worker/v1/worker.proto).                  *)
(***************************************************************************)
EXTENDS Integers, Sequences, FiniteSets

CONSTANTS
  Task,          \* ids of the rows the tasks table has room for: a bound
  Session,       \* session ids, one for each Connect call: a bound
  NoSession,     \* no session
  Concurrency    \* WORKER_CONCURRENCY, the same for every worker

ASSUME DeploymentAssumption ==
  /\ Task \subseteq Nat \ {0}
  /\ NoSession \notin Session
  /\ Concurrency \in Nat \ {0}

TaskState == {"ACCEPTED", "RUNNING", "SUCCEEDED", "FAILED", "CANCELLED",
              "TIMEOUT", "CAPTCHA"}

\* isTerminal: the states that end an assignment.
TerminalState == TaskState \ {"ACCEPTED", "RUNNING"}

ErrorClass == {"", "exit", "deps", "timeout", "captcha", "build_assign"}

MasterMsg == [kind : {"assign", "cancel"}, task : Task]

UpdateMsg == [kind : {"update"}, task : Task, state : TaskState, class : ErrorClass]

BeatMsg == [kind : {"beat"}, free : Int]

WorkerMsg == UpdateMsg \cup BeatMsg

Update(t, st, class) ==
  [kind |-> "update", task |-> t, state |-> st, class |-> class]
=============================================================================
