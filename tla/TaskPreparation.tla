--------------------------- MODULE TaskPreparation --------------------------
(***************************************************************************)
(* What an execution does before its spider starts (internal/runner/       *)
(* executor.go, prepareDir and resolveInterpreter): it downloads the       *)
(* archive its assignment names and looks for a virtual environment with   *)
(* the requirements it finds there. The environments are directories on a  *)
(* volume that outlives the worker's process and that all workers of the   *)
(* production deployment share, one for each hash of requirements. Within  *)
(* a process a lock per hash lets one execution build at a time; nothing   *)
(* keeps two processes apart. An environment that has a python is taken as *)
(* ready.                                                                  *)
(*                                                                         *)
(* The uv command is external: "uv venv" leaves an environment without     *)
(* packages, whatever there was, "uv pip install" completes it, and either *)
(* can fail, which is also what a cancellation makes of it. The removal of *)
(* what failed may fail too, which goes unnoticed.                         *)
(***************************************************************************)
EXTENDS Integers

CONSTANTS
  Exec,       \* executions: a bound
  Worker,     \* the processes that share the environments
  NoWorker,   \* where there is none
  Req,        \* hashes of requirements
  NoReq,      \* sources without a requirements.txt
  NoSource,   \* no archive downloaded yet
  Source,     \* what an archive can hold
  ReqOf,      \* its requirements
  MaxCrashes  \* crashes of workers: a bound

ASSUME PreparationAssumption ==
  /\ ReqOf \in [Source -> Req \cup {NoReq}]
  /\ NoReq \notin Req /\ NoSource \notin Source /\ NoWorker \notin Worker
  /\ MaxCrashes \in Nat

VARIABLES
  exec,    \* each execution: where it is, its worker, its source_key until it has used it,
           \* the sources it downloaded, the interpreter it got, and (history) the commit on record at its
           \* assignment
  venv,    \* each environment: "none", "bare" (a python, packages missing) or "full"
  lock,    \* venvLocks: the executions that hold the lock of a hash, one of each worker
  uv,      \* uv is installed
  crashes, \* the workers' crashes so far
  spoilt   \* history: environments that one worker built while another had them locked, or
           \* that a crash or a failed removal has left half built

prepVars == <<exec, venv, lock, uv, crashes, spoilt>>

Idle(e) == exec[e].pc = "idle"

NoExec == [pc |-> "idle", worker |-> NoWorker, key |-> 0, source |-> NoSource,
           python |-> "none", meant |-> NoSource]

PreparationInit ==
  /\ exec = [e \in Exec |-> NoExec]
  /\ venv = [r \in Req |-> "none"]
  /\ lock = [r \in Req |-> {}]
  /\ uv \in BOOLEAN
  /\ crashes = 0
  /\ spoilt = {}

ReqsOf(e) == IF exec[e].source = NoSource THEN NoReq ELSE ReqOf[exec[e].source]

\* The assignment arrives at worker w.
Start(e, w, key, meant) ==
  /\ Idle(e)
  /\ exec' = [exec EXCEPT ![e] = [NoExec EXCEPT !.pc = "prepare", !.worker = w,
                                               !.key = key, !.meant = meant]]
  /\ UNCHANGED <<venv, lock, uv, crashes, spoilt>>

\* prepareDir, when the store has s under the key.
PrepareDir(e, s) ==
  /\ exec[e].pc = "prepare"
  /\ s \in Source
  /\ exec' = [exec EXCEPT ![e].pc = "resolve", ![e].source = s, ![e].key = 0]
  /\ UNCHANGED <<venv, lock, uv, crashes, spoilt>>

\* The execution reports FAILED, class "prepare".
PrepareFails(e) ==
  /\ exec[e].pc = "prepare"
  /\ exec' = [exec EXCEPT ![e] = NoExec]
  /\ UNCHANGED <<venv, lock, uv, crashes, spoilt>>

-----------------------------------------------------------------------------
(* resolveInterpreter.                                                     *)

\* No requirements, or no uv (with a warning in the log): the system's interpreter.
SystemPython(e) ==
  /\ exec[e].pc = "resolve"
  /\ ReqsOf(e) = NoReq \/ ~uv
  /\ exec' = [exec EXCEPT ![e].pc = "run", ![e].python = "system"]
  /\ UNCHANGED <<venv, lock, uv, crashes, spoilt>>

\* Executions on other workers that hold the lock of e's requirements.
Elsewhere(e) == {f \in lock[ReqsOf(e)] : exec[f].worker # exec[e].worker}

Spoils(e, condition) == spoilt' = IF condition THEN spoilt \cup {ReqsOf(e)} ELSE spoilt

TakesLock(e) ==
  /\ lock' = [lock EXCEPT ![ReqsOf(e)] = @ \cup {e}]
  /\ exec' = [exec EXCEPT ![e].pc = "locked"]
  /\ Spoils(e, \E f \in Elsewhere(e) : exec[f].pc # "locked")
  /\ UNCHANGED <<venv, uv, crashes>>

\* Mutant: nobody waits for the lock.
LockShared(e) ==
  /\ exec[e].pc = "resolve"
  /\ ReqsOf(e) # NoReq /\ uv
  /\ TakesLock(e)

\* The lock is the process's: a holder in another one does not count.
Lock(e) ==
  /\ exec[e].pc = "resolve"
  /\ ReqsOf(e) # NoReq /\ uv
  /\ lock[ReqsOf(e)] = Elsewhere(e)
  /\ TakesLock(e)

\* The deferred unlock, on every way out.
Unlock(e) == lock' = [lock EXCEPT ![ReqsOf(e)] = @ \ {e}]

Runs(e) ==
  /\ exec' = [exec EXCEPT ![e].pc = "run", ![e].python = "venv"]
  /\ Unlock(e)

CacheHit(e) ==
  /\ exec[e].pc = "locked"
  /\ venv[ReqsOf(e)] # "none"
  /\ Runs(e)
  /\ UNCHANGED <<venv, uv, crashes, spoilt>>

CacheMiss(e) ==
  /\ exec[e].pc = "locked"
  /\ venv[ReqsOf(e)] = "none"
  /\ exec' = [exec EXCEPT ![e].pc = "venv"]
  /\ Spoils(e, Elsewhere(e) # {})
  /\ UNCHANGED <<venv, lock, uv, crashes>>

UvVenv(e) ==
  /\ exec[e].pc = "venv"
  /\ venv' = [venv EXCEPT ![ReqsOf(e)] = "bare"]
  /\ exec' = [exec EXCEPT ![e].pc = "install"]
  /\ UNCHANGED <<lock, uv, crashes, spoilt>>

UvPipInstall(e) ==
  /\ exec[e].pc = "install"
  /\ venv' = [venv EXCEPT ![ReqsOf(e)] = "full"]
  /\ Runs(e)
  /\ UNCHANGED <<uv, crashes, spoilt>>

\* A command fails, or leaves no python behind: the directory is removed and the execution
\* reports FAILED, class "deps". RemoveAll may fail, or give up half way.
UvFails(e) ==
  /\ exec[e].pc \in {"venv", "install"}
  /\ \E left \in {"none", "bare", venv[ReqsOf(e)]} :
       /\ venv' = [venv EXCEPT ![ReqsOf(e)] = left]
       /\ Spoils(e, left # "none")
  /\ exec' = [exec EXCEPT ![e] = NoExec]
  /\ Unlock(e)
  /\ UNCHANGED <<uv, crashes>>

\* The spider has run.
Ends(e) ==
  /\ exec[e].pc = "run"
  /\ exec' = [exec EXCEPT ![e] = NoExec]
  /\ UNCHANGED <<venv, lock, uv, crashes, spoilt>>

\* Worker w's process dies and starts again; a "uv venv" may have come as far as the python.
WorkerCrashes(w) ==
  /\ crashes < MaxCrashes
  /\ crashes' = crashes + 1
  /\ \E H \in SUBSET {e \in Exec : exec[e].worker = w /\ exec[e].pc = "venv"} :
       LET Left == {ReqsOf(e) : e \in H} IN
       /\ venv' = [r \in Req |-> IF r \in Left THEN "bare" ELSE venv[r]]
       /\ spoilt' = spoilt \cup Left
            \cup {ReqsOf(e) : e \in {f \in Exec : exec[f].worker = w /\ exec[f].pc = "install"}}
  /\ exec' = [e \in Exec |-> IF exec[e].worker = w THEN NoExec ELSE exec[e]]
  /\ lock' = [r \in Req |-> {e \in lock[r] : exec[e].worker # w}]
  /\ UNCHANGED uv

-----------------------------------------------------------------------------
Resolve(e) ==
  \/ SystemPython(e) \/ Lock(e) \/ CacheHit(e) \/ CacheMiss(e)
  \/ UvVenv(e) \/ UvPipInstall(e) \/ UvFails(e)

PreparationTypeOK ==
  /\ exec \in [Exec -> [pc : {"idle", "prepare", "resolve", "locked", "venv", "install", "run"},
                        worker : Worker \cup {NoWorker}, key : Nat,
                        source : Source \cup {NoSource},
                        python : {"none", "system", "venv"}, meant : Source \cup {NoSource}]]
  /\ venv \in [Req -> {"none", "bare", "full"}]
  /\ lock \in [Req -> SUBSET Exec]
  /\ uv \in BOOLEAN
  /\ crashes \in 0 .. MaxCrashes
  /\ spoilt \subseteq Req

InVenv(e) == exec[e].pc = "run" /\ exec[e].python = "venv"

\* A spider runs in an environment that has all its packages, however executions of the
\* same requirements, on any worker, wait for, build, lose and reuse it - unless one worker
\* built it while another had it locked, or it was left half built by a crash or by a
\* removal that failed (resolveInterpreter: installs are serialized within a process only,
\* and the error of RemoveAll is ignored).
RunsWithItsDeps ==
  \A e \in Exec : InVenv(e) /\ ReqsOf(e) \notin spoilt => venv[ReqsOf(e)] = "full"
=============================================================================
