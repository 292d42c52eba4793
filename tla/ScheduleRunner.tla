--------------------------- MODULE ScheduleRunner --------------------------
(***************************************************************************)
(* Scheduled runs: the schedules table, the API calls that change it       *)
(* (internal/api/schedules, internal/schedule/service.go), and the runner  *)
(* that keeps a cron daemon in step with it (internal/schedule/runner.go). *)
(*                                                                         *)
(* Every call writes its row and then reloads: it lists the enabled rows,  *)
(* builds a fresh cron from them, swaps it in under the mutex, and outside *)
(* the mutex stops the old cron, waits for its jobs, starts the fresh one  *)
(* and writes next_run_at. Run does the same once, without an old cron,    *)
(* and starts what it finds. A job reads its row, queues a task and marks  *)
(* the run.                                                                *)
(*                                                                         *)
(* The cron library is external: a started cron begins a job of any of its *)
(* entries at any moment, Stop ends that at once and lets the jobs finish, *)
(* and stopping a cron that was never started does nothing, so that it can *)
(* be started later.                                                       *)
(***************************************************************************)
EXTENDS Integers, Sequences, FiniteSets

CONSTANTS
  Schedule,    \* ids the schedules table has room for: a bound
  Expr,        \* cron expressions that parse
  NoExpr,      \* next_run_at is NULL
  Caller,      \* API calls that can be in progress at once
  Boot,        \* Runner.Run
  MaxCrons,    \* crons built in one life of the master: a bound
  EarlyCalls,  \* calls may come before Run has started its cron
  Overlap      \* calls may overlap

ASSUME ScheduleAssumption ==
  /\ NoExpr \notin Expr
  /\ Boot \notin Caller /\ IsFiniteSet(Caller)
  /\ MaxCrons \in Nat \ {0}
  /\ EarlyCalls \in BOOLEAN /\ Overlap \in BOOLEAN

VARIABLES
  rows,      \* the table; next stands for next_run_at: the expression it is computed from
  crons,     \* the crons built so far: their entries, and whether they run
  current,   \* Runner.cron, 0 before the first
  pc,        \* where Run and the calls stand
  todo,      \* the rows a reload has listed and is not through with
  held,      \* the crons it works on: held.old, held.fresh (for Run: the one it starts)
  jobs,      \* jobs whose goroutine has not returned
  missed     \* what the latest call failed to do: "list" (no reload), "next"

vars == <<rows, crons, current, pc, todo, held, jobs, missed>>

Reloader == Caller \cup {Boot}

Row == [state : {"on", "off"}, expr : Expr, next : Expr \cup {NoExpr}]

NoRow == [state : {"none", "deleted"}, expr : {NoExpr}, next : {NoExpr}]

Job == [cron : 1 .. MaxCrons, schedule : Schedule, phase : {"get"}, expr : {NoExpr}]
   \cup [cron : 1 .. MaxCrons, schedule : Schedule, phase : {"queue", "mark"}, expr : Expr]

Exists(i) == rows[i].state \in {"on", "off"}

\* What ListEnabled returns: the enabled rows with their expressions.
EnabledRows == {<<i, rows[i].expr>> : i \in {k \in Schedule : rows[k].state = "on"}}

Init ==
  /\ rows \in [Schedule -> [state : {"none"}, expr : {NoExpr}, next : {NoExpr}]
                      \cup [state : {"on"}, expr : Expr, next : {NoExpr}]]
  /\ crons = <<>>
  /\ current = 0
  /\ pc = [p \in Reloader |-> IF p = Boot THEN "list" ELSE "idle"]
  /\ todo = [p \in Reloader |-> {}]
  /\ held = [p \in Reloader |-> [old |-> 0, fresh |-> 0]]
  /\ jobs = {}
  /\ missed = {}

Goto(p, label) == pc' = [pc EXCEPT ![p] = label]

-----------------------------------------------------------------------------
(* The calls: a row is written, and the reload follows. A statement that   *)
(* fails without effect ends the call, which is then no step; one that was *)
(* carried out without an answer ends it before the reload (ListFails).    *)

Reloading == {p \in Reloader : pc[p] \in {"list", "swap", "stop", "wait", "next"}}

\* The bound counts the cron a call is going to build.
MayCall(a) ==
  /\ pc[a] = "idle"
  /\ pc[Boot] # "down"
  /\ Len(crons) + Cardinality(Reloading) < MaxCrons
  /\ EarlyCalls \/ pc[Boot] \in {"up", "stopping"}
  /\ Overlap \/ Reloading \subseteq {Boot}

StateOf(enabled) == IF enabled THEN "on" ELSE "off"

Create(a, i, x, enabled) ==
  /\ MayCall(a)
  /\ rows[i].state = "none"
  /\ rows' = [rows EXCEPT ![i] = [state |-> StateOf(enabled), expr |-> x, next |-> NoExpr]]
  /\ Goto(a, "list")
  /\ UNCHANGED <<crons, current, todo, held, jobs, missed>>

\* Mutant: an update that leaves the enabled flag alone does not reload.
UpdateWithoutReload(a, i, x, enabled) ==
  /\ MayCall(a)
  /\ Exists(i)
  /\ rows' = [rows EXCEPT ![i].state = StateOf(enabled), ![i].expr = x]
  /\ Goto(a, IF rows[i].state = StateOf(enabled) THEN "idle" ELSE "list")
  /\ UNCHANGED <<crons, current, todo, held, jobs, missed>>

Update(a, i, x, enabled) ==
  /\ MayCall(a)
  /\ Exists(i)
  /\ rows' = [rows EXCEPT ![i].state = StateOf(enabled), ![i].expr = x]
  /\ Goto(a, "list")
  /\ UNCHANGED <<crons, current, todo, held, jobs, missed>>

\* A row that is not there is deleted all the same, and the reload follows.
Delete(a, i) ==
  /\ MayCall(a)
  /\ rows' = IF Exists(i)
             THEN [rows EXCEPT ![i] = [state |-> "deleted", expr |-> NoExpr, next |-> NoExpr]]
             ELSE rows
  /\ Goto(a, "list")
  /\ UNCHANGED <<crons, current, todo, held, jobs, missed>>

-----------------------------------------------------------------------------
(* Reload.                                                                 *)

ListEnabled(p) ==
  /\ pc[p] = "list"
  /\ todo' = [todo EXCEPT ![p] = EnabledRows]
  /\ Goto(p, "swap")
  /\ UNCHANGED <<rows, crons, current, held, jobs, missed>>

\* There is no reload: the call returns, and the cron stays as it was. Either the query
\* fails (its context is the request's), or the statement that wrote the row was carried
\* out and its answer was an error, on which the handler returns without calling Reload.
\* For Run a failing query is the end of the process.
ListFails(a) ==
  /\ a \in Caller
  /\ pc[a] = "list"
  /\ missed' = missed \cup {"list"}
  /\ Goto(a, "idle")
  /\ UNCHANGED <<rows, crons, current, todo, held, jobs>>

\* The fresh cron takes the place of the old one, under the mutex.
Swap(p) ==
  /\ pc[p] = "swap"
  /\ crons' = Append(crons, [entries |-> todo[p], running |-> FALSE])
  /\ current' = Len(crons) + 1
  /\ held' = [held EXCEPT ![p] = [old |-> current, fresh |-> Len(crons) + 1]]
  /\ missed' = {}
  /\ Goto(p, IF current = 0 THEN "next" ELSE "stop")
  /\ UNCHANGED <<rows, todo, jobs>>

\* Mutant: the old cron is left to itself.
StopOldForgotten(p) ==
  /\ pc[p] = "stop"
  /\ Goto(p, "wait")
  /\ UNCHANGED <<rows, crons, current, todo, held, jobs, missed>>

\* Mutant: the jobs are waited for first.
StopOldAfterJobs(p) ==
  /\ pc[p] = "stop"
  /\ \A j \in jobs : j.cron # held[p].old
  /\ crons' = [crons EXCEPT ![held[p].old].running = FALSE]
  /\ Goto(p, "wait")
  /\ UNCHANGED <<rows, current, todo, held, jobs, missed>>

StopOld(p) ==
  /\ pc[p] = "stop"
  /\ crons' = [crons EXCEPT ![held[p].old].running = FALSE]
  /\ Goto(p, "wait")
  /\ UNCHANGED <<rows, current, todo, held, jobs, missed>>

\* Mutant: the jobs of the old cron are not waited for.
StartFreshAtOnce(p) ==
  /\ pc[p] = "wait"
  /\ crons' = [crons EXCEPT ![held[p].fresh].running = TRUE]
  /\ Goto(p, "next")
  /\ UNCHANGED <<rows, current, todo, held, jobs, missed>>

\* The jobs of the old cron have returned.
StartFresh(p) ==
  /\ pc[p] = "wait"
  /\ \A j \in jobs : j.cron # held[p].old
  /\ crons' = [crons EXCEPT ![held[p].fresh].running = TRUE]
  /\ Goto(p, "next")
  /\ UNCHANGED <<rows, current, todo, held, jobs, missed>>

Returned(p) == IF p = Boot THEN "grab" ELSE "idle"

\* Mutant: a next_run_at that is there already is kept.
WriteNextIfNull(p) ==
  /\ pc[p] = "next"
  /\ \/ /\ todo[p] = {}
        /\ Goto(p, Returned(p))
        /\ UNCHANGED <<rows, todo>>
     \/ \E e \in todo[p] :
          /\ todo' = [todo EXCEPT ![p] = @ \ {e}]
          /\ rows' = IF Exists(e[1]) /\ rows[e[1]].next = NoExpr
                     THEN [rows EXCEPT ![e[1]].next = e[2]] ELSE rows
          /\ UNCHANGED pc
  /\ UNCHANGED <<crons, current, held, jobs, missed>>

\* UpdateNextRun for one of the listed rows, or for none when all are done; an
\* error is logged and the row skipped.
WriteNext(p) ==
  /\ pc[p] = "next"
  /\ \/ /\ todo[p] = {}
        /\ Goto(p, Returned(p))
        /\ UNCHANGED <<rows, todo, missed>>
     \/ \E e \in todo[p] :
          /\ todo' = [todo EXCEPT ![p] = @ \ {e}]
          /\ \/ /\ rows' = IF Exists(e[1]) THEN [rows EXCEPT ![e[1]].next = e[2]] ELSE rows
                /\ UNCHANGED missed
             \/ /\ p # Boot
                /\ missed' = missed \cup {"next"}
                /\ UNCHANGED rows
          /\ UNCHANGED pc
  /\ UNCHANGED <<crons, current, held, jobs>>

-----------------------------------------------------------------------------
(* Run.                                                                    *)

\* Run reads the cron in use and starts it, in two steps.
BootReads ==
  /\ pc[Boot] = "grab"
  /\ held' = [held EXCEPT ![Boot].fresh = current]
  /\ Goto(Boot, "start")
  /\ UNCHANGED <<rows, crons, current, todo, jobs, missed>>

BootStarts ==
  /\ pc[Boot] = "start"
  /\ crons' = [crons EXCEPT ![held[Boot].fresh].running = TRUE]
  /\ Goto(Boot, "up")
  /\ UNCHANGED <<rows, current, todo, held, jobs, missed>>

\* The shutdown: the cron that Run started is stopped, and its jobs waited for.
BootStops ==
  /\ pc[Boot] = "up"
  /\ crons' = [crons EXCEPT ![held[Boot].fresh].running = FALSE]
  /\ Goto(Boot, "stopping")
  /\ UNCHANGED <<rows, current, todo, held, jobs, missed>>

BootReturns ==
  /\ pc[Boot] = "stopping"
  /\ \A j \in jobs : j.cron # held[Boot].fresh
  /\ Goto(Boot, "down")
  /\ UNCHANGED <<rows, crons, current, todo, held, jobs, missed>>

\* The master ends, orderly or not, and starts again: the table is what is left.
Restart ==
  /\ crons' = <<>>
  /\ current' = 0
  /\ pc' = [p \in Reloader |-> IF p = Boot THEN "list" ELSE "idle"]
  /\ todo' = [p \in Reloader |-> {}]
  /\ held' = [p \in Reloader |-> [old |-> 0, fresh |-> 0]]
  /\ jobs' = {}
  /\ missed' = {}
  /\ UNCHANGED rows

-----------------------------------------------------------------------------
(* fire.                                                                   *)

\* A bound: the jobs of one entry do not overlap (a minute lies between them).
JobStarts(g, i) ==
  /\ crons[g].running
  /\ \E e \in crons[g].entries : e[1] = i
  /\ \A j \in jobs : j.cron = g => j.schedule # i
  /\ jobs' = jobs \cup {[cron |-> g, schedule |-> i, phase |-> "get", expr |-> NoExpr]}
  /\ UNCHANGED <<rows, crons, current, pc, todo, held, missed>>

\* A row that is gone or disabled ends the job, and so does a query that fails.
JobReads(j) ==
  /\ j.phase = "get"
  /\ \/ /\ rows[j.schedule].state = "on"
        /\ jobs' = (jobs \ {j}) \cup
                     {[j EXCEPT !.phase = "queue", !.expr = rows[j.schedule].expr]}
     \/ jobs' = jobs \ {j}
  /\ UNCHANGED <<rows, crons, current, pc, todo, held, missed>>

\* Queue creates the task, or fails (the spider is deleted, say) and ends the job.
JobQueues(j) ==
  /\ j.phase = "queue"
  /\ \/ jobs' = (jobs \ {j}) \cup {[j EXCEPT !.phase = "mark"]}
     \/ jobs' = jobs \ {j}
  /\ UNCHANGED <<rows, crons, current, pc, todo, held, missed>>

\* Mutant: MarkRun writes the row whether it is there or not.
JobMarksAnyway(j) ==
  /\ j.phase = "mark"
  /\ rows' = [rows EXCEPT ![j.schedule].next = j.expr]
  /\ jobs' = jobs \ {j}
  /\ UNCHANGED <<crons, current, pc, todo, held, missed>>

\* MarkRun: next_run_at follows from the expression the job has read; an error is
\* logged.
JobMarks(j) ==
  /\ j.phase = "mark"
  /\ \/ rows' = IF Exists(j.schedule) THEN [rows EXCEPT ![j.schedule].next = j.expr] ELSE rows
     \/ UNCHANGED rows
  /\ jobs' = jobs \ {j}
  /\ UNCHANGED <<crons, current, pc, todo, held, missed>>

-----------------------------------------------------------------------------
Next ==
  \/ \E a \in Caller, i \in Schedule :
       \/ \E x \in Expr, enabled \in BOOLEAN : Create(a, i, x, enabled) \/ Update(a, i, x, enabled)
       \/ Delete(a, i)
  \/ \E p \in Reloader : \/ ListEnabled(p) \/ ListFails(p) \/ Swap(p)
                         \/ StopOld(p) \/ StartFresh(p) \/ WriteNext(p)
  \/ BootReads \/ BootStarts \/ BootStops \/ BootReturns \/ Restart
  \/ \E g \in DOMAIN crons, i \in Schedule : JobStarts(g, i)
  \/ \E j \in jobs : JobReads(j) \/ JobQueues(j) \/ JobMarks(j)

Spec == Init /\ [][Next]_vars

\* Jobs end and reloads go on; nothing obliges a cron to fire or a user to call.
Fairness ==
  /\ \A p \in Reloader :
       WF_vars(ListEnabled(p) \/ ListFails(p) \/ Swap(p) \/ StopOld(p) \/ StartFresh(p)
               \/ WriteNext(p))
  /\ WF_vars(\E j \in jobs : JobReads(j) \/ JobQueues(j) \/ JobMarks(j))

FairSpec == Spec /\ Fairness

-----------------------------------------------------------------------------
TypeOK ==
  /\ rows \in [Schedule -> Row \cup NoRow]
  /\ crons \in Seq([entries : SUBSET (Schedule \X Expr), running : BOOLEAN])
  /\ Len(crons) <= MaxCrons
  /\ current \in 0 .. Len(crons)
  /\ pc \in [Reloader -> {"idle", "list", "swap", "stop", "wait", "next", "grab", "start",
                          "up", "stopping", "down"}]
  /\ todo \in [Reloader -> SUBSET (Schedule \X Expr)]
  /\ held \in [Reloader -> [old : 0 .. MaxCrons, fresh : 0 .. MaxCrons]]
  /\ jobs \subseteq Job
  /\ missed \subseteq {"list", "next"}

\* There are never two crons at work, which would fire each schedule twice (Reload,
\* for calls that do not overlap).
OneCronRuns == Cardinality({g \in DOMAIN crons : crons[g].running}) <= 1

\* The runner is up and no call is in progress.
Quiescent == pc[Boot] = "up" /\ \A a \in Caller : pc[a] = "idle"

\* Once a call has returned, the cron in use runs, and has the enabled rows with
\* the expressions they have now: nothing is fired that is off, and nothing that is
\* on is left out (Reload, unless its query failed or the call did not get to it).
CronMatchesTable ==
  Quiescent /\ "list" \notin missed =>
    /\ crons[current].running
    /\ crons[current].entries = EnabledRows

\* Once a call has returned, no job is about to queue a task, or to mark a run, from
\* what the row said before: Reload has waited for the jobs of the old cron.
JobsAreCurrent ==
  Quiescent /\ "list" \notin missed =>
    \A j \in jobs : j.phase # "get" => /\ rows[j.schedule].state = "on"
                                       /\ rows[j.schedule].expr = j.expr

\* Once a call has returned, next_run_at of an enabled row follows from the
\* expression it has now, whichever of Reload and fire wrote it last.
NextRunIsCurrent ==
  Quiescent /\ missed = {} =>
    \A i \in Schedule : rows[i].state = "on" => rows[i].next = rows[i].expr

\* A call that reloads returns, whatever the jobs of the crons are doing.
CallsReturn == \A a \in Caller : pc[a] # "idle" ~> pc[a] = "idle"

\* runner.go, Reload: "Safe to call at any time - the old cron is stopped and a new one
\* swapped in"; so when the calls have returned there is one cron at work, no matter
\* how they overlapped.
SafeToCallAnyTime == Quiescent => OneCronRuns
=============================================================================
