----------------------- MODULE ScheduleRunner_proofs -----------------------
(***************************************************************************)
(* What the schedules' runner keeps true: proofs about Spec of             *)
(* ScheduleRunner. The types hold for any calls. The rest is about calls   *)
(* that come once Run has started its cron and that do not overlap: what   *)
(* overlapping ones do to the crons is what the run of SafeToCallAnyTime   *)
(* shows.                                                                  *)
(***************************************************************************)
EXTENDS ScheduleRunner, FiniteSetTheorems, SequenceTheorems, TLAPS

Cron == [entries : SUBSET (Schedule \X Expr), running : BOOLEAN]

\* Those that have still to swap in the cron they are building.
Building == {p \in Reloader : pc[p] \in {"list", "swap"}}

\* A cron that is going to be built has its place.
RoomForCrons == Len(crons) + Cardinality(Building) <= MaxCrons

Typed == TypeOK /\ RoomForCrons

-----------------------------------------------------------------------------
(* The state of a runner whose calls come one by one.                      *)

\* Run has not started its cron yet.
Starting == pc[Boot] \in {"list", "swap", "next", "grab", "start"}

\* At most one call is in progress, and none before Run is up.
OneCall ==
  /\ \A a, b \in Caller : pc[a] # "idle" /\ pc[b] # "idle" => a = b
  /\ \A a \in Caller : /\ pc[a] \in {"idle", "list", "swap", "stop", "wait", "next"}
                       /\ pc[a] # "idle" => ~Starting
  /\ pc[Boot] \notin {"idle", "stop", "wait"}

\* The cron in use is the one built last; while a call replaces a cron, it is the fresh one.
CurrentIsLatest ==
  /\ current = Len(crons)
  /\ current = 0 <=> pc[Boot] \in {"list", "swap"}
  /\ pc[Boot] = "start" => held[Boot].fresh = current
  /\ \A a \in Caller : pc[a] \in {"stop", "wait"} => held[a].fresh = current
  /\ Starting => jobs = {} /\ missed = {}

\* Which cron may be at work.
AtWork(g) ==
  /\ ~Starting
  /\ \A a \in Caller : pc[a] # "wait" /\ (pc[a] = "stop" => g = held[a].old)
  /\ (\A a \in Caller : pc[a] # "stop") => g = current

\* Which cron a job can be of.
JobOf(g) ==
  /\ \A a \in Caller : pc[a] \in {"stop", "wait"} => g = held[a].old
  /\ (\A a \in Caller : pc[a] \notin {"stop", "wait"}) => g = current

OneAtWork ==
  /\ \A g \in DOMAIN crons : crons[g].running => AtWork(g)
  /\ \A j \in jobs : JobOf(j.cron)

\* No call stands between the write of its row and the swap, and none has given up there.
Loaded ==
  /\ pc[Boot] \notin {"list", "swap"} /\ "list" \notin missed
  /\ \A a \in Caller : pc[a] \in {"idle", "stop", "wait", "next"}

\* Nor does one stand between the swap and the start of the fresh cron.
Settled == Loaded /\ \A a \in Caller : pc[a] \in {"idle", "next"}

\* What has been listed is what the table says, and so is what the cron in use was built from.
ListedIsTable ==
  /\ \A p \in Reloader : /\ pc[p] \in {"swap", "stop", "wait"} => todo[p] = EnabledRows
                         /\ pc[p] = "next" => todo[p] \subseteq EnabledRows
  /\ \A a \in Caller : pc[a] \in {"stop", "wait", "next"} => "list" \notin missed
  /\ Loaded => crons[current].entries = EnabledRows
  /\ Settled /\ pc[Boot] = "up" => crons[current].running

\* A job that has read its row since the fresh cron started has read what the row says.
JobsRead ==
  Settled => \A j \in jobs : j.phase # "get" => /\ rows[j.schedule].state = "on"
                                                /\ rows[j.schedule].expr = j.expr

\* An enabled row whose next_run_at is not that of its expression has still to be written.
NextWritten ==
  Settled /\ "next" \notin missed =>
    \A i \in Schedule : rows[i].state = "on" =>
      \/ rows[i].next = rows[i].expr
      \/ \E p \in Reloader : pc[p] = "next" /\ <<i, rows[i].expr>> \in todo[p]

RunnerInv ==
  Typed /\ OneCall /\ CurrentIsLatest /\ OneAtWork /\ ListedIsTable /\ JobsRead /\ NextWritten

-----------------------------------------------------------------------------
(* Types.                                                                  *)

LEMMA Reloaders ==
  /\ IsFiniteSet(Reloader)
  /\ \A S \in SUBSET Reloader : IsFiniteSet(S) /\ Cardinality(S) \in Nat
  /\ \A S \in SUBSET Reloader : \A T \in SUBSET S : Cardinality(T) <= Cardinality(S)
  /\ \A S \in SUBSET Reloader : \A p \in S : Cardinality(S \ {p}) = Cardinality(S) - 1
  /\ \A S \in SUBSET Reloader, p \in Reloader : Cardinality(S \cup {p}) <= Cardinality(S) + 1
<1>1. IsFiniteSet(Reloader)
  BY FS_AddElement, ScheduleAssumption DEF Reloader
<1>2. \A S \in SUBSET Reloader : IsFiniteSet(S) /\ Cardinality(S) \in Nat
  BY <1>1, FS_Subset, FS_CardinalityType
<1>3. \A S \in SUBSET Reloader : \A T \in SUBSET S : Cardinality(T) <= Cardinality(S)
  BY <1>2, FS_Subset
<1>4. \A S \in SUBSET Reloader : \A p \in S : Cardinality(S \ {p}) = Cardinality(S) - 1
  BY <1>2, FS_RemoveElement
<1>5. \A S \in SUBSET Reloader, p \in Reloader : Cardinality(S \cup {p}) <= Cardinality(S) + 1
  <2> SUFFICES ASSUME NEW S \in SUBSET Reloader, NEW p \in Reloader
               PROVE  Cardinality(S \cup {p}) <= Cardinality(S) + 1
    OBVIOUS
  <2>1. Cardinality(S \cup {p}) = IF p \in S THEN Cardinality(S) ELSE Cardinality(S) + 1
    BY <1>2, FS_AddElement
  <2> QED
    BY <1>2, <2>1
<1> QED
  BY <1>1, <1>2, <1>3, <1>4, <1>5

LEMMA BuildingInReloader ==
  Building \in SUBSET Reloader /\ Reloading \in SUBSET Reloader /\ Building \in SUBSET Reloading
  BY DEF Building, Reloading

\* A cron is started or stopped: nothing else about the crons changes.
LEMMA Switched ==
  ASSUME NEW c \in Seq(Cron), NEW k, NEW b \in BOOLEAN
  PROVE  LET d == [c EXCEPT ![k].running = b]
         IN /\ d \in Seq(Cron) /\ Len(d) = Len(c) /\ DOMAIN d = DOMAIN c
            /\ \A g \in DOMAIN c : /\ d[g].entries = c[g].entries
                                   /\ d[g].running = IF g = k THEN b ELSE c[g].running
<1> DEFINE d == [c EXCEPT ![k].running = b]
<1>1. /\ Len(c) \in Nat /\ DOMAIN c = 1 .. Len(c)
      /\ \A g \in 1 .. Len(c) : c[g] \in Cron
  BY LenProperties, ElementOfSeq
<1>2. d = [g \in 1 .. Len(c) |-> IF g = k THEN [c[g] EXCEPT !.running = b] ELSE c[g]]
  BY <1>1
<1>3. \A g \in 1 .. Len(c) : /\ d[g] = IF g = k THEN [c[g] EXCEPT !.running = b] ELSE c[g]
                             /\ [c[g] EXCEPT !.running = b] \in Cron
  BY <1>1, <1>2 DEF Cron
<1>4. \A g \in 1 .. Len(c) : d[g] \in Cron
  BY <1>1, <1>3
<1>5. d \in Seq(Cron) /\ Len(d) = Len(c) /\ DOMAIN d = 1 .. Len(c)
  <2>1. d \in [1 .. Len(c) -> Cron]
    BY <1>2, <1>4
  <2> HIDE DEF d
  <2> QED
    BY <2>1, <1>1
<1>6. \A g \in 1 .. Len(c) : /\ d[g].entries = c[g].entries
                             /\ d[g].running = IF g = k THEN b ELSE c[g].running
  BY <1>1, <1>3 DEF Cron
<1> QED
  BY <1>1, <1>5, <1>6

LEMMA InitTyped == Init => Typed
<1> SUFFICES ASSUME Init
             PROVE  Typed
  OBVIOUS
<1> USE ScheduleAssumption
<1>1. rows \in [Schedule -> Row \cup NoRow]
  <2>1. [state : {"none"}, expr : {NoExpr}, next : {NoExpr}]
          \cup [state : {"on"}, expr : Expr, next : {NoExpr}] \subseteq Row \cup NoRow
    BY DEF Row, NoRow
  <2> QED
    BY <2>1 DEF Init
<1>2. crons \in Seq(Cron) /\ Len(crons) = 0
  BY EmptySeq DEF Init
<1>3. Building = {Boot}
  BY DEF Init, Building, Reloader
<1>4. Len(crons) + Cardinality(Building) <= MaxCrons
  <2>1. Cardinality(Building) = 1
    BY <1>3, FS_Singleton
  <2> QED
    BY <1>2, <2>1
<1>5. pc \in [Reloader -> {"idle", "list", "swap", "stop", "wait", "next", "grab", "start",
                          "up", "stopping", "down"}]
  BY DEF Init
<1>6. /\ current \in 0 .. Len(crons) /\ Len(crons) <= MaxCrons
      /\ todo \in [Reloader -> SUBSET (Schedule \X Expr)]
      /\ held \in [Reloader -> [old : 0 .. MaxCrons, fresh : 0 .. MaxCrons]]
      /\ jobs \subseteq Job /\ missed \subseteq {"list", "next"}
  BY <1>2 DEF Init
<1> QED
  BY <1>1, <1>2, <1>4, <1>5, <1>6 DEF Typed, TypeOK, RoomForCrons, Cron

\* What the invariant of types says of the crons, in the words of this module.
LEMMA TypedFacts ==
  ASSUME Typed
  PROVE  /\ crons \in Seq(Cron) /\ Len(crons) \in Nat /\ Len(crons) <= MaxCrons
         /\ DOMAIN crons = 1 .. Len(crons)
         /\ current \in 0 .. Len(crons)
         /\ RoomForCrons
         /\ Cardinality(Building) \in Nat
         /\ \A p \in Reloader, e \in Schedule \X Expr :
              e \in todo[p] => e[1] \in Schedule /\ e[2] \in Expr
  <1>1. crons \in Seq(Cron)
    BY DEF Typed, TypeOK, Cron
  <1>2. Len(crons) \in Nat /\ DOMAIN crons = 1 .. Len(crons)
    BY <1>1, LenProperties
  <1>3. Cardinality(Building) \in Nat
    BY Reloaders, BuildingInReloader
  <1> QED
    BY <1>1, <1>2, <1>3 DEF Typed, TypeOK

\* Going on with a reload, or leaving it, takes no more room.
LEMMA StaysInRoom ==
  ASSUME Typed, NEW p \in Reloader, NEW l, Goto(p, l),
         l \in {"list", "swap"} => pc[p] \in {"list", "swap"},
         Len(crons') = Len(crons)
  PROVE  RoomForCrons'
<1>1. Building' \in SUBSET Building
  BY DEF Typed, TypeOK, Building, Goto
<1>2. Cardinality(Building') <= Cardinality(Building) /\ Cardinality(Building') \in Nat
  <2>1. Building' \in SUBSET Reloader
    BY <1>1, BuildingInReloader
  <2> DEFINE T == Building'
             S == Building
  <2>2. S \in SUBSET Reloader /\ T \in SUBSET S /\ T \in SUBSET Reloader
    BY <1>1, <2>1, BuildingInReloader
  <2> HIDE DEF T, S
  <2>3. Cardinality(T) <= Cardinality(S) /\ Cardinality(T) \in Nat
    BY <2>2, Reloaders
  <2> QED
    BY <2>3 DEF T, S
<1> QED
  BY <1>2, TypedFacts, ScheduleAssumption DEF RoomForCrons

\* A call that has been let in has its room.
LEMMA CallHasRoom ==
  ASSUME Typed, NEW a \in Caller, MayCall(a), Goto(a, "list"), Len(crons') = Len(crons)
  PROVE  RoomForCrons'
<1> DEFINE S == Building
           T == Building'
           R == Reloading
<1>1. a \in Reloader
  BY DEF Reloader
<1>2. T \in SUBSET (S \cup {a})
  BY <1>1 DEF Typed, TypeOK, Building, Goto
<1>3. S \in SUBSET Reloader /\ R \in SUBSET Reloader /\ S \in SUBSET R
  BY BuildingInReloader
<1>4. Len(crons) + Cardinality(R) < MaxCrons
  BY DEF MayCall
<1> HIDE DEF S, T, R
<1>5. /\ Cardinality(S) <= Cardinality(R) /\ Cardinality(S \cup {a}) <= Cardinality(S) + 1
      /\ Cardinality(T) <= Cardinality(S \cup {a})
      /\ Cardinality(S) \in Nat /\ Cardinality(R) \in Nat /\ Cardinality(T) \in Nat
      /\ Cardinality(S \cup {a}) \in Nat
  <2>1. S \cup {a} \in SUBSET Reloader /\ T \in SUBSET Reloader
    BY <1>1, <1>2, <1>3
  <2> QED
    BY <1>1, <1>2, <1>3, <2>1, Reloaders
<1>6. Len(crons) + Cardinality(T) <= MaxCrons
  BY <1>4, <1>5, TypedFacts, ScheduleAssumption
<1> QED
  BY <1>6 DEF T, RoomForCrons

LEMMA CallTyped ==
  ASSUME Typed, NEW a \in Caller, NEW i \in Schedule, NEW x \in Expr, NEW enabled \in BOOLEAN,
         Create(a, i, x, enabled) \/ Update(a, i, x, enabled) \/ Delete(a, i)
  PROVE  Typed'
<1>1. MayCall(a) /\ Goto(a, "list") /\ UNCHANGED <<crons, current, todo, held, jobs, missed>>
  BY DEF Create, Update, Delete
<1>2. RoomForCrons'
  BY <1>1, CallHasRoom
<1>3. rows' \in [Schedule -> Row \cup NoRow]
  <2>1. \A k \in Schedule : rows[k] \in Row \cup NoRow
    BY DEF Typed, TypeOK
  <2>2. CASE Create(a, i, x, enabled)
    <3>1. [state |-> StateOf(enabled), expr |-> x, next |-> NoExpr] \in Row
      BY DEF Row, StateOf
    <3> QED
      BY <2>2, <3>1 DEF Create, Typed, TypeOK
  <2>3. CASE Update(a, i, x, enabled)
    <3> DEFINE r == [[rows[i] EXCEPT !.state = StateOf(enabled)] EXCEPT !.expr = x]
    <3>1. rows[i] \in Row
      BY <2>1, <2>3 DEF Update, Exists, Row, NoRow
    <3>2. r \in Row
      BY <3>1 DEF Row, StateOf
    <3>3. rows' = [rows EXCEPT ![i] = r]
      BY <2>3 DEF Update, Typed, TypeOK
    <3> HIDE DEF r
    <3> QED
      BY <3>2, <3>3 DEF Typed, TypeOK
  <2>4. CASE Delete(a, i)
    <3>1. [state |-> "deleted", expr |-> NoExpr, next |-> NoExpr] \in NoRow
      BY DEF NoRow
    <3> QED
      BY <2>4, <3>1 DEF Delete, Typed, TypeOK
  <2> QED
    BY <2>2, <2>3, <2>4
<1>4. pc' \in [Reloader -> {"idle", "list", "swap", "stop", "wait", "next", "grab", "start",
                           "up", "stopping", "down"}]
  BY <1>1 DEF Goto, Typed, TypeOK
<1> QED
  BY <1>1, <1>2, <1>3, <1>4 DEF Typed, TypeOK

\* Writing next_run_at leaves the rows in their type.
LEMMA NextTyped ==
  ASSUME Typed, NEW i \in Schedule, NEW x \in Expr, Exists(i)
  PROVE  [rows EXCEPT ![i].next = x] \in [Schedule -> Row \cup NoRow]
<1> DEFINE r == [rows[i] EXCEPT !.next = x]
<1>1. rows[i] \in Row
  BY DEF Exists, Row, NoRow, Typed, TypeOK
<1>2. r \in Row
  BY <1>1 DEF Row
<1>3. [rows EXCEPT ![i].next = x] = [rows EXCEPT ![i] = r]
  OBVIOUS
<1> HIDE DEF r
<1> QED
  BY <1>2, <1>3 DEF Typed, TypeOK

LEMMA ReloadTyped ==
  ASSUME Typed, NEW p \in Reloader,
         \/ ListEnabled(p) \/ ListFails(p) \/ Swap(p) \/ StopOld(p) \/ StartFresh(p)
         \/ WriteNext(p)
  PROVE  Typed'
<1> USE ScheduleAssumption
<1>1. CASE ListEnabled(p)
  <2>1. EnabledRows \in SUBSET (Schedule \X Expr)
    <3>1. \A k \in Schedule : rows[k].state = "on" => rows[k].expr \in Expr
      BY DEF Typed, TypeOK, Row, NoRow
    <3> QED
      BY <3>1 DEF EnabledRows
  <2>2. RoomForCrons'
    BY <1>1, StaysInRoom DEF ListEnabled
  <2> QED
    BY <1>1, <2>1, <2>2 DEF ListEnabled, Goto, Typed, TypeOK
<1>2. CASE ListFails(p)
  <2>1. RoomForCrons'
    BY <1>2, StaysInRoom DEF ListFails
  <2> QED
    BY <1>2, <2>1 DEF ListFails, Goto, Typed, TypeOK
<1>3. CASE Swap(p)
  <2> DEFINE c == [entries |-> todo[p], running |-> FALSE]
  <2>1. c \in Cron
    BY DEF Cron, Typed, TypeOK
  <2>2. crons' = Append(crons, c)
    BY <1>3 DEF Swap
  <2> HIDE DEF c
  <2>3. crons' \in Seq(Cron) /\ Len(crons') = Len(crons) + 1 /\ Len(crons) \in Nat
    BY <2>1, <2>2, TypedFacts, AppendProperties
  <2>4. Cardinality(Building') = Cardinality(Building) - 1
    <3>1. Building' = Building \ {p} /\ p \in Building
      BY <1>3 DEF Swap, Goto, Building, Typed, TypeOK
    <3> QED
      BY <3>1, Reloaders, BuildingInReloader
  <2>5. RoomForCrons' /\ Len(crons') <= MaxCrons
    <3>1. Cardinality(Building) \in Nat /\ Cardinality(Building) # 0
      <4>1. p \in Building
        BY <1>3 DEF Swap, Building
      <4>2. IsFiniteSet(Building) /\ Cardinality(Building) \in Nat
        BY Reloaders, BuildingInReloader
      <4> QED
        BY <4>1, <4>2, FS_EmptySet
    <3> QED
      BY <2>3, <2>4, <3>1, TypedFacts DEF RoomForCrons
  <2>6. current' = Len(crons) + 1
        /\ held' \in [Reloader -> [old : 0 .. MaxCrons, fresh : 0 .. MaxCrons]]
    <3> DEFINE n == Len(crons) + 1
               h == [old |-> current, fresh |-> n]
    <3>1. n \in 0 .. MaxCrons /\ current \in 0 .. MaxCrons
      BY <2>3, <2>5, TypedFacts
    <3>2. h \in [old : 0 .. MaxCrons, fresh : 0 .. MaxCrons] /\ held' = [held EXCEPT ![p] = h]
      BY <3>1, <1>3 DEF Swap
    <3> HIDE DEF h
    <3> QED
      BY <3>2, <1>3 DEF Swap, Typed, TypeOK
  <2>7. pc' \in [Reloader -> {"idle", "list", "swap", "stop", "wait", "next", "grab", "start",
                           "up", "stopping", "down"}]
    BY <1>3 DEF Swap, Goto, Typed, TypeOK
  <2> QED
    BY <1>3, <2>3, <2>5, <2>6, <2>7 DEF Swap, Typed, TypeOK, Cron
<1>4. CASE StopOld(p)
  <2>1. crons' \in Seq(Cron) /\ Len(crons') = Len(crons)
    BY <1>4, TypedFacts, Switched DEF StopOld
  <2>2. RoomForCrons'
    BY <1>4, <2>1, StaysInRoom DEF StopOld
  <2> QED
    BY <1>4, <2>1, <2>2 DEF StopOld, Goto, Typed, TypeOK, Cron
<1>5. CASE StartFresh(p)
  <2>1. crons' \in Seq(Cron) /\ Len(crons') = Len(crons)
    BY <1>5, TypedFacts, Switched DEF StartFresh
  <2>2. RoomForCrons'
    BY <1>5, <2>1, StaysInRoom DEF StartFresh
  <2> QED
    BY <1>5, <2>1, <2>2 DEF StartFresh, Goto, Typed, TypeOK, Cron
<1>6. CASE WriteNext(p)
  <2>1. CASE todo[p] = {} /\ Goto(p, Returned(p)) /\ UNCHANGED <<rows, todo, missed>>
    <3>1. Returned(p) \in {"grab", "idle"}
      BY DEF Returned
    <3>2. RoomForCrons'
      BY <1>6, <2>1, <3>1, StaysInRoom DEF WriteNext
    <3> QED
      BY <1>6, <2>1, <3>1, <3>2 DEF WriteNext, Goto, Typed, TypeOK
  <2>2. ASSUME NEW e \in todo[p],
               todo' = [todo EXCEPT ![p] = @ \ {e}],
               \/ /\ rows' = IF Exists(e[1]) THEN [rows EXCEPT ![e[1]].next = e[2]] ELSE rows
                  /\ UNCHANGED missed
               \/ /\ missed' = missed \cup {"next"}
                  /\ UNCHANGED rows,
               UNCHANGED pc
        PROVE  Typed'
    <3>1. e[1] \in Schedule /\ e[2] \in Expr
      BY DEF Typed, TypeOK
    <3>2. rows' \in [Schedule -> Row \cup NoRow]
      <4> DEFINE i == e[1]
                 x == e[2]
      <4>1. /\ i \in Schedule /\ x \in Expr
            /\ rows' = (IF Exists(i) THEN [rows EXCEPT ![i].next = x] ELSE rows) \/ rows' = rows
        BY <2>2, <3>1
      <4> HIDE DEF i, x
      <4> QED
        <5>1. Exists(i) => [rows EXCEPT ![i].next = x] \in [Schedule -> Row \cup NoRow]
          BY <4>1, NextTyped
        <5>2. rows \in [Schedule -> Row \cup NoRow]
          BY DEF Typed, TypeOK
        <5> QED
          BY <4>1, <5>1, <5>2
    <3>3. RoomForCrons'
      BY <1>6, <2>2 DEF WriteNext, Typed, RoomForCrons, Building
    <3> QED
      BY <1>6, <2>2, <3>2, <3>3 DEF WriteNext, Typed, TypeOK
  <2> QED
    BY <1>6, <2>1, <2>2 DEF WriteNext
<1> QED
  BY <1>1, <1>2, <1>3, <1>4, <1>5, <1>6

LEMMA BootTyped ==
  ASSUME Typed, BootReads \/ BootStarts \/ BootStops \/ BootReturns \/ Restart
  PROVE  Typed'
<1> USE ScheduleAssumption
<1>0. Boot \in Reloader
  BY DEF Reloader
<1>1. CASE BootReads
  <2>1. current \in 0 .. MaxCrons
    BY TypedFacts
  <2>2. RoomForCrons'
    BY <1>0, <1>1, StaysInRoom DEF BootReads
  <2>3. held' \in [Reloader -> [old : 0 .. MaxCrons, fresh : 0 .. MaxCrons]]
    <3> DEFINE h == [held[Boot] EXCEPT !.fresh = current]
    <3>1. h \in [old : 0 .. MaxCrons, fresh : 0 .. MaxCrons]
      BY <1>0, <2>1 DEF Typed, TypeOK
    <3>2. held' = [held EXCEPT ![Boot] = h]
      BY <1>1 DEF BootReads
    <3> HIDE DEF h
    <3> QED
      BY <3>1, <3>2 DEF Typed, TypeOK
  <2> QED
    BY <1>0, <1>1, <2>2, <2>3 DEF BootReads, Goto, Typed, TypeOK
<1>2. CASE BootStarts
  <2>1. crons' \in Seq(Cron) /\ Len(crons') = Len(crons)
    BY <1>2, TypedFacts, Switched DEF BootStarts
  <2>2. RoomForCrons'
    BY <1>0, <1>2, <2>1, StaysInRoom DEF BootStarts
  <2> QED
    BY <1>0, <1>2, <2>1, <2>2 DEF BootStarts, Goto, Typed, TypeOK, Cron
<1>3. CASE BootStops
  <2>1. crons' \in Seq(Cron) /\ Len(crons') = Len(crons)
    BY <1>3, TypedFacts, Switched DEF BootStops
  <2>2. RoomForCrons'
    BY <1>0, <1>3, <2>1, StaysInRoom DEF BootStops
  <2> QED
    BY <1>0, <1>3, <2>1, <2>2 DEF BootStops, Goto, Typed, TypeOK, Cron
<1>4. CASE BootReturns
  <2>1. RoomForCrons'
    BY <1>0, <1>4, StaysInRoom DEF BootReturns
  <2> QED
    BY <1>0, <1>4, <2>1 DEF BootReturns, Goto, Typed, TypeOK
<1>5. CASE Restart
  <2>1. crons' \in Seq(Cron) /\ Len(crons') = 0
    BY <1>5, EmptySeq DEF Restart
  <2>2. Building' = {Boot}
    BY <1>0, <1>5 DEF Restart, Building
  <2>3. RoomForCrons'
    <3>1. Cardinality(Building') = 1
      BY <2>2, FS_Singleton
    <3> QED
      BY <2>1, <3>1 DEF RoomForCrons
  <2>4. pc' \in [Reloader -> {"idle", "list", "swap", "stop", "wait", "next", "grab", "start",
                             "up", "stopping", "down"}]
    BY <1>5 DEF Restart
  <2>5. /\ current' \in 0 .. Len(crons') /\ Len(crons') <= MaxCrons
        /\ todo' \in [Reloader -> SUBSET (Schedule \X Expr)]
        /\ held' \in [Reloader -> [old : 0 .. MaxCrons, fresh : 0 .. MaxCrons]]
        /\ jobs' \subseteq Job /\ missed' \subseteq {"list", "next"}
    BY <1>5, <2>1 DEF Restart
  <2> QED
    BY <1>5, <2>1, <2>3, <2>4, <2>5 DEF Restart, Typed, TypeOK, Cron
<1> QED
  BY <1>1, <1>2, <1>3, <1>4, <1>5

LEMMA JobTyped ==
  ASSUME Typed,
         \/ \E g \in DOMAIN crons, i \in Schedule : JobStarts(g, i)
         \/ \E j \in jobs : JobReads(j) \/ JobQueues(j) \/ JobMarks(j)
  PROVE  Typed'
<1>1. UNCHANGED <<crons, current, pc, todo, held, missed>>
  BY DEF JobStarts, JobReads, JobQueues, JobMarks
<1>2. RoomForCrons'
  BY <1>1 DEF RoomForCrons, Building, Typed
<1>3. jobs' \subseteq Job /\ rows' \in [Schedule -> Row \cup NoRow]
  <2>1. ASSUME NEW g \in DOMAIN crons, NEW i \in Schedule, JobStarts(g, i)
        PROVE  jobs' \subseteq Job /\ rows' \in [Schedule -> Row \cup NoRow]
    <3>1. g \in 1 .. MaxCrons
      BY TypedFacts, ScheduleAssumption
    <3>2. [cron |-> g, schedule |-> i, phase |-> "get", expr |-> NoExpr] \in Job
      BY <3>1 DEF Job
    <3> QED
      BY <2>1, <3>2 DEF JobStarts, Typed, TypeOK
  <2>2. ASSUME NEW j \in jobs, JobReads(j)
        PROVE  jobs' \subseteq Job /\ rows' \in [Schedule -> Row \cup NoRow]
    <3> DEFINE x == rows[j.schedule].expr
               k == [[j EXCEPT !.phase = "queue"] EXCEPT !.expr = x]
    <3>1. j \in Job
      BY DEF Typed, TypeOK
    <3>2. rows[j.schedule].state = "on" => k \in Job
      <4>1. SUFFICES ASSUME rows[j.schedule].state = "on"
                     PROVE  k \in Job
        OBVIOUS
      <4>2. x \in Expr
        BY <3>1, <4>1 DEF Job, Row, NoRow, Typed, TypeOK
      <4> HIDE DEF x
      <4>3. j \in [cron : 1 .. MaxCrons, schedule : Schedule, phase : {"get"}, expr : {NoExpr}]
        BY <3>1, <2>2 DEF JobReads, Job
      <4> QED
        BY <4>2, <4>3 DEF Job
    <3>3. jobs' \subseteq jobs \cup {k} /\ (rows[j.schedule].state # "on" => jobs' \subseteq jobs)
          /\ rows' = rows
      BY <2>2 DEF JobReads
    <3> HIDE DEF k
    <3> QED
      BY <3>2, <3>3 DEF Typed, TypeOK
  <2>3. ASSUME NEW j \in jobs, JobQueues(j)
        PROVE  jobs' \subseteq Job /\ rows' \in [Schedule -> Row \cup NoRow]
    <3> DEFINE k == [j EXCEPT !.phase = "mark"]
    <3>1. j \in [cron : 1 .. MaxCrons, schedule : Schedule, phase : {"queue", "mark"}, expr : Expr]
      BY <2>3 DEF JobQueues, Job, Typed, TypeOK
    <3>2. k \in Job
      BY <3>1 DEF Job
    <3>3. jobs' \subseteq jobs \cup {k} /\ rows' = rows
      BY <2>3 DEF JobQueues
    <3> HIDE DEF k
    <3> QED
      BY <3>2, <3>3 DEF Typed, TypeOK
  <2>4. ASSUME NEW j \in jobs, JobMarks(j)
        PROVE  jobs' \subseteq Job /\ rows' \in [Schedule -> Row \cup NoRow]
    <3>1. j.schedule \in Schedule /\ j.expr \in Expr
      BY <2>4 DEF JobMarks, Job, Typed, TypeOK
    <3>2. rows' \in [Schedule -> Row \cup NoRow]
      <4> DEFINE i == j.schedule
                 x == j.expr
      <4>1. /\ i \in Schedule /\ x \in Expr
            /\ rows' = (IF Exists(i) THEN [rows EXCEPT ![i].next = x] ELSE rows) \/ rows' = rows
        BY <2>4, <3>1 DEF JobMarks
      <4> HIDE DEF i, x
      <4> QED
        BY <4>1, NextTyped DEF Typed, TypeOK
    <3> QED
      BY <2>4, <3>2 DEF JobMarks, Typed, TypeOK
  <2> QED
    BY <2>1, <2>2, <2>3, <2>4
<1> QED
  BY <1>1, <1>2, <1>3 DEF Typed, TypeOK

LEMMA NextKeepsTypes ==
  ASSUME Typed, [Next]_vars
  PROVE  Typed'
<1>1. CASE UNCHANGED vars
  BY <1>1 DEF vars, Typed, TypeOK, RoomForCrons, Building
<1>2. ASSUME NEW a \in Caller, NEW i \in Schedule,
             \/ \E x \in Expr, enabled \in BOOLEAN :
                  Create(a, i, x, enabled) \/ Update(a, i, x, enabled)
             \/ Delete(a, i)
      PROVE  Typed'
  <2>1. CASE Delete(a, i)
    <3>1. rows' \in [Schedule -> Row \cup NoRow]
      <4>1. [state |-> "deleted", expr |-> NoExpr, next |-> NoExpr] \in NoRow
        BY DEF NoRow
      <4> QED
        BY <2>1, <4>1 DEF Delete, Typed, TypeOK
    <3>2. RoomForCrons'
      BY <2>1, CallHasRoom DEF Delete
    <3> QED
      BY <2>1, <3>1, <3>2 DEF Delete, Goto, Typed, TypeOK
  <2> QED
    BY <1>2, <2>1, CallTyped
<1> QED
  BY <1>1, <1>2, ReloadTyped, BootTyped, JobTyped DEF Next

\* The rows, the crons and the jobs stay in their types for any calls, however they overlap,
\* and no more crons are built than there is room for.
THEOREM TypeCorrect == Spec => []TypeOK
<1>1. Init => Typed
  BY InitTyped
<1>2. Typed /\ [Next]_vars => Typed'
  BY NextKeepsTypes
<1>3. Typed => TypeOK
  BY DEF Typed
<1> QED
  BY <1>1, <1>2, <1>3, PTL DEF Spec

-----------------------------------------------------------------------------
(* One call at a time.                                                     *)

LEMMA Names == Boot \in Reloader /\ Boot \notin Caller /\ \A a \in Caller : a \in Reloader /\ a # Boot
  BY ScheduleAssumption DEF Reloader

LEMMA Moves ==
  ASSUME Typed, NEW p \in Reloader, NEW l, Goto(p, l)
  PROVE  \A q \in Reloader : pc'[q] = IF q = p THEN l ELSE pc[q]
  BY DEF Typed, TypeOK, Goto

\* What a reload lists depends on what is enabled, and with which expression.
LEMMA SameTable ==
  ASSUME \A i \in Schedule : rows'[i].state = rows[i].state /\ rows'[i].expr = rows[i].expr
  PROVE  EnabledRows' = EnabledRows
<1>1. {k \in Schedule : rows'[k].state = "on"} = {k \in Schedule : rows[k].state = "on"}
  OBVIOUS
<1> QED
  BY <1>1 DEF EnabledRows

LEMMA InTable ==
  \A i \in Schedule : \A x : <<i, x>> \in EnabledRows <=> rows[i].state = "on" /\ x = rows[i].expr
  BY DEF EnabledRows

\* Outside the swap of Run there is a cron in use.
LEMMA InUse ==
  ASSUME RunnerInv, pc[Boot] \notin {"list", "swap"}
  PROVE  current \in DOMAIN crons
<1>1. current # 0
  BY DEF RunnerInv, CurrentIsLatest
<1> QED
  BY <1>1, TypedFacts DEF RunnerInv

\* The call in progress is the only one.
LEMMA Alone ==
  ASSUME RunnerInv, NEW a \in Caller, pc[a] # "idle"
  PROVE  ~Starting /\ \A b \in Caller : b # a => pc[b] = "idle"
  BY DEF RunnerInv, OneCall

\* Writing next_run_at changes nothing that is listed or read.
LEMMA NextOnly ==
  ASSUME Typed, NEW i \in Schedule, NEW x,
         rows' = (IF Exists(i) THEN [rows EXCEPT ![i].next = x] ELSE rows)
  PROVE  /\ \A k \in Schedule : /\ rows'[k].state = rows[k].state /\ rows'[k].expr = rows[k].expr
                                /\ k # i => rows'[k].next = rows[k].next
         /\ Exists(i) => rows'[i].next = x
<1>1. CASE Exists(i)
  <2>1. rows[i] \in Row
    BY <1>1 DEF Exists, Row, NoRow, Typed, TypeOK
  <2>2. \A k \in Schedule : rows'[k] = IF k = i THEN [rows[i] EXCEPT !.next = x] ELSE rows[k]
    BY <1>1 DEF Typed, TypeOK
  <2> QED
    BY <2>1, <2>2 DEF Row
<1>2. CASE ~Exists(i)
  BY <1>2
<1> QED
  BY <1>1, <1>2

LEMMA InitInv == Init => RunnerInv
<1> SUFFICES ASSUME Init
             PROVE  RunnerInv
  OBVIOUS
<1> USE Names
<1>1. /\ \A q \in Reloader : pc[q] = IF q = Boot THEN "list" ELSE "idle"
      /\ crons = <<>> /\ current = 0 /\ jobs = {} /\ missed = {} /\ Len(crons) = 0
      /\ DOMAIN crons = {}
  BY EmptySeq DEF Init
<1>2. OneCall
  BY <1>1 DEF OneCall
<1>3. CurrentIsLatest
  BY <1>1 DEF CurrentIsLatest, Starting
<1>4. OneAtWork
  BY <1>1 DEF OneAtWork
<1>5. ~Loaded
  BY <1>1 DEF Loaded
<1>6. ListedIsTable
  BY <1>1, <1>5 DEF ListedIsTable, Settled
<1> QED
  BY <1>2, <1>3, <1>4, <1>5, <1>6, InitTyped DEF RunnerInv, JobsRead, NextWritten, Settled

LEMMA CallInv ==
  ASSUME RunnerInv, Typed', ~EarlyCalls, ~Overlap,
         NEW a \in Caller, MayCall(a), Goto(a, "list"),
         UNCHANGED <<crons, current, todo, held, jobs, missed>>
  PROVE  RunnerInv'
<1> USE Names
<1>1. \A q \in Reloader : pc'[q] = IF q = a THEN "list" ELSE pc[q]
  BY Moves DEF RunnerInv
<1>2. pc[Boot] \in {"up", "stopping"} /\ \A b \in Caller : pc[b] = "idle"
  BY DEF MayCall, Reloading, RunnerInv, OneCall
<1>3. ~Starting /\ ~Starting'
  BY <1>1, <1>2 DEF Starting
<1>4. OneCall'
  BY <1>1, <1>2, <1>3 DEF OneCall
<1>5. CurrentIsLatest'
  BY <1>1, <1>2, <1>3 DEF RunnerInv, CurrentIsLatest
<1>6. OneAtWork'
  BY <1>1, <1>2, <1>3 DEF RunnerInv, OneAtWork, AtWork, JobOf
<1>7. ~Loaded'
  BY <1>1 DEF Loaded
<1>8. ListedIsTable'
  <2>1. \A q \in Reloader : pc'[q] \notin {"swap", "stop", "wait", "next"}
    BY <1>1, <1>2 DEF Reloader
  <2> QED
    BY <1>7, <2>1 DEF ListedIsTable, Settled
<1> QED
  BY <1>4, <1>5, <1>6, <1>7, <1>8 DEF RunnerInv, JobsRead, NextWritten, Settled

LEMMA ListInv ==
  ASSUME RunnerInv, Typed', NEW p \in Reloader, ListEnabled(p)
  PROVE  RunnerInv'
<1> USE Names
<1>1. pc[p] = "list" /\ \A q \in Reloader : pc'[q] = IF q = p THEN "swap" ELSE pc[q]
  BY Moves DEF ListEnabled, RunnerInv
<1>2. Starting' <=> Starting
  BY <1>1 DEF Starting
<1>3. UNCHANGED <<rows, crons, current, held, jobs, missed>>
  BY DEF ListEnabled
<1>4. OneCall'
  BY <1>1, <1>2 DEF RunnerInv, OneCall
<1>5. CurrentIsLatest'
  BY <1>1, <1>2, <1>3 DEF RunnerInv, CurrentIsLatest
<1>6. OneAtWork'
  BY <1>1, <1>2, <1>3 DEF RunnerInv, OneAtWork, AtWork, JobOf
<1>7. ~Loaded'
  BY <1>1 DEF Loaded, Reloader
<1>8. ListedIsTable'
  <2>1. EnabledRows' = EnabledRows
    BY <1>3, SameTable
  <2>2. \A q \in Reloader : todo'[q] = IF q = p THEN EnabledRows ELSE todo[q]
    BY DEF ListEnabled, RunnerInv, Typed, TypeOK
  <2> QED
    BY <1>1, <1>3, <1>7, <2>1, <2>2 DEF RunnerInv, ListedIsTable, Settled
<1> QED
  BY <1>4, <1>5, <1>6, <1>7, <1>8 DEF RunnerInv, JobsRead, NextWritten, Settled

LEMMA ListFailsInv ==
  ASSUME RunnerInv, Typed', NEW p \in Reloader, ListFails(p)
  PROVE  RunnerInv'
<1> USE Names
<1>1. p \in Caller /\ pc[p] = "list" /\ \A q \in Reloader : pc'[q] = IF q = p THEN "idle" ELSE pc[q]
  BY Moves DEF ListFails, RunnerInv
<1>2. ~Starting /\ ~Starting' /\ \A b \in Caller : b # p => pc[b] = "idle"
  BY <1>1, Alone DEF Starting
<1>3. UNCHANGED <<rows, crons, current, todo, held, jobs>> /\ "list" \in missed'
  BY DEF ListFails
<1>4. OneCall'
  BY <1>1, <1>2 DEF RunnerInv, OneCall
<1>5. CurrentIsLatest'
  BY <1>1, <1>2, <1>3 DEF RunnerInv, CurrentIsLatest
<1>6. OneAtWork'
  BY <1>1, <1>2, <1>3 DEF RunnerInv, OneAtWork, AtWork, JobOf
<1>7. ~Loaded'
  BY <1>3 DEF Loaded
<1>8. ListedIsTable'
  <2>1. EnabledRows' = EnabledRows
    BY <1>3, SameTable
  <2> QED
    BY <1>1, <1>2, <1>3, <1>7, <2>1 DEF RunnerInv, ListedIsTable, Settled
<1> QED
  BY <1>4, <1>5, <1>6, <1>7, <1>8 DEF RunnerInv, JobsRead, NextWritten, Settled

LEMMA SwapInv ==
  ASSUME RunnerInv, Typed', NEW p \in Reloader, Swap(p)
  PROVE  RunnerInv'
<1> USE Names
<1> DEFINE c == [entries |-> todo[p], running |-> FALSE]
           n == Len(crons) + 1
<1>1. /\ pc[p] = "swap" /\ todo[p] = EnabledRows
      /\ UNCHANGED <<rows, todo, jobs>> /\ missed' = {} /\ current' = n
  BY DEF Swap, RunnerInv, ListedIsTable
<1>2. /\ Len(crons) \in Nat /\ Len(crons') = n /\ DOMAIN crons = 1 .. Len(crons)
      /\ DOMAIN crons' = 1 .. n
      /\ \A g \in DOMAIN crons : crons'[g] = crons[g]
      /\ crons'[n].entries = EnabledRows /\ crons'[n].running = FALSE
  <2>1. crons \in Seq(Cron) /\ c \in Cron /\ crons' = Append(crons, c)
    BY DEF RunnerInv, Typed, TypeOK, Cron, Swap
  <2>2. c.entries = EnabledRows /\ c.running = FALSE
    BY <1>1
  <2> HIDE DEF c
  <2> QED
    BY <2>1, <2>2, AppendProperties, LenProperties
<1>3. EnabledRows' = EnabledRows
  BY <1>1, SameTable
<1>4. \A q \in Reloader : q # p => held'[q] = held[q]
  BY DEF Swap, RunnerInv, Typed, TypeOK
<1>5. held'[p].old = current /\ held'[p].fresh = n
  BY DEF Swap, RunnerInv, Typed, TypeOK
<1>6. current = Len(crons) /\ n # 0
  BY <1>2 DEF RunnerInv, CurrentIsLatest
<1> HIDE DEF c, n
<1>7. CASE p = Boot
  <2>1. \A q \in Reloader : pc'[q] = IF q = Boot THEN "next" ELSE pc[q]
    BY <1>1, <1>7, Moves DEF RunnerInv, CurrentIsLatest, Swap
  <2>2. Starting /\ Starting' /\ \A b \in Caller : pc[b] = "idle"
    BY <1>1, <1>7, <2>1 DEF Starting, RunnerInv, OneCall
  <2>3. jobs = {} /\ DOMAIN crons = {} /\ DOMAIN crons' = {n}
    <3>1. jobs = {} /\ current = 0
      BY <2>2, <1>1, <1>7 DEF RunnerInv, CurrentIsLatest
    <3>2. n = 1 /\ DOMAIN crons = 1 .. 0 /\ DOMAIN crons' = 1 .. 1
      BY <3>1, <1>2, <1>6 DEF n
    <3> QED
      BY <3>1, <3>2
  <2>4. OneCall'
    BY <2>1, <2>2 DEF OneCall
  <2>5. CurrentIsLatest'
    BY <1>1, <1>2, <1>6, <2>1, <2>2, <2>3 DEF CurrentIsLatest
  <2>6. OneAtWork'
    BY <1>1, <1>2, <2>3 DEF OneAtWork
  <2>7. ListedIsTable'
    BY <1>1, <1>2, <1>3, <1>7, <2>1, <2>2 DEF ListedIsTable, Reloader
  <2>8. JobsRead'
    BY <1>1, <2>3 DEF JobsRead
  <2>9. NextWritten'
    BY <1>1, <1>7, <2>1, InTable DEF NextWritten
  <2> QED
    BY <2>4, <2>5, <2>6, <2>7, <2>8, <2>9 DEF RunnerInv
<1>8. CASE p \in Caller
  <2>1. ~Starting /\ \A b \in Caller : b # p => pc[b] = "idle"
    BY <1>1, <1>8, Alone
  <2>2. \A q \in Reloader : pc'[q] = IF q = p THEN "stop" ELSE pc[q]
    BY <1>1, <2>1, Moves DEF RunnerInv, CurrentIsLatest, Swap, Starting
  <2>3. ~Starting'
    BY <1>8, <2>1, <2>2 DEF Starting
  <2>4. OneCall'
    BY <1>8, <2>1, <2>2, <2>3 DEF RunnerInv, OneCall
  <2>5. CurrentIsLatest'
    BY <1>1, <1>2, <1>5, <1>6, <1>8, <2>1, <2>2, <2>3 DEF CurrentIsLatest, Starting
  <2>6. OneAtWork'
    <3>1. ASSUME NEW g \in DOMAIN crons', crons'[g].running
          PROVE  AtWork(g)'
      <4>1. g \in DOMAIN crons /\ crons[g].running
        BY <1>2, <3>1 DEF n
      <4>2. g = current
        BY <1>1, <1>8, <2>1, <4>1 DEF RunnerInv, OneAtWork, AtWork
      <4> QED
        BY <1>5, <1>8, <2>1, <2>2, <2>3, <4>2 DEF AtWork
    <3>2. ASSUME NEW j \in jobs'
          PROVE  JobOf(j.cron)'
      <4>1. j.cron = current
        BY <1>1, <1>8, <2>1 DEF RunnerInv, OneAtWork, JobOf
      <4> QED
        BY <1>5, <1>8, <2>1, <2>2, <4>1 DEF JobOf
    <3> QED
      BY <3>1, <3>2 DEF OneAtWork
  <2>7. ~Settled'
    BY <1>8, <2>2 DEF Settled
  <2>8. ListedIsTable'
    BY <1>1, <1>2, <1>3, <1>8, <2>1, <2>2, <2>7 DEF RunnerInv, ListedIsTable, Reloader
  <2> QED
    BY <2>4, <2>5, <2>6, <2>7, <2>8 DEF RunnerInv, JobsRead, NextWritten
<1> QED
  BY <1>7, <1>8 DEF Reloader

LEMMA StopOldInv ==
  ASSUME RunnerInv, Typed', NEW p \in Reloader, StopOld(p)
  PROVE  RunnerInv'
<1> USE Names
<1>1. /\ pc[p] = "stop" /\ p \in Caller
      /\ \A q \in Reloader : pc'[q] = IF q = p THEN "wait" ELSE pc[q]
      /\ UNCHANGED <<rows, current, todo, held, jobs, missed>>
  BY Moves DEF StopOld, RunnerInv, OneCall, Reloader
<1>2. ~Starting /\ ~Starting' /\ \A b \in Caller : b # p => pc[b] = "idle"
  BY <1>1, Alone DEF Starting
<1>3. /\ Len(crons') = Len(crons) /\ DOMAIN crons' = DOMAIN crons
      /\ \A g \in DOMAIN crons :
           /\ crons'[g].entries = crons[g].entries
           /\ crons'[g].running = IF g = held[p].old THEN FALSE ELSE crons[g].running
  BY TypedFacts, Switched DEF StopOld, RunnerInv
<1>4. EnabledRows' = EnabledRows
  BY <1>1, SameTable
<1>5. OneCall'
  BY <1>1, <1>2 DEF RunnerInv, OneCall
<1>6. CurrentIsLatest'
  BY <1>1, <1>2, <1>3 DEF RunnerInv, CurrentIsLatest
<1>7. OneAtWork'
  <2>1. \A g \in DOMAIN crons' : ~crons'[g].running
    BY <1>1, <1>3 DEF RunnerInv, OneAtWork, AtWork
  <2> QED
    BY <1>1, <2>1 DEF RunnerInv, OneAtWork, JobOf
<1>8. ~Settled'
  BY <1>1 DEF Settled
<1>9. ListedIsTable'
  <2>1. Loaded' => Loaded
    BY <1>1 DEF Loaded
  <2>2. current \in DOMAIN crons
    BY <1>2, InUse DEF Starting
  <2> QED
    BY <1>1, <1>3, <1>4, <1>8, <2>1, <2>2 DEF RunnerInv, ListedIsTable
<1> QED
  BY <1>5, <1>6, <1>7, <1>8, <1>9 DEF RunnerInv, JobsRead, NextWritten

LEMMA StartFreshInv ==
  ASSUME RunnerInv, Typed', NEW p \in Reloader, StartFresh(p)
  PROVE  RunnerInv'
<1> USE Names
<1>1. /\ pc[p] = "wait" /\ p \in Caller
      /\ \A q \in Reloader : pc'[q] = IF q = p THEN "next" ELSE pc[q]
      /\ UNCHANGED <<rows, current, todo, held, jobs, missed>>
  BY Moves DEF StartFresh, RunnerInv, OneCall, Reloader
<1>2. ~Starting /\ ~Starting' /\ \A b \in Caller : b # p => pc[b] = "idle"
  BY <1>1, Alone DEF Starting
<1>3. held[p].fresh = current
  BY <1>1 DEF RunnerInv, CurrentIsLatest
<1>4. /\ Len(crons') = Len(crons) /\ DOMAIN crons' = DOMAIN crons
      /\ \A g \in DOMAIN crons :
           /\ crons'[g].entries = crons[g].entries
           /\ crons'[g].running = IF g = current THEN TRUE ELSE crons[g].running
  BY <1>3, TypedFacts, Switched DEF StartFresh, RunnerInv
<1>5. EnabledRows' = EnabledRows
  BY <1>1, SameTable
<1>6. jobs = {}
  BY <1>1 DEF StartFresh, RunnerInv, OneAtWork, JobOf
<1>7. OneCall'
  BY <1>1, <1>2 DEF RunnerInv, OneCall
<1>8. CurrentIsLatest'
  BY <1>1, <1>2, <1>4 DEF RunnerInv, CurrentIsLatest
<1>9. OneAtWork'
  <2>1. \A g \in DOMAIN crons : ~crons[g].running
    BY <1>1 DEF RunnerInv, OneAtWork, AtWork
  <2>2. \A g \in DOMAIN crons' : crons'[g].running => g = current
    BY <1>4, <2>1
  <2> QED
    BY <1>1, <1>2, <1>6, <2>2 DEF OneAtWork, AtWork
<1>10. current \in DOMAIN crons
  BY <1>2, InUse DEF Starting
<1>11. Loaded /\ crons[current].entries = EnabledRows /\ todo[p] = EnabledRows
  <2>1. Loaded
    BY <1>1, <1>2 DEF RunnerInv, ListedIsTable, Loaded, Starting
  <2> QED
    BY <1>1, <2>1 DEF RunnerInv, ListedIsTable
<1>12. ListedIsTable'
  BY <1>1, <1>4, <1>5, <1>10, <1>11 DEF RunnerInv, ListedIsTable
<1>13. JobsRead'
  BY <1>1, <1>6 DEF JobsRead
<1>14. NextWritten'
  BY <1>1, <1>11, InTable DEF NextWritten
<1> QED
  BY <1>7, <1>8, <1>9, <1>12, <1>13, <1>14 DEF RunnerInv

LEMMA WriteNextInv ==
  ASSUME RunnerInv, Typed', NEW p \in Reloader, WriteNext(p)
  PROVE  RunnerInv'
<1> USE Names
<1>1. pc[p] = "next" /\ UNCHANGED <<crons, current, held, jobs>>
  BY DEF WriteNext
<1>2. CASE todo[p] = {} /\ Goto(p, Returned(p)) /\ UNCHANGED <<rows, todo, missed>>
  <2>1. /\ \A q \in Reloader : pc'[q] = IF q = p THEN Returned(p) ELSE pc[q]
        /\ Returned(p) = IF p = Boot THEN "grab" ELSE "idle"
    BY <1>2, Moves DEF RunnerInv, Returned
  <2>2. Starting' <=> Starting
    BY <1>1, <2>1 DEF Starting
  <2>3. EnabledRows' = EnabledRows
    BY <1>2, SameTable
  <2>4. OneCall'
    BY <1>1, <2>1, <2>2 DEF RunnerInv, OneCall, Reloader
  <2>5. CurrentIsLatest'
    BY <1>1, <1>2, <2>1, <2>2 DEF RunnerInv, CurrentIsLatest
  <2>6. OneAtWork'
    BY <1>1, <2>1, <2>2 DEF RunnerInv, OneAtWork, AtWork, JobOf
  <2>7. (Loaded' => Loaded) /\ (Settled' => Settled)
    BY <1>1, <1>2, <2>1 DEF Loaded, Settled
  <2>8. ListedIsTable'
    BY <1>1, <1>2, <2>1, <2>3, <2>7 DEF RunnerInv, ListedIsTable
  <2>9. JobsRead'
    BY <1>1, <1>2, <2>7 DEF RunnerInv, JobsRead
  <2>10. NextWritten'
    BY <1>2, <2>1, <2>7 DEF RunnerInv, NextWritten
  <2> QED
    BY <2>4, <2>5, <2>6, <2>8, <2>9, <2>10 DEF RunnerInv
<1>3. ASSUME NEW e \in todo[p],
             todo' = [todo EXCEPT ![p] = @ \ {e}],
             \/ /\ rows' = IF Exists(e[1]) THEN [rows EXCEPT ![e[1]].next = e[2]] ELSE rows
                /\ UNCHANGED missed
             \/ /\ p # Boot
                /\ missed' = missed \cup {"next"}
                /\ UNCHANGED rows,
             UNCHANGED pc
      PROVE  RunnerInv'
  <2> DEFINE i == e[1]
             x == e[2]
  <2>1. e = <<i, x>> /\ i \in Schedule /\ rows[i].state = "on" /\ x = rows[i].expr /\ Exists(i)
    <3>1. e \in EnabledRows
      BY <1>1 DEF RunnerInv, ListedIsTable
    <3>2. e = <<i, x>> /\ i \in Schedule
      BY <3>1 DEF EnabledRows
    <3> HIDE DEF i, x
    <3> QED
      BY <3>1, <3>2, InTable DEF Exists
  <2>2. \/ /\ rows' = (IF Exists(i) THEN [rows EXCEPT ![i].next = x] ELSE rows)
           /\ missed' = missed
        \/ /\ p # Boot /\ missed' = missed \cup {"next"} /\ rows' = rows
    BY <1>3
  <2> HIDE DEF i, x
  <2>3. /\ \A k \in Schedule : /\ rows'[k].state = rows[k].state /\ rows'[k].expr = rows[k].expr
                               /\ k # i => rows'[k].next = rows[k].next
        /\ "next" \notin missed' => rows'[i].next = rows[i].expr /\ "next" \notin missed
    BY <2>1, <2>2, NextOnly DEF RunnerInv
  <2>4. EnabledRows' = EnabledRows
    BY <2>3, SameTable
  <2>5. \A q \in Reloader : todo'[q] = IF q = p THEN todo[p] \ {e} ELSE todo[q]
    BY <1>3 DEF RunnerInv, Typed, TypeOK
  <2>6. (Starting' <=> Starting) /\ (Starting => p = Boot) /\ ("list" \in missed' <=> "list" \in missed)
    BY <1>1, <1>3, <2>2, Alone DEF Starting, Reloader
  <2>7. OneCall'
    BY <1>3, <2>6 DEF RunnerInv, OneCall
  <2>8. CurrentIsLatest'
    BY <1>1, <1>3, <2>2, <2>6 DEF RunnerInv, CurrentIsLatest
  <2>9. OneAtWork'
    BY <1>1, <1>3, <2>6 DEF RunnerInv, OneAtWork, AtWork, JobOf
  <2>10. (Loaded' <=> Loaded) /\ (Settled' <=> Settled)
    BY <1>3, <2>6 DEF Loaded, Settled
  <2>11. ListedIsTable'
    BY <1>1, <1>3, <2>4, <2>5, <2>6, <2>10 DEF RunnerInv, ListedIsTable
  <2>12. JobsRead'
    <3>1. \A j \in jobs : j.schedule \in Schedule
      BY DEF RunnerInv, Typed, TypeOK, Job
    <3> QED
      BY <1>1, <2>3, <2>10, <3>1 DEF RunnerInv, JobsRead
  <2>13. NextWritten'
    <3> SUFFICES ASSUME Settled, "next" \notin missed', NEW k \in Schedule, rows[k].state = "on",
                        k # i, rows[k].next # rows[k].expr
                 PROVE  \E q \in Reloader : pc[q] = "next" /\ <<k, rows[k].expr>> \in todo'[q]
      BY <1>3, <2>3, <2>10 DEF NextWritten
    <3>1. PICK q \in Reloader : pc[q] = "next" /\ <<k, rows[k].expr>> \in todo[q]
      BY <2>3 DEF RunnerInv, NextWritten
    <3>2. <<k, rows[k].expr>> # e
      BY <2>1
    <3> QED
      BY <2>5, <3>1, <3>2
  <2> QED
    BY <2>7, <2>8, <2>9, <2>11, <2>12, <2>13 DEF RunnerInv
<1> QED
  BY <1>2, <1>3 DEF WriteNext

\* The steps of Run after its reload.
LEMMA BootInv ==
  ASSUME RunnerInv, Typed', BootReads \/ BootStarts \/ BootStops \/ BootReturns
  PROVE  RunnerInv'
<1> USE Names
<1>1. UNCHANGED <<rows, current, todo, jobs, missed>>
  BY DEF BootReads, BootStarts, BootStops, BootReturns
<1>2. PICK l \in {"start", "up", "stopping", "down"} :
        \A q \in Reloader : pc'[q] = IF q = Boot THEN l ELSE pc[q]
  BY Moves DEF BootReads, BootStarts, BootStops, BootReturns, RunnerInv
<1>3. pc[Boot] \in {"grab", "start", "up", "stopping"}
  BY DEF BootReads, BootStarts, BootStops, BootReturns
<1>4. EnabledRows' = EnabledRows
  BY <1>1, SameTable
<1>5. current \in DOMAIN crons
  BY <1>3, InUse
<1>6. /\ Len(crons') = Len(crons) /\ DOMAIN crons' = DOMAIN crons
      /\ \A g \in DOMAIN crons : /\ crons'[g].entries = crons[g].entries
                                 /\ crons'[g].running /\ ~crons[g].running
                                      => BootStarts /\ g = held[Boot].fresh
      /\ BootStarts => crons'[held[Boot].fresh].running \/ held[Boot].fresh \notin DOMAIN crons
  <2>1. CASE BootReads \/ BootReturns
    BY <2>1 DEF BootReads, BootReturns, BootStarts
  <2>2. CASE BootStarts
    <3>1. /\ Len(crons') = Len(crons) /\ DOMAIN crons' = DOMAIN crons
          /\ \A g \in DOMAIN crons :
               /\ crons'[g].entries = crons[g].entries
               /\ crons'[g].running = IF g = held[Boot].fresh THEN TRUE ELSE crons[g].running
      BY <2>2, TypedFacts, Switched DEF BootStarts, RunnerInv
    <3> QED
      BY <2>2, <3>1
  <2>3. CASE BootStops
    <3>1. /\ Len(crons') = Len(crons) /\ DOMAIN crons' = DOMAIN crons
          /\ \A g \in DOMAIN crons :
               /\ crons'[g].entries = crons[g].entries
               /\ crons'[g].running = IF g = held[Boot].fresh THEN FALSE ELSE crons[g].running
      BY <2>3, TypedFacts, Switched DEF BootStops, RunnerInv
    <3> QED
      BY <2>3, <3>1 DEF BootStarts, BootStops
  <2> QED
    BY <2>1, <2>2, <2>3
<1>7. Starting' => Starting
  BY <1>2, <1>3 DEF Starting, BootReads, BootStarts, BootStops, BootReturns, Goto, RunnerInv,
    Typed, TypeOK
<1>8. BootStarts => /\ held[Boot].fresh = current /\ \A a \in Caller : pc[a] = "idle"
                    /\ jobs = {} /\ ~Starting'
  BY <1>2 DEF BootStarts, Starting, RunnerInv, CurrentIsLatest, OneCall, Goto, Typed, TypeOK
<1>9. OneCall'
  BY <1>2, <1>7 DEF RunnerInv, OneCall
<1>10. CurrentIsLatest'
  <2>1. pc'[Boot] = "start" => held'[Boot].fresh = current
    BY <1>3 DEF BootReads, BootStarts, BootStops, BootReturns, Goto, RunnerInv, Typed, TypeOK
  <2>2. \A a \in Caller : held'[a] = held[a]
    BY DEF BootReads, BootStarts, BootStops, BootReturns, RunnerInv, Typed, TypeOK
  <2> QED
    BY <1>1, <1>2, <1>3, <1>6, <1>7, <2>1, <2>2 DEF RunnerInv, CurrentIsLatest
<1>11. OneAtWork'
  <2>1. \A a \in Caller : held'[a] = held[a]
    BY DEF BootReads, BootStarts, BootStops, BootReturns, RunnerInv, Typed, TypeOK
  <2>2. ASSUME NEW g \in DOMAIN crons', crons'[g].running
        PROVE  AtWork(g)'
    <3>1. CASE crons[g].running
      BY <1>1, <1>2, <1>6, <1>7, <2>1, <2>2, <3>1 DEF RunnerInv, OneAtWork, AtWork
    <3>2. CASE ~crons[g].running
      <4>1. g = current /\ (\A a \in Caller : pc[a] = "idle") /\ ~Starting'
        BY <1>6, <1>8, <2>2, <3>2
      <4> QED
        BY <1>1, <1>2, <4>1 DEF AtWork
    <3> QED
      BY <3>1, <3>2
  <2>3. \A j \in jobs' : JobOf(j.cron)'
    BY <1>1, <1>2, <2>1 DEF RunnerInv, OneAtWork, JobOf
  <2> QED
    BY <2>2, <2>3 DEF OneAtWork
<1>12. (Loaded' <=> Loaded) /\ (Settled' <=> Settled)
  BY <1>1, <1>2, <1>3 DEF Loaded, Settled
<1>13. ListedIsTable'
  <2>1. pc'[Boot] = "up" => BootStarts
    BY <1>3 DEF BootReads, BootStarts, BootStops, BootReturns, Goto, RunnerInv, Typed, TypeOK
  <2>2. pc'[Boot] = "up" => crons'[current].running
    BY <1>5, <1>6, <1>8, <2>1
  <2> QED
    BY <1>1, <1>2, <1>4, <1>5, <1>6, <1>12, <2>2 DEF RunnerInv, ListedIsTable
<1>14. JobsRead'
  BY <1>1, <1>12 DEF RunnerInv, JobsRead
<1>15. NextWritten'
  BY <1>1, <1>2, <1>3, <1>12 DEF RunnerInv, NextWritten
<1> QED
  BY <1>9, <1>10, <1>11, <1>13, <1>14, <1>15 DEF RunnerInv

LEMMA RestartInv ==
  ASSUME Typed', Restart
  PROVE  RunnerInv'
<1> USE Names
<1>1. /\ \A q \in Reloader : pc'[q] = IF q = Boot THEN "list" ELSE "idle"
      /\ current' = 0 /\ jobs' = {} /\ missed' = {} /\ Len(crons') = 0 /\ DOMAIN crons' = {}
  BY EmptySeq DEF Restart
<1>2. OneCall'
  BY <1>1 DEF OneCall
<1>3. CurrentIsLatest'
  BY <1>1 DEF CurrentIsLatest, Starting
<1>4. OneAtWork'
  BY <1>1 DEF OneAtWork
<1>5. ~Loaded'
  BY <1>1 DEF Loaded
<1>6. ListedIsTable'
  BY <1>1, <1>5 DEF ListedIsTable, Settled
<1> QED
  BY <1>2, <1>3, <1>4, <1>5, <1>6 DEF RunnerInv, JobsRead, NextWritten, Settled

\* A job's steps leave the crons and the calls alone.
LEMMA JobInv ==
  ASSUME RunnerInv, Typed', UNCHANGED <<crons, current, pc, todo, held, missed>>,
         \A k \in Schedule : rows'[k].state = rows[k].state /\ rows'[k].expr = rows[k].expr,
         \A j \in jobs' : JobOf(j.cron), ~Starting,
         JobsRead',
         Settled => \A k \in Schedule :
           rows'[k].next = rows[k].next \/ (rows[k].state = "on" => rows'[k].next = rows[k].expr)
  PROVE  RunnerInv'
<1>1. EnabledRows' = EnabledRows
  BY SameTable
<1>2. (Starting' <=> Starting) /\ (Loaded' <=> Loaded) /\ (Settled' <=> Settled)
  BY DEF Starting, Loaded, Settled
<1>3. OneCall' /\ CurrentIsLatest'
  BY <1>2 DEF RunnerInv, OneCall, CurrentIsLatest
<1>4. OneAtWork'
  BY <1>2 DEF RunnerInv, OneAtWork, AtWork, JobOf
<1>5. ListedIsTable'
  BY <1>1, <1>2 DEF RunnerInv, ListedIsTable
<1>6. NextWritten'
  <2> SUFFICES ASSUME Settled, "next" \notin missed, NEW k \in Schedule, rows[k].state = "on",
                      rows'[k].next = rows[k].next
               PROVE  \/ rows[k].next = rows[k].expr
                      \/ \E p \in Reloader : pc[p] = "next" /\ <<k, rows[k].expr>> \in todo[p]
    BY <1>2 DEF NextWritten
  <2> QED
    BY DEF RunnerInv, NextWritten
<1> QED
  BY <1>3, <1>4, <1>5, <1>6 DEF RunnerInv

LEMMA JobsInv ==
  ASSUME RunnerInv, Typed',
         \/ \E g \in DOMAIN crons, i \in Schedule : JobStarts(g, i)
         \/ \E j \in jobs : JobReads(j) \/ JobQueues(j) \/ JobMarks(j)
  PROVE  RunnerInv'
<1>1. UNCHANGED <<crons, current, pc, todo, held, missed>>
  BY DEF JobStarts, JobReads, JobQueues, JobMarks
<1>2. Settled' <=> Settled
  BY <1>1 DEF Settled, Loaded
<1>3. jobs # {} => ~Starting
  BY DEF RunnerInv, CurrentIsLatest
<1>4. ASSUME NEW g \in DOMAIN crons, NEW i \in Schedule, JobStarts(g, i)
      PROVE  RunnerInv'
  <2>1. AtWork(g)
    BY <1>4 DEF JobStarts, RunnerInv, OneAtWork
  <2>2. JobOf(g) /\ ~Starting
    BY <2>1 DEF AtWork, JobOf
  <2> DEFINE k == [cron |-> g, schedule |-> i, phase |-> "get", expr |-> NoExpr]
  <2>3. k.cron = g /\ k.phase = "get" /\ jobs' = jobs \cup {k} /\ rows' = rows
    BY <1>4 DEF JobStarts
  <2> HIDE DEF k
  <2>4. \A j \in jobs' : JobOf(j.cron)
    BY <2>2, <2>3 DEF RunnerInv, OneAtWork
  <2>5. JobsRead'
    BY <1>2, <2>3 DEF RunnerInv, JobsRead
  <2> QED
    BY <1>1, <2>2, <2>3, <2>4, <2>5, JobInv
<1>5. ASSUME NEW j \in jobs, JobReads(j)
      PROVE  RunnerInv'
  <2> DEFINE x == rows[j.schedule].expr
             k == [[j EXCEPT !.phase = "queue"] EXCEPT !.expr = x]
  <2>1. j \in Job
    BY DEF RunnerInv, Typed, TypeOK
  <2>2. k.cron = j.cron /\ k.schedule = j.schedule /\ k.expr = x
    BY <2>1 DEF Job
  <2>3. /\ rows' = rows
        /\ \/ rows[j.schedule].state = "on" /\ jobs' = (jobs \ {j}) \cup {k}
           \/ jobs' = jobs \ {j}
    BY <1>5 DEF JobReads
  <2> HIDE DEF k
  <2>4. \A m \in jobs' : JobOf(m.cron)
    BY <2>2, <2>3 DEF RunnerInv, OneAtWork
  <2>5. JobsRead'
    BY <1>2, <2>2, <2>3 DEF RunnerInv, JobsRead
  <2> QED
    BY <1>1, <1>3, <2>3, <2>4, <2>5, JobInv
<1>6. ASSUME NEW j \in jobs, JobQueues(j)
      PROVE  RunnerInv'
  <2> DEFINE k == [j EXCEPT !.phase = "mark"]
  <2>1. j \in Job
    BY DEF RunnerInv, Typed, TypeOK
  <2>2. k.cron = j.cron /\ k.schedule = j.schedule /\ k.expr = j.expr
    BY <2>1 DEF Job
  <2>3. /\ rows' = rows /\ j.phase = "queue"
        /\ jobs' = (jobs \ {j}) \cup {k} \/ jobs' = jobs \ {j}
    BY <1>6 DEF JobQueues
  <2> HIDE DEF k
  <2>4. \A m \in jobs' : JobOf(m.cron)
    BY <2>2, <2>3 DEF RunnerInv, OneAtWork
  <2>5. JobsRead'
    BY <1>2, <2>2, <2>3 DEF RunnerInv, JobsRead
  <2> QED
    BY <1>1, <1>3, <2>3, <2>4, <2>5, JobInv
<1>7. ASSUME NEW j \in jobs, JobMarks(j)
      PROVE  RunnerInv'
  <2> DEFINE i == j.schedule
             x == j.expr
  <2>1. i \in Schedule /\ j.phase = "mark" /\ jobs' = jobs \ {j}
        /\ (rows' = (IF Exists(i) THEN [rows EXCEPT ![i].next = x] ELSE rows) \/ rows' = rows)
    BY <1>7 DEF JobMarks, Job, RunnerInv, Typed, TypeOK
  <2>2. Settled => rows[i].state = "on" /\ x = rows[i].expr
    BY <2>1 DEF RunnerInv, JobsRead
  <2> HIDE DEF i, x
  <2>3. /\ \A k \in Schedule : /\ rows'[k].state = rows[k].state /\ rows'[k].expr = rows[k].expr
                               /\ k # i => rows'[k].next = rows[k].next
        /\ rows'[i].next = x \/ rows' = rows
    <3>1. CASE rows' = rows
      BY <3>1
    <3>2. CASE rows' = (IF Exists(i) THEN [rows EXCEPT ![i].next = x] ELSE rows) /\ rows' # rows
      BY <2>1, <3>2, NextOnly DEF RunnerInv
    <3> QED
      BY <2>1, <3>1, <3>2
  <2>4. \A m \in jobs' : JobOf(m.cron)
    BY <2>1 DEF RunnerInv, OneAtWork
  <2>5. JobsRead'
    <3>1. \A m \in jobs : m.schedule \in Schedule
      BY DEF RunnerInv, Typed, TypeOK, Job
    <3> QED
      BY <1>2, <2>1, <2>3, <3>1 DEF RunnerInv, JobsRead
  <2>6. Settled => \A k \in Schedule :
          rows'[k].next = rows[k].next \/ (rows[k].state = "on" => rows'[k].next = rows[k].expr)
    BY <2>2, <2>3
  <2> QED
    BY <1>1, <1>3, <2>3, <2>4, <2>5, <2>6, JobInv
<1> QED
  BY <1>4, <1>5, <1>6, <1>7

LEMMA RunnerNext ==
  ASSUME ~EarlyCalls, ~Overlap, RunnerInv, [Next]_vars
  PROVE  RunnerInv'
<1>1. Typed'
  BY NextKeepsTypes DEF RunnerInv
<1>2. CASE UNCHANGED vars
  BY <1>2 DEF vars, RunnerInv, Typed, TypeOK, RoomForCrons, Building, OneCall, Starting,
    CurrentIsLatest, OneAtWork, AtWork, JobOf, ListedIsTable, Loaded, Settled, JobsRead,
    NextWritten, EnabledRows
<1>3. ASSUME NEW a \in Caller, NEW i \in Schedule,
             \/ \E x \in Expr, enabled \in BOOLEAN :
                  Create(a, i, x, enabled) \/ Update(a, i, x, enabled)
             \/ Delete(a, i)
      PROVE  RunnerInv'
  <2>1. MayCall(a) /\ Goto(a, "list") /\ UNCHANGED <<crons, current, todo, held, jobs, missed>>
    BY <1>3 DEF Create, Update, Delete
  <2> QED
    BY <1>1, <2>1, CallInv
<1> QED
  BY <1>1, <1>2, <1>3, ListInv, ListFailsInv, SwapInv, StopOldInv, StartFreshInv, WriteNextInv,
     BootInv, RestartInv, JobsInv DEF Next

THEOREM RunnerCorrect ==
  ASSUME ~EarlyCalls, ~Overlap
  PROVE  Spec => []RunnerInv
<1>1. Init => RunnerInv
  BY InitInv
<1>2. RunnerInv /\ [Next]_vars => RunnerInv'
  BY RunnerNext
<1> QED
  BY <1>1, <1>2, PTL DEF Spec

\* As long as calls do not overlap, no two crons are at work, whenever reloads, jobs, the
\* shutdown and restarts come between each other.
THEOREM OneCronCorrect ==
  ASSUME ~EarlyCalls, ~Overlap
  PROVE  Spec => []OneCronRuns
<1>1. RunnerInv => OneCronRuns
  <2> SUFFICES ASSUME RunnerInv
               PROVE  OneCronRuns
    OBVIOUS
  <2> DEFINE R == {g \in DOMAIN crons : crons[g].running}
  <2>1. \A g, h \in R : g = h
    BY DEF RunnerInv, OneAtWork, AtWork
  <2>2. R = {} \/ \E g \in R : R = {g}
    BY <2>1
  <2> HIDE DEF R
  <2>3. Cardinality(R) <= 1
    <3>1. Cardinality({}) = 0 /\ \A g : Cardinality({g}) = 1
      BY FS_EmptySet, FS_Singleton
    <3> QED
      BY <2>2, <3>1
  <2> QED
    BY <2>3 DEF R, OneCronRuns
<1> QED
  BY <1>1, RunnerCorrect, PTL

\* Once a call has returned, the cron in use runs and fires what is enabled, with the
\* expressions the table has now.
THEOREM CronCorrect ==
  ASSUME ~EarlyCalls, ~Overlap
  PROVE  Spec => []CronMatchesTable
<1>1. RunnerInv => CronMatchesTable
  BY DEF RunnerInv, ListedIsTable, Loaded, Settled, CronMatchesTable, Quiescent
<1> QED
  BY <1>1, RunnerCorrect, PTL

\* Once a call has returned, no job goes on with what its row said before.
THEOREM JobsCorrect ==
  ASSUME ~EarlyCalls, ~Overlap
  PROVE  Spec => []JobsAreCurrent
<1>1. RunnerInv => JobsAreCurrent
  BY DEF RunnerInv, JobsRead, Loaded, Settled, JobsAreCurrent, Quiescent
<1> QED
  BY <1>1, RunnerCorrect, PTL

\* Once a call has returned, next_run_at of every enabled row follows from its expression,
\* whichever of Reload and fire has written it last.
THEOREM NextRunCorrect ==
  ASSUME ~EarlyCalls, ~Overlap
  PROVE  Spec => []NextRunIsCurrent
<1>1. RunnerInv => NextRunIsCurrent
  BY Names DEF RunnerInv, NextWritten, Loaded, Settled, NextRunIsCurrent, Quiescent, Reloader
<1> QED
  BY <1>1, RunnerCorrect, PTL
-----------------------------------------------------------------------------
(* Who waits, and for whom: a call and the shutdown wait for the jobs of a  *)
(* cron that has stopped, of which there are less and less.                 *)

\* The cron whose jobs a call, or the shutdown, waits for.
WaitsFor(p) ==
  IF pc[p] = "wait" THEN held[p].old
  ELSE IF p = Boot /\ pc[p] = "stopping" THEN held[p].fresh ELSE 0

StepsLeft(j) ==
  CASE j.phase = "get" -> 3 [] j.phase = "queue" -> 2 [] j.phase = "mark" -> 1

\* No job joins those that are waited for; a job only comes nearer to its end, or has ended.
WaitsShrink ==
  [][\A p \in Reloader : WaitsFor(p) # 0 /\ WaitsFor(p)' # 0 =>
       /\ WaitsFor(p)' = WaitsFor(p)
       /\ \A j \in jobs' : j.cron = WaitsFor(p) =>
            \/ j \in jobs
            \/ \E k \in jobs \ jobs' : k.cron = j.cron /\ StepsLeft(j) < StepsLeft(k)]_vars

\* The cron Run has started is none that a call is about to start, and once Run has stopped it
\* nobody starts it again.
RunOwnsFirst ==
  /\ pc[Boot] \in {"start", "up", "stopping"} => held[Boot].fresh \in 1 .. Len(crons)
  /\ pc[Boot] \in {"up", "stopping"} =>
       \A a \in Caller : pc[a] \in {"stop", "wait"} => held[a].fresh # held[Boot].fresh
  /\ pc[Boot] = "stopping" => ~crons[held[Boot].fresh].running

LEMMA FirstInit == Init => RunOwnsFirst
  BY DEF Init, RunOwnsFirst, Reloader

LEMMA FirstNext ==
  ASSUME ~EarlyCalls, ~Overlap, RunnerInv, RunOwnsFirst, [Next]_vars
  PROVE  RunOwnsFirst'
<1> USE Names DEF RunnerInv, Typed, TypeOK
<1>1. CASE UNCHANGED vars
  BY <1>1 DEF vars, RunOwnsFirst
<1>2. ASSUME NEW a \in Caller, Goto(a, "list"), UNCHANGED <<crons, held>>
      PROVE  RunOwnsFirst'
  BY <1>2 DEF RunOwnsFirst, Goto
<1>3. ASSUME NEW p \in Reloader, ListEnabled(p) \/ ListFails(p) \/ WriteNext(p)
      PROVE  RunOwnsFirst'
  BY <1>3 DEF RunOwnsFirst, Goto, ListEnabled, ListFails, WriteNext, Returned
<1>4. ASSUME NEW p \in Reloader, Swap(p)
      PROVE  RunOwnsFirst'
  <2>1. /\ Len(crons') = Len(crons) + 1 /\ held'[p].fresh = Len(crons) + 1
        /\ \A g \in 1 .. Len(crons) : crons'[g] = crons[g]
        /\ \A q \in Reloader : q # p => held'[q] = held[q] /\ pc'[q] = pc[q]
        /\ pc[p] = "swap" /\ pc'[p] \in {"next", "stop"}
    BY <1>4 DEF Swap, Goto
  <2>2. p = Boot => pc'[Boot] = "next"
    BY <1>4 DEF Swap, Goto, CurrentIsLatest
  <2>3. CASE p = Boot
    BY <2>2, <2>3 DEF RunOwnsFirst
  <2>4. CASE p # Boot
    <3>1. pc'[Boot] = pc[Boot] /\ held'[Boot] = held[Boot]
      BY <2>1, <2>4
    <3>2. ASSUME pc[Boot] \in {"start", "up", "stopping"}
          PROVE  /\ held[Boot].fresh \in 1 .. Len(crons) /\ held[Boot].fresh \in 1 .. Len(crons')
                 /\ crons'[held[Boot].fresh] = crons[held[Boot].fresh]
                 /\ held[Boot].fresh # held'[p].fresh
      BY <2>1, <3>2 DEF RunOwnsFirst
    <3>3. ASSUME pc[Boot] \in {"up", "stopping"}, NEW a \in Caller, pc'[a] \in {"stop", "wait"}
          PROVE  held'[a].fresh # held[Boot].fresh
      BY <2>1, <3>2, <3>3 DEF RunOwnsFirst
    <3> QED
      BY <3>1, <3>2, <3>3 DEF RunOwnsFirst
  <2> QED
    BY <2>3, <2>4
<1>5. ASSUME NEW p \in Reloader, StopOld(p) \/ StartFresh(p)
      PROVE  RunOwnsFirst'
  <2>1. p \in Caller
    BY <1>5 DEF OneCall, StopOld, StartFresh, Reloader
  <2>2. /\ held' = held /\ pc'[Boot] = pc[Boot] /\ pc[p] \in {"stop", "wait"}
        /\ \A a \in Caller : pc'[a] \in {"stop", "wait"} => pc[a] \in {"stop", "wait"}
    BY <1>5, <2>1 DEF StopOld, StartFresh, Goto
  <2>3. Len(crons') = Len(crons)
    BY <1>5 DEF StopOld, StartFresh
  <2>4. ASSUME pc[Boot] = "stopping"
        PROVE  ~crons'[held[Boot].fresh].running
    <3>1. /\ held[Boot].fresh \in DOMAIN crons /\ ~crons[held[Boot].fresh].running
          /\ held[p].fresh # held[Boot].fresh
      BY <2>1, <2>2, <2>4 DEF RunOwnsFirst
    <3>2. CASE StopOld(p)
      BY <3>1, <3>2 DEF StopOld
    <3>3. CASE StartFresh(p)
      BY <3>1, <3>3 DEF StartFresh
    <3> QED
      BY <1>5, <3>2, <3>3
  <2> QED
    BY <2>2, <2>3, <2>4 DEF RunOwnsFirst
<1>6. CASE BootReads \/ BootStarts \/ BootStops \/ BootReturns
  <2>1. CASE BootReads
    <3>1. Len(crons) > 0 /\ current \in 1 .. Len(crons)
      BY <2>1 DEF BootReads, CurrentIsLatest
    <3> QED
      BY <2>1, <3>1 DEF BootReads, Goto, RunOwnsFirst
  <2>2. CASE BootStarts
    <3>1. \A a \in Caller : pc[a] = "idle"
      BY <2>2 DEF BootStarts, OneCall, Starting
    <3> QED
      BY <2>2, <3>1 DEF BootStarts, Goto, RunOwnsFirst
  <2>3. CASE BootStops
    BY <2>3 DEF BootStops, Goto, RunOwnsFirst
  <2>4. CASE BootReturns
    BY <2>4 DEF BootReturns, Goto, RunOwnsFirst
  <2> QED
    BY <1>6, <2>1, <2>2, <2>3, <2>4
<1>7. CASE Restart
  BY <1>7 DEF Restart, RunOwnsFirst
<1>8. CASE UNCHANGED <<crons, pc, held>>
  BY <1>8 DEF RunOwnsFirst
<1>9. ASSUME NEW a \in Caller, NEW i \in Schedule,
             \/ \E x \in Expr, enabled \in BOOLEAN :
                  Create(a, i, x, enabled) \/ Update(a, i, x, enabled)
             \/ Delete(a, i)
      PROVE  RunOwnsFirst'
  BY <1>2, <1>9 DEF Create, Update, Delete
<1>10. CASE \/ \E g \in DOMAIN crons, i \in Schedule : JobStarts(g, i)
            \/ \E j \in jobs : JobReads(j) \/ JobQueues(j) \/ JobMarks(j)
  BY <1>8, <1>10 DEF JobStarts, JobReads, JobQueues, JobMarks
<1> QED
  BY <1>1, <1>3, <1>4, <1>5, <1>6, <1>7, <1>9, <1>10 DEF Next

\* What is waited for does not run, so it starts no job.
LEMMA WaitedForIsOver ==
  ASSUME RunnerInv, RunOwnsFirst, NEW p \in Reloader, WaitsFor(p) # 0,
         NEW g \in DOMAIN crons, crons[g].running
  PROVE  g # WaitsFor(p)
<1>1. CASE pc[p] = "wait"
  BY <1>1, Names DEF RunnerInv, OneAtWork, AtWork, OneCall, Reloader
<1>2. CASE p = Boot /\ pc[p] = "stopping"
  BY <1>2 DEF RunOwnsFirst, WaitsFor
<1> QED
  BY <1>1, <1>2 DEF WaitsFor

\* Who waits goes on waiting for the same cron, until it does not wait any more.
LEMMA WaitsForSame ==
  ASSUME RunnerInv, [Next]_vars, NEW p \in Reloader, WaitsFor(p) # 0, WaitsFor(p)' # 0
  PROVE  WaitsFor(p)' = WaitsFor(p)
<1> USE Names DEF RunnerInv, Typed, TypeOK
<1> DEFINE stays == pc'[p] = pc[p] /\ held'[p] = held[p]
           goes == pc'[p] \in {"next", "down", "list", "idle"}
<1>1. pc[p] = "wait" \/ (p = Boot /\ pc[p] = "stopping")
  BY DEF WaitsFor
<1>2. stays \/ goes
  <2>1. CASE UNCHANGED vars
    BY <2>1 DEF vars
  <2>2. ASSUME NEW a \in Caller, NEW i \in Schedule,
               \/ \E x \in Expr, enabled \in BOOLEAN :
                    Create(a, i, x, enabled) \/ Update(a, i, x, enabled)
               \/ Delete(a, i)
        PROVE  stays \/ goes
    <3>1. pc[a] = "idle" /\ Goto(a, "list") /\ UNCHANGED held
      BY <2>2 DEF Create, Update, Delete, MayCall
    <3> QED
      BY <1>1, <3>1 DEF Goto
  <2>3. ASSUME NEW q \in Reloader,
               \/ ListEnabled(q) \/ ListFails(q) \/ Swap(q)
               \/ StopOld(q) \/ StartFresh(q) \/ WriteNext(q)
        PROVE  stays \/ goes
    <3>1. CASE q = p
      BY <1>1, <2>3, <3>1 DEF ListEnabled, ListFails, Swap, StopOld, StartFresh, WriteNext, Goto
    <3>2. CASE q # p
      BY <2>3, <3>2 DEF ListEnabled, ListFails, Swap, StopOld, StartFresh, WriteNext, Goto
    <3> QED
      BY <3>1, <3>2
  <2>4. CASE BootReads \/ BootStarts \/ BootStops \/ BootReturns
    BY <1>1, <2>4 DEF BootReads, BootStarts, BootStops, BootReturns, Goto
  <2>5. CASE Restart
    BY <2>5 DEF Restart
  <2>6. CASE \/ \E g \in DOMAIN crons, i \in Schedule : JobStarts(g, i)
             \/ \E j \in jobs : JobReads(j) \/ JobQueues(j) \/ JobMarks(j)
    BY <2>6 DEF JobStarts, JobReads, JobQueues, JobMarks
  <2> QED
    BY <2>1, <2>2, <2>3, <2>4, <2>5, <2>6 DEF Next
<1> QED
  BY <1>1, <1>2 DEF WaitsFor

\* A step of a job brings that job nearer to its end, and no other one.
LEMMA JobsEnd ==
  ASSUME Typed, NEW p \in Reloader, NEW k \in jobs, JobReads(k) \/ JobQueues(k) \/ JobMarks(k),
         NEW j \in jobs', j \notin jobs
  PROVE  k \in jobs \ jobs' /\ k.cron = j.cron /\ StepsLeft(j) < StepsLeft(k)
<1>1. k \in Job
  BY DEF Typed, TypeOK
<1>2. CASE JobReads(k)
  <2>1. /\ k.phase = "get" /\ j = [k EXCEPT !.phase = "queue", !.expr = rows[k.schedule].expr]
        /\ jobs' = (jobs \ {k}) \cup {j}
    BY <1>2 DEF JobReads
  <2>2. j.phase = "queue" /\ j.cron = k.cron /\ j # k
    BY <1>1, <2>1 DEF Job
  <2> QED
    BY <2>1, <2>2 DEF StepsLeft
<1>3. CASE JobQueues(k)
  <2>1. /\ k.phase = "queue" /\ j = [k EXCEPT !.phase = "mark"]
        /\ jobs' = (jobs \ {k}) \cup {j}
    BY <1>3 DEF JobQueues
  <2>2. j.phase = "mark" /\ j.cron = k.cron /\ j # k
    BY <1>1, <2>1 DEF Job
  <2> QED
    BY <2>1, <2>2 DEF StepsLeft
<1>4. CASE JobMarks(k)
  BY <1>4 DEF JobMarks
<1> QED
  BY <1>2, <1>3, <1>4

LEMMA WaitsStep ==
  ASSUME RunnerInv, RunOwnsFirst, [Next]_vars,
         NEW p \in Reloader, WaitsFor(p) # 0, WaitsFor(p)' # 0,
         NEW j \in jobs', j.cron = WaitsFor(p), j \notin jobs
  PROVE  \E k \in jobs \ jobs' : k.cron = j.cron /\ StepsLeft(j) < StepsLeft(k)
<1>1. CASE \E k \in jobs : JobReads(k) \/ JobQueues(k) \/ JobMarks(k)
  BY <1>1, JobsEnd DEF RunnerInv
<1>2. ASSUME NEW g \in DOMAIN crons, NEW i \in Schedule, JobStarts(g, i)
      PROVE  FALSE
  <2>1. crons[g].running /\ j.cron = g
    BY <1>2 DEF JobStarts
  <2> QED
    BY <2>1, WaitedForIsOver
<1>3. CASE Restart
  BY <1>3 DEF Restart
<1>4. CASE UNCHANGED jobs
  BY <1>4
<1>5. \/ UNCHANGED jobs \/ Restart
      \/ \E k \in jobs : JobReads(k) \/ JobQueues(k) \/ JobMarks(k)
      \/ \E g \in DOMAIN crons, i \in Schedule : JobStarts(g, i)
  BY DEF Next, vars, Create, Update, Delete, ListEnabled, ListFails, Swap, StopOld, StartFresh,
     WriteNext, BootReads, BootStarts, BootStops, BootReturns
<1> QED
  BY <1>1, <1>2, <1>3, <1>4, <1>5

\* What a call waits for after its swap, and the shutdown after its stop, comes to its end as
\* long as jobs do: the cron is one that nobody starts again, so no job is added (Reload stops
\* the old cron before it waits for it). With overlapping calls this is not so.
THEOREM WaitsCorrect ==
  ASSUME ~EarlyCalls, ~Overlap
  PROVE  Spec => WaitsShrink
<1> DEFINE shrinks ==
      \A p \in Reloader : WaitsFor(p) # 0 /\ WaitsFor(p)' # 0 =>
        /\ WaitsFor(p)' = WaitsFor(p)
        /\ \A j \in jobs' : j.cron = WaitsFor(p) =>
             \/ j \in jobs
             \/ \E k \in jobs \ jobs' : k.cron = j.cron /\ StepsLeft(j) < StepsLeft(k)
<1>1. RunnerInv /\ RunOwnsFirst /\ [Next]_vars => [shrinks]_vars
  BY WaitsForSame, WaitsStep
<1>2. RunnerInv /\ RunOwnsFirst /\ [Next]_vars => RunOwnsFirst'
  BY FirstNext
<1>3. Spec => []RunnerInv
  BY RunnerCorrect
<1>4. Init => RunOwnsFirst
  BY FirstInit
<1> HIDE DEF shrinks
<1>5. Spec => [][shrinks]_vars
  BY <1>1, <1>2, <1>3, <1>4, PTL DEF Spec
<1> QED
  BY <1>5 DEF WaitsShrink, shrinks
=============================================================================
