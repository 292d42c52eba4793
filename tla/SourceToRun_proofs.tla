-------------------------- MODULE SourceToRun_proofs ------------------------
(***************************************************************************)
(* From the branch to the process, for any number of syncs, commits,       *)
(* versions, workers, executions and crashes: the source on record can be  *)
(* downloaded, an execution runs what was on record when it was            *)
(* dispatched, and in an environment that has its packages.                *)
(***************************************************************************)
EXTENDS SourceToRun, TLAPS

-----------------------------------------------------------------------------
(* Types.                                                                  *)

Row == [life : {"none", "live", "deleted"}, url : BOOLEAN, key : {0} \cup Version,
        version : {0} \cup Version, commit : Commit \cup {NoCommit}]

Call == [pc : {"idle", "clone", "upload", "mark", "failed"},
         version : 0 .. MaxVersion - 1, commit : Commit \cup {NoCommit}]

Execution == [pc : {"idle", "prepare", "resolve", "locked", "venv", "install", "run"},
              worker : Worker \cup {NoWorker}, key : Nat, source : Source \cup {NoSource},
              python : {"none", "system", "venv"}, meant : Source \cup {NoSource}]

\* The steps of the sources, one by one.
LEMMA SourceSteps ==
  ASSUME SourcesNext
  PROVE  \/ \E url \in BOOLEAN : Create(url) \/ Update(url)
         \/ Delete \/ Push
         \/ \E c \in Syncer : \/ SyncBegins(c) \/ Clone(c) \/ Upload(c) \/ Fails(c)
                              \/ MarkSynced(c) \/ MarkSyncFailed(c) \/ SyncLost(c)
BY DEF SourcesNext, Post, Patch

\* The steps of the system, one by one.
LEMMA Steps ==
  ASSUME [Next]_vars
  PROVE  \/ UNCHANGED vars
         \/ SourcesNext /\ UNCHANGED prepVars
         \/ \E e \in Exec : \/ \E w \in Worker : Dispatch(e, w)
                            \/ Download(e) \/ DownloadFails(e)
                            \/ Resolve(e) /\ UNCHANGED sourceVars
                            \/ RunEnds(e)
         \/ \E w \in Worker : Crash(w)
BY DEF Next, ResolveStep

LEMMA NewKeyType ==
  ASSUME SourcesTypeOK, NEW c \in Syncer
  PROVE  /\ sync[c] \in Call /\ sync[c].version \in 0 .. MaxVersion - 1
         /\ NewKey(c) \in Version /\ NewKey(c) = sync[c].version + 1
<1>1. sync[c] \in Call
  BY DEF SourcesTypeOK, Call
<1>2. sync[c].version \in 0 .. MaxVersion - 1
  BY <1>1 DEF Call
<1> QED
  BY <1>1, <1>2, SourcesAssumption DEF NewKey, Version

LEMMA NoSyncType == NoSync \in Call /\ NoSync.pc = "idle"
BY SourcesAssumption DEF NoSync, Call

LEMMA SourcesTypeInit == SourcesInit => SourcesTypeOK
<1> SUFFICES ASSUME SourcesInit PROVE SourcesTypeOK
  OBVIOUS
<1>0. 1 \in 1 .. MaxCommit
  BY SourcesAssumption
<1>1. head \in Commit /\ overlapped \in BOOLEAN
  BY <1>0 DEF SourcesInit, Commit
<1>2. spider \in Row
  BY DEF SourcesInit, Row
<1>3. archive \in [Version -> Commit \cup {NoCommit}] /\ sync \in [Syncer -> Call]
  BY NoSyncType DEF SourcesInit
<1> QED
  BY <1>1, <1>2, <1>3 DEF SourcesTypeOK, Row, Call

LEMMA SourcesTypeStep ==
  ASSUME SourcesTypeOK, SourcesNext
  PROVE  SourcesTypeOK'
<1> USE SourcesAssumption
<1>a. /\ spider \in Row /\ head \in Commit /\ overlapped \in BOOLEAN
      /\ archive \in [Version -> Commit \cup {NoCommit}]
      /\ sync \in [Syncer -> Call]
  BY DEF SourcesTypeOK, Row, Call
<1>b. ASSUME head' \in Commit, spider' \in Row, archive' \in [Version -> Commit \cup {NoCommit}],
             sync' \in [Syncer -> Call], overlapped' \in BOOLEAN
      PROVE  SourcesTypeOK'
  BY <1>b DEF SourcesTypeOK, Row, Call
<1>1. ASSUME NEW url \in BOOLEAN, Create(url) \/ Update(url)
      PROVE  SourcesTypeOK'
  <2>1. spider' \in Row
    BY <1>1, <1>a DEF Create, Update, InsertedRow, UpdatedRow, Row
  <2> QED
    BY <1>1, <1>a, <1>b, <2>1 DEF Create, Update
<1>2. CASE Delete
  <2>1. spider' \in Row
    BY <1>2, <1>a DEF Delete, DeletedRow, Row
  <2> QED
    BY <1>2, <1>a, <1>b, <2>1 DEF Delete
<1>3. CASE Push
  BY <1>3, <1>a, <1>b DEF Push, Commit
<1>4. ASSUME NEW c \in Syncer, SyncBegins(c)
      PROVE  SourcesTypeOK'
  <2>1. spider.version \in 0 .. MaxVersion - 1
    BY <1>4, <1>a DEF SyncBegins, Row, Version
  <2>2. [NoSync EXCEPT !.pc = "clone", !.version = spider.version] \in Call
    BY <2>1 DEF NoSync, Call
  <2>3. sync' \in [Syncer -> Call]
    BY <1>4, <1>a, <2>2 DEF SyncBegins
  <2> QED
    BY <1>4, <1>a, <1>b, <2>3 DEF SyncBegins
<1>5. ASSUME NEW c \in Syncer, Clone(c)
      PROVE  SourcesTypeOK'
  <2>1. sync' \in [Syncer -> Call]
    BY <1>5, <1>a DEF Clone, Call
  <2> QED
    BY <1>5, <1>a, <1>b, <2>1 DEF Clone
<1>6. ASSUME NEW c \in Syncer, Upload(c) \/ Fails(c)
      PROVE  SourcesTypeOK'
  <2>1. sync' \in [Syncer -> Call]
    <3>1. [NoSync EXCEPT !.pc = "failed"] \in Call
      BY SourcesAssumption DEF NoSync, Call
    <3> QED
      BY <3>1, <1>6, <1>a DEF Upload, Fails, Call
  <2>2. sync[c].commit \in Commit \cup {NoCommit}
    BY <1>a DEF Call
  <2>3. archive' \in [Version -> Commit \cup {NoCommit}]
    BY <1>6, <1>a, <2>2 DEF Upload, Fails
  <2> QED
    BY <1>6, <1>a, <1>b, <2>1, <2>3 DEF Upload, Fails
<1>7. ASSUME NEW c \in Syncer, MarkSynced(c)
      PROVE  SourcesTypeOK'
  <2>1. sync' \in [Syncer -> Call]
    BY <1>7, <1>a, NoSyncType DEF MarkSynced
  <2>2. sync[c].commit \in Commit \cup {NoCommit} /\ NewKey(c) \in Version
    BY <1>a, NewKeyType DEF Call
  <2>3. spider' \in Row
    BY <1>7, <1>a, <2>2 DEF MarkSynced, SyncedRow, Row
  <2> QED
    BY <1>7, <1>a, <1>b, <2>1, <2>3 DEF MarkSynced
<1>8. ASSUME NEW c \in Syncer, MarkSyncFailed(c) \/ SyncLost(c)
      PROVE  SourcesTypeOK'
  <2>1. sync' \in [Syncer -> Call]
    BY <1>8, <1>a, NoSyncType DEF MarkSyncFailed, SyncLost
  <2>2. spider' \in Row
    BY <1>8, <1>a DEF MarkSyncFailed, SyncLost, Row
  <2> QED
    BY <1>8, <1>a, <1>b, <2>1, <2>2 DEF MarkSyncFailed, SyncLost
<1> QED
  BY <1>1, <1>2, <1>3, <1>4, <1>5, <1>6, <1>7, <1>8, SourceSteps

LEMMA Downloads ==
  ASSUME exec \in [Exec -> Execution], NEW e \in Exec, Download(e)
  PROVE  exec' \in [Exec -> Execution] /\ exec'[e].pc = "resolve"
<1> DEFINE s == archive[exec[e].key]
           x == [exec[e] EXCEPT !.pc = "resolve", !.source = s, !.key = 0]
<1>1. s \in Source /\ exec' = [exec EXCEPT ![e] = x]
  BY DEF Download, PrepareDir
<1> HIDE DEF s
<1>2. x \in Execution /\ x.pc = "resolve"
  BY <1>1 DEF Execution
<1> HIDE DEF x
<1> QED
  BY <1>1, <1>2

LEMMA PreparationTypeInit == PreparationInit => PreparationTypeOK
<1> SUFFICES ASSUME PreparationInit PROVE PreparationTypeOK
  OBVIOUS
<1>1. NoExec \in Execution
  BY DEF NoExec, Execution
<1> QED
  BY <1>1, PreparationAssumption DEF PreparationInit, PreparationTypeOK, Execution

\* What a step of resolveInterpreter does to the executions.
LEMMA Resolves ==
  ASSUME exec \in [Exec -> Execution], NEW e \in Exec, Resolve(e)
  PROVE  /\ exec' \in [Exec -> Execution]
         /\ \A f \in Exec \ {e} : exec'[f] = exec[f]
         /\ \/ exec'[e] = NoExec
            \/ /\ exec'[e].pc \in {"locked", "venv", "install", "run"}
               /\ exec'[e].source = exec[e].source /\ exec'[e].meant = exec[e].meant
               /\ exec'[e].worker = exec[e].worker
<1>0. NoExec \in Execution
  BY DEF NoExec, Execution
<1>1. CASE UvFails(e)
  BY <1>0, <1>1 DEF UvFails
<1>2. ASSUME NEW pc \in {"locked", "venv", "install"}, exec' = [exec EXCEPT ![e].pc = pc]
      PROVE  /\ exec' \in [Exec -> Execution] /\ \A f \in Exec \ {e} : exec'[f] = exec[f]
             /\ exec'[e].pc = pc /\ exec'[e].source = exec[e].source
             /\ exec'[e].meant = exec[e].meant /\ exec'[e].worker = exec[e].worker
  BY <1>2 DEF Execution
<1>3. ASSUME NEW python \in {"system", "venv"},
             exec' = [exec EXCEPT ![e].pc = "run", ![e].python = python]
      PROVE  /\ exec' \in [Exec -> Execution] /\ \A f \in Exec \ {e} : exec'[f] = exec[f]
             /\ exec'[e].pc = "run" /\ exec'[e].source = exec[e].source
             /\ exec'[e].meant = exec[e].meant /\ exec'[e].worker = exec[e].worker
  <2> DEFINE x == [exec[e] EXCEPT !.pc = "run", !.python = python]
  <2>1. exec' = [exec EXCEPT ![e] = x]
    BY <1>3
  <2>2. /\ x \in Execution /\ x.pc = "run" /\ x.source = exec[e].source
        /\ x.meant = exec[e].meant /\ x.worker = exec[e].worker
    BY DEF Execution
  <2> HIDE DEF x
  <2> QED
    BY <2>1, <2>2
<1>4. CASE Lock(e)
  BY <1>2, <1>4 DEF Lock, TakesLock
<1>5. CASE CacheMiss(e)
  BY <1>2, <1>5 DEF CacheMiss
<1>6. CASE UvVenv(e)
  BY <1>2, <1>6 DEF UvVenv
<1>7. CASE SystemPython(e)
  BY <1>3, <1>7 DEF SystemPython
<1>8. CASE CacheHit(e) \/ UvPipInstall(e)
  BY <1>3, <1>8 DEF CacheHit, UvPipInstall, Runs
<1> QED
  BY <1>1, <1>4, <1>5, <1>6, <1>7, <1>8 DEF Resolve

\* Whoever holds a lock has requirements.
Holding == {"locked", "venv", "install"}

HasReqs == \A e \in Exec : exec[e].pc \in Holding => ReqsOf(e) \in Req

LEMMA ReqsOfExec ==
  ASSUME exec \in [Exec -> Execution], NEW e \in Exec
  PROVE  ReqsOf(e) \in Req \cup {NoReq}
BY PreparationAssumption DEF ReqsOf, Execution

\* What the composition does to an execution keeps its types.
LEMMA PreparationTypeStep ==
  ASSUME SourcesTypeOK, PreparationTypeOK, HasReqs, [Next]_vars
  PROVE  PreparationTypeOK'
<1> USE SourcesAssumption, PreparationAssumption, ComposedAssumption
<1>a. /\ exec \in [Exec -> Execution] /\ venv \in [Req -> {"none", "bare", "full"}]
      /\ lock \in [Req -> SUBSET Exec] /\ uv \in BOOLEAN /\ crashes \in 0 .. MaxCrashes
      /\ NoExec \in Execution /\ spoilt \subseteq Req
  BY DEF PreparationTypeOK, Execution, NoExec
<1>b. ASSUME exec' \in [Exec -> Execution], venv' \in [Req -> {"none", "bare", "full"}],
             lock' \in [Req -> SUBSET Exec], uv' \in BOOLEAN, crashes' \in 0 .. MaxCrashes,
             spoilt' \subseteq Req
      PROVE  PreparationTypeOK'
  BY <1>b DEF PreparationTypeOK, Execution
<1>1. CASE UNCHANGED prepVars
  BY <1>1, <1>a, <1>b DEF prepVars
<1>2. ASSUME NEW e \in Exec, NEW w \in Worker, Dispatch(e, w)
      PROVE  PreparationTypeOK'
  <2>1. spider.key \in Nat /\ spider.commit \in Source \cup {NoSource}
    BY DEF SourcesTypeOK, Version
  <2>2. [NoExec EXCEPT !.pc = "prepare", !.worker = w, !.key = spider.key,
                       !.meant = spider.commit] \in Execution
    BY <2>1 DEF NoExec, Execution
  <2>3. exec' \in [Exec -> Execution]
    BY <1>2, <1>a, <2>2 DEF Dispatch, Start
  <2> QED
    BY <1>2, <1>a, <1>b, <2>3 DEF Dispatch, Start
<1>3. ASSUME NEW e \in Exec, Download(e)
      PROVE  PreparationTypeOK'
  <2>1. exec' \in [Exec -> Execution]
    BY <1>3, <1>a, Downloads
  <2> QED
    BY <1>3, <1>a, <1>b, <2>1 DEF Download, PrepareDir
<1>4. ASSUME NEW e \in Exec, DownloadFails(e) \/ RunEnds(e)
      PROVE  PreparationTypeOK'
  <2>1. exec' \in [Exec -> Execution]
    BY <1>4, <1>a DEF DownloadFails, PrepareFails, RunEnds, Ends
  <2> QED
    BY <1>4, <1>a, <1>b, <2>1 DEF DownloadFails, PrepareFails, RunEnds, Ends
<1>5. ASSUME NEW e \in Exec, Resolve(e)
      PROVE  PreparationTypeOK'
  <2>1. exec' \in [Exec -> Execution]
    BY <1>5, <1>a, Resolves
  <2>2. venv' \in [Req -> {"none", "bare", "full"}]
    <3>1. CASE UvFails(e)
      <4>1. exec[e].pc \in Holding
        BY <3>1 DEF UvFails, Holding
      <4>2. venv[ReqsOf(e)] \in {"none", "bare", "full"}
        BY <1>a, <4>1 DEF HasReqs
      <4> QED
        BY <3>1, <1>a, <4>2 DEF UvFails
    <3> QED
      BY <1>5, <1>a, <3>1 DEF Resolve, SystemPython, Lock, TakesLock, CacheHit, CacheMiss,
                              UvVenv, UvPipInstall
  <2>3. lock' \in [Req -> SUBSET Exec]
    <3>1. CASE Lock(e)
      BY <3>1, <1>a DEF Lock, TakesLock
    <3>2. CASE CacheHit(e) \/ UvPipInstall(e) \/ UvFails(e)
      <4>1. Unlock(e)
        BY <3>2 DEF CacheHit, UvPipInstall, UvFails, Runs
      <4> QED
        BY <4>1, <1>a DEF Unlock
    <3> QED
      BY <1>5, <1>a, <3>1, <3>2 DEF Resolve, SystemPython, CacheMiss, UvVenv
  <2>4. uv' = uv /\ crashes' = crashes
    BY <1>5 DEF Resolve, SystemPython, Lock, TakesLock, CacheHit, CacheMiss, UvVenv,
                UvPipInstall, UvFails
  <2>5. spoilt' \subseteq Req
    <3>1. exec[e].pc \in Holding => ReqsOf(e) \in Req
      BY DEF HasReqs
    <3>2. CASE Lock(e)
      <4>1. ReqsOf(e) \in Req
        BY <3>2, <1>a, ReqsOfExec DEF Lock
      <4> QED
        BY <3>2, <1>a, <4>1 DEF Lock, TakesLock, Spoils
    <3>3. CASE CacheMiss(e)
      BY <3>1, <3>3, <1>a DEF CacheMiss, Holding, Spoils
    <3>4. CASE UvFails(e)
      BY <3>1, <3>4, <1>a DEF UvFails, Holding, Spoils
    <3> QED
      BY <1>5, <1>a, <3>2, <3>3, <3>4 DEF Resolve, SystemPython, CacheHit, UvVenv, UvPipInstall
  <2> QED
    BY <1>a, <1>b, <2>1, <2>2, <2>3, <2>4, <2>5
<1>6. ASSUME NEW w \in Worker, Crash(w)
      PROVE  PreparationTypeOK'
  <2>1. crashes' \in 0 .. MaxCrashes
    BY <1>6, <1>a DEF Crash, WorkerCrashes
  <2>2. venv' \in [Req -> {"none", "bare", "full"}]
    BY <1>6, <1>a DEF Crash, WorkerCrashes
  <2>3. exec' \in [Exec -> Execution] /\ lock' \in [Req -> SUBSET Exec]
    BY <1>6, <1>a DEF Crash, WorkerCrashes
  <2>4. \A e \in Exec : exec[e].pc = "venv" \/ exec[e].pc = "install" => ReqsOf(e) \in Req
    BY DEF HasReqs, Holding
  <2>5. spoilt' \subseteq Req
    BY <1>6, <1>a, <2>4 DEF Crash, WorkerCrashes
  <2> QED
    BY <1>6, <1>a, <1>b, <2>1, <2>2, <2>3, <2>5 DEF Crash, WorkerCrashes
<1> QED
  BY <1>1, <1>2, <1>3, <1>4, <1>5, <1>6, Steps DEF vars

LEMMA SourcesKept ==
  ASSUME SourcesTypeOK, [Next]_vars
  PROVE  SourcesTypeOK'
<1>1. CASE UNCHANGED sourceVars
  BY <1>1 DEF sourceVars, SourcesTypeOK
<1>2. CASE SourcesNext
  BY <1>2, SourcesTypeStep
<1> QED
  BY <1>1, <1>2, Steps DEF vars, Dispatch, Download, DownloadFails, RunEnds, Crash

LEMMA HasReqsStep ==
  ASSUME exec \in [Exec -> Execution], HasReqs, [Next]_vars
  PROVE  HasReqs'
<1> USE PreparationAssumption
<1>1. ASSUME NEW e \in Exec, \A f \in Exec \ {e} : exec'[f] = exec[f],
             exec'[e].pc \in Holding => exec'[e].source = exec[e].source /\ ReqsOf(e) \in Req
      PROVE  HasReqs'
  BY <1>1 DEF HasReqs, ReqsOf
<1>2. CASE UNCHANGED prepVars
  BY <1>2 DEF prepVars, HasReqs, ReqsOf
<1>3. ASSUME NEW e \in Exec, Download(e)
      PROVE  HasReqs'
  <2>1. exec'[e].pc = "resolve" /\ \A f \in Exec \ {e} : exec'[f] = exec[f]
    BY <1>3, Downloads DEF Download, PrepareDir
  <2> QED
    BY <2>1, <1>1 DEF Holding
<1>4. ASSUME NEW e \in Exec, \/ \E w \in Worker : Dispatch(e, w)
                             \/ DownloadFails(e) \/ RunEnds(e)
      PROVE  HasReqs'
  <2>1. exec'[e].pc \in {"idle", "prepare"} /\ \A f \in Exec \ {e} : exec'[f] = exec[f]
    <3>1. CASE \E w \in Worker : Dispatch(e, w)
      BY <3>1 DEF Dispatch, Start, NoExec
    <3>2. CASE DownloadFails(e) \/ RunEnds(e)
      BY <3>2 DEF DownloadFails, PrepareFails, RunEnds, Ends, NoExec
    <3> QED
      BY <1>4, <3>1, <3>2
  <2> QED
    BY <2>1, <1>1 DEF Holding
<1>5. ASSUME NEW e \in Exec, Resolve(e)
      PROVE  HasReqs'
  <2>1. CASE Lock(e) \/ CacheMiss(e) \/ UvVenv(e)
    <3>1. ReqsOf(e) \in Req
      BY <2>1, ReqsOfExec DEF Lock, CacheMiss, UvVenv, HasReqs, Holding
    <3>2. exec'[e].pc \in Holding => exec'[e].source = exec[e].source
      BY <1>5, Resolves DEF NoExec, Holding
    <3> QED
      BY <3>1, <3>2, <1>1, <1>5, Resolves
  <2>2. CASE SystemPython(e) \/ CacheHit(e) \/ UvPipInstall(e)
    <3>1. exec'[e].pc = "run"
      <4>1. PICK python : exec' = [exec EXCEPT ![e].pc = "run", ![e].python = python]
        BY <2>2 DEF SystemPython, CacheHit, UvPipInstall, Runs
      <4> QED
        BY <4>1 DEF Execution
    <3> QED
      BY <3>1, <1>1, <1>5, Resolves DEF Holding
  <2>3. CASE UvFails(e)
    BY <2>3, <1>1, <1>5, Resolves DEF UvFails, NoExec, Holding
  <2> QED
    BY <1>5, <2>1, <2>2, <2>3 DEF Resolve
<1>6. ASSUME NEW w \in Worker, Crash(w)
      PROVE  HasReqs'
  <2>1. \A e \in Exec : exec'[e] = exec[e] \/ exec'[e].pc = "idle"
    BY <1>6 DEF Crash, WorkerCrashes, NoExec
  <2> QED
    BY <2>1 DEF HasReqs, Holding, ReqsOf
<1> QED
  BY <1>2, <1>3, <1>4, <1>5, <1>6, Steps DEF vars

Typed == TypeOK /\ HasReqs

LEMMA TypeInit == Init => Typed
BY SourcesTypeInit, PreparationTypeInit
   DEF Init, Typed, TypeOK, HasReqs, Holding, PreparationInit, NoExec

LEMMA TypeStep == Typed /\ [Next]_vars => Typed'
<1> SUFFICES ASSUME Typed, [Next]_vars PROVE Typed'
  OBVIOUS
<1>1. SourcesTypeOK /\ PreparationTypeOK /\ HasReqs
  BY DEF Typed, TypeOK
<1>2. exec \in [Exec -> Execution]
  BY <1>1 DEF PreparationTypeOK, Execution
<1> QED
  BY <1>1, <1>2, SourcesKept, PreparationTypeStep, HasReqsStep DEF Typed, TypeOK

\* Rows, archives, executions and environments stay in their types.
THEOREM TypeCorrect == Spec => []TypeOK
<1>1. Typed => TypeOK
  BY DEF Typed
<1> QED
  BY <1>1, TypeInit, TypeStep, PTL DEF Spec

-----------------------------------------------------------------------------
(* The source on record can be downloaded.                                 *)

\* Whoever marks has uploaded, and whoever uploads has a commit.
UsableInv ==
  /\ SourceUsable
  /\ \A c \in Syncer :
       /\ sync[c].pc = "upload" => sync[c].commit # NoCommit
       /\ sync[c].pc = "mark" => archive[NewKey(c)] # NoCommit

LEMMA UsableInit == Init => UsableInv
BY DEF Init, SourcesInit, UsableInv, SourceUsable, NoSync

\* An archive once stored is replaced, never taken away.
LEMMA ArchivesStay ==
  ASSUME SourcesTypeOK, UsableInv, [Next]_vars
  PROVE  \A v \in Version : archive[v] # NoCommit => archive'[v] # NoCommit
<1>1. CASE archive' = archive
  BY <1>1
<1>2. ASSUME NEW c \in Syncer, Upload(c)
      PROVE  \A v \in Version : archive[v] # NoCommit => archive'[v] # NoCommit
  BY <1>2, NewKeyType DEF Upload, UsableInv, SourcesTypeOK
<1>3. ASSUME NEW c \in Syncer, Fails(c)
      PROVE  \A v \in Version : archive[v] # NoCommit => archive'[v] # NoCommit
  BY <1>3, NewKeyType DEF Fails, SourcesTypeOK
<1>4. CASE SourcesNext
  BY <1>1, <1>2, <1>3, <1>4, SourceSteps
     DEF Create, Update, Delete, Push, SyncBegins, Clone, MarkSynced, MarkSyncFailed, SyncLost
<1> QED
  BY <1>1, <1>4, Steps DEF vars, sourceVars, Dispatch, Download, DownloadFails, RunEnds, Crash

LEMMA UsableStep ==
  ASSUME SourcesTypeOK, UsableInv, [Next]_vars
  PROVE  UsableInv'
<1> USE SourcesAssumption
<1>a. /\ spider.key \in {0} \cup Version /\ head \in Commit /\ head # NoCommit
      /\ sync \in [Syncer -> Call] /\ archive \in [Version -> Commit \cup {NoCommit}]
  BY DEF SourcesTypeOK, Call, Commit
<1>b. \A v \in Version : archive[v] # NoCommit => archive'[v] # NoCommit
  BY ArchivesStay
<1>c. \A c \in Syncer : NewKey(c) \in Version
  BY NewKeyType
<1>d. ASSUME spider'.key = spider.key
      PROVE  SourceUsable'
  BY <1>a, <1>b, <1>d DEF UsableInv, SourceUsable
<1>e. ASSUME NEW c \in Syncer, sync'[c] = sync[c]
      PROVE  /\ sync'[c].pc = "upload" => sync'[c].commit # NoCommit
             /\ sync'[c].pc = "mark" => archive'[NewKey(c)'] # NoCommit
  BY <1>b, <1>c, <1>e DEF UsableInv, NewKey
<1>f. ASSUME NEW d \in Syncer, \A c \in Syncer \ {d} : sync'[c] = sync[c], spider'.key = spider.key,
             sync'[d].pc = "upload" => sync'[d].commit # NoCommit,
             sync'[d].pc = "mark" => archive'[NewKey(d)'] # NoCommit
      PROVE  UsableInv'
  BY <1>d, <1>e, <1>f DEF UsableInv
<1>1. CASE UNCHANGED <<sync, spider>>
  BY <1>1, <1>d, <1>e DEF UsableInv
<1>2. ASSUME NEW url \in BOOLEAN, Create(url) \/ Update(url)
      PROVE  UsableInv'
  <2>1. spider'.key = spider.key /\ sync' = sync
    BY <1>2 DEF Create, Update, InsertedRow, UpdatedRow, SourcesTypeOK
  <2> QED
    BY <2>1, <1>d, <1>e DEF UsableInv
<1>3. CASE Delete \/ Push
  <2>1. spider'.key = spider.key /\ sync' = sync
    BY <1>3 DEF Delete, Push, DeletedRow, SourcesTypeOK
  <2> QED
    BY <2>1, <1>d, <1>e DEF UsableInv
<1>4. ASSUME NEW c \in Syncer, SyncBegins(c)
      PROVE  UsableInv'
  <2>1. sync'[c].pc = "clone" /\ spider' = spider /\ \A d \in Syncer \ {c} : sync'[d] = sync[d]
    BY <1>4, <1>a DEF SyncBegins, NoSync
  <2> QED
    BY <2>1, <1>f
<1>5. ASSUME NEW c \in Syncer, Clone(c)
      PROVE  UsableInv'
  <2>1. /\ sync'[c].pc = "upload" /\ sync'[c].commit = head
        /\ spider' = spider /\ \A d \in Syncer \ {c} : sync'[d] = sync[d]
    BY <1>5, <1>a DEF Clone, Call
  <2> QED
    BY <2>1, <1>a, <1>f
<1>6. ASSUME NEW c \in Syncer, Upload(c)
      PROVE  UsableInv'
  <2>1. /\ sync'[c].pc = "mark" /\ sync'[c].version = sync[c].version
        /\ spider' = spider /\ \A d \in Syncer \ {c} : sync'[d] = sync[d]
    BY <1>6, <1>a DEF Upload, Call
  <2>2. NewKey(c)' = NewKey(c) /\ archive'[NewKey(c)] = sync[c].commit /\ sync[c].commit # NoCommit
    BY <1>6, <1>a, <1>c, <2>1 DEF Upload, NewKey, UsableInv
  <2> QED
    BY <2>1, <2>2, <1>f
<1>7. ASSUME NEW c \in Syncer, Fails(c)
      PROVE  UsableInv'
  <2>1. /\ sync'[c].pc = "failed"
        /\ spider' = spider /\ \A d \in Syncer \ {c} : sync'[d] = sync[d]
    BY <1>7, <1>a DEF Fails, Call
  <2> QED
    BY <2>1, <1>f
<1>8. ASSUME NEW c \in Syncer, MarkSynced(c)
      PROVE  UsableInv'
  <2>1. /\ spider'.key = NewKey(c) /\ archive' = archive
        /\ archive[NewKey(c)] # NoCommit
    BY <1>8, <1>a DEF MarkSynced, SyncedRow, UsableInv, SourcesTypeOK
  <2>2. SourceUsable'
    BY <2>1 DEF SourceUsable
  <2>3. sync'[c].pc = "idle" /\ \A d \in Syncer \ {c} : sync'[d] = sync[d]
    BY <1>8, <1>a DEF MarkSynced, NoSync
  <2> QED
    BY <2>2, <2>3, <1>e DEF UsableInv
<1>9. ASSUME NEW c \in Syncer, MarkSyncFailed(c) \/ SyncLost(c)
      PROVE  UsableInv'
  <2>1. /\ sync'[c].pc = "idle" /\ spider'.key = spider.key
        /\ \A d \in Syncer \ {c} : sync'[d] = sync[d]
    BY <1>9, <1>a DEF MarkSyncFailed, SyncLost, NoSync, SourcesTypeOK
  <2> QED
    BY <2>1, <1>f
<1>10. CASE SourcesNext
  BY <1>2, <1>3, <1>4, <1>5, <1>6, <1>7, <1>8, <1>9, <1>10, SourceSteps
<1> QED
  BY <1>1, <1>10, Steps DEF vars, sourceVars, Dispatch, Download, DownloadFails, RunEnds, Crash

\* The source on record can always be downloaded, whatever syncs failed, overlapped or were
\* cut off (Sync, MarkSynced, MarkSyncFailed).
THEOREM UsableCorrect == Spec => []SourceUsable
<1>1. Init => Typed /\ UsableInv
  BY TypeInit, UsableInit
<1>2. Typed /\ UsableInv /\ [Next]_vars => Typed' /\ UsableInv'
  BY TypeStep, UsableStep DEF Typed, TypeOK
<1>3. UsableInv => SourceUsable
  BY DEF UsableInv
<1> QED
  BY <1>1, <1>2, <1>3, PTL DEF Spec

-----------------------------------------------------------------------------
(* An execution runs what was on record.                                   *)

\* While no two syncs have overlapped, the one under way has read the version on record, and
\* the key on record holds the commit on record, as the next one does before the row is marked.
OneSync ==
  /\ \A c, d \in Syncer : sync[c].pc # "idle" /\ sync[d].pc # "idle" => c = d
  /\ \A c \in Syncer : sync[c].pc \notin {"idle", "failed"} => sync[c].version = spider.version
  /\ spider.key = spider.version
  /\ spider.key # 0 => archive[spider.key] = spider.commit
  /\ \A c \in Syncer : sync[c].pc = "mark" => archive[NewKey(c)] = sync[c].commit

\* An execution that has not downloaded yet holds a key that will not be written again.
OnRecord ==
  \A e \in Exec :
    /\ exec[e].pc = "prepare" =>
         exec[e].key \in 1 .. spider.version /\ archive[exec[e].key] = exec[e].meant
    /\ exec[e].source # NoSource => exec[e].source = exec[e].meant

RecordInv == ~overlapped => OneSync /\ OnRecord

LEMMA RecordInit == Init => RecordInv
BY DEF Init, SourcesInit, PreparationInit, RecordInv, OneSync, OnRecord, NoSync, NoExec

\* One sync at a time never touches a version that has been on record.
LEMMA OneSyncStep ==
  ASSUME SourcesTypeOK, OneSync, ~overlapped, SourcesNext, ~overlapped'
  PROVE  /\ OneSync'
         /\ spider.version \in Nat /\ spider'.version \in Nat /\ spider.version <= spider'.version
         /\ \A k \in 1 .. spider.version : archive'[k] = archive[k]
<1> USE SourcesAssumption
<1> DEFINE Kept == /\ spider.version <= spider'.version
                   /\ \A k \in 1 .. spider.version : archive'[k] = archive[k]
<1>a. /\ spider \in Row /\ spider.version \in Nat /\ spider.version \in 0 .. MaxVersion
      /\ sync \in [Syncer -> Call] /\ archive \in [Version -> Commit \cup {NoCommit}]
  BY DEF SourcesTypeOK, Call, Row, Version
<1>b. \A c \in Syncer : NewKey(c) = sync[c].version + 1 /\ NewKey(c) \in Version
  BY NewKeyType
<1>c. spider'.version \in Nat
  BY SourcesTypeStep DEF SourcesTypeOK, Version
<1>1. ASSUME UNCHANGED <<sync, archive>>, spider'.key = spider.key,
             spider'.version = spider.version, spider'.commit = spider.commit
      PROVE  OneSync' /\ Kept
  BY <1>1, <1>a DEF OneSync, NewKey
<1>2. ASSUME NEW url \in BOOLEAN, Create(url) \/ Update(url)
      PROVE  OneSync' /\ Kept
  BY <1>1, <1>2, <1>a DEF Create, Update, InsertedRow, UpdatedRow, Row
<1>3. CASE Delete \/ Push
  BY <1>1, <1>3, <1>a DEF Delete, Push, DeletedRow, Row
<1>4. ASSUME NEW c \in Syncer, SyncBegins(c)
      PROVE  OneSync' /\ Kept
  <2>1. \A d \in Syncer : sync[d].pc = "idle"
    BY <1>4 DEF SyncBegins
  <2>2. /\ sync'[c].pc = "clone" /\ sync'[c].version = spider.version
        /\ \A d \in Syncer \ {c} : sync'[d] = sync[d]
        /\ spider' = spider /\ archive' = archive
    BY <1>4, <1>a DEF SyncBegins, NoSync
  <2> QED
    BY <2>1, <2>2, <1>a DEF OneSync, NewKey
<1>5. ASSUME NEW c \in Syncer, spider'.key = spider.key, spider'.version = spider.version,
             spider'.commit = spider.commit, Kept,
             \A d \in Syncer \ {c} : sync[d].pc = "idle" /\ sync'[d] = sync[d],
             sync'[c].pc \notin {"idle", "failed"} => sync'[c].version = spider.version,
             sync'[c].pc = "mark" => archive'[NewKey(c)'] = sync'[c].commit
      PROVE  OneSync' /\ Kept
  <2>1. spider.key # 0 => archive'[spider.key] = archive[spider.key]
    BY <1>5, <1>a DEF OneSync
  <2> QED
    BY <1>5, <1>a, <2>1 DEF OneSync
<1>6. ASSUME NEW c \in Syncer, Clone(c)
      PROVE  OneSync' /\ Kept
  <2>1. /\ sync'[c].pc = "upload" /\ sync'[c].version = sync[c].version
        /\ \A d \in Syncer \ {c} : sync'[d] = sync[d]
        /\ sync[c].pc = "clone" /\ spider' = spider /\ archive' = archive
    BY <1>6, <1>a DEF Clone, Call
  <2> QED
    BY <2>1, <1>5, <1>a DEF OneSync
<1>7. ASSUME NEW c \in Syncer, Upload(c) \/ Fails(c)
      PROVE  OneSync' /\ Kept
  <2>1. /\ sync'[c].pc \in {"mark", "failed"}
        /\ sync'[c].pc = "mark" => sync'[c] = [sync[c] EXCEPT !.pc = "mark"]
        /\ \A d \in Syncer \ {c} : sync'[d] = sync[d]
        /\ sync[c].pc \in {"clone", "upload"} /\ spider' = spider
    BY <1>7, <1>a DEF Upload, Fails, NoSync, Call
  <2>2. sync[c].version = spider.version /\ NewKey(c) = spider.version + 1
    BY <2>1, <1>b DEF OneSync
  <2>3. \A k \in Version \ {NewKey(c)} : archive'[k] = archive[k]
    BY <1>7, <1>a, <1>b DEF Upload, Fails
  <2>4. Kept
    BY <2>1, <2>2, <2>3, <1>a DEF Version
  <2>5. sync'[c].pc = "mark" => archive'[NewKey(c)'] = sync'[c].commit
    <3>1. CASE Upload(c)
      BY <3>1, <2>1, <1>a, <1>b DEF Upload, NewKey
    <3>2. CASE Fails(c)
      BY <3>2, <1>a DEF Fails, NoSync, Call
    <3> QED
      BY <1>7, <3>1, <3>2
  <2>6. sync'[c].pc \notin {"idle", "failed"} => sync'[c].version = spider.version
    BY <2>1, <2>2, <1>a DEF Call
  <2>7. \A d \in Syncer \ {c} : sync[d].pc = "idle"
    BY <2>1, <1>a DEF OneSync
  <2> QED
    BY <2>1, <2>4, <2>5, <2>6, <2>7, <1>5
<1>8. ASSUME NEW c \in Syncer, MarkSynced(c)
      PROVE  OneSync' /\ Kept
  <2>1. /\ sync'[c].pc = "idle" /\ sync[c].pc = "mark" /\ archive' = archive
        /\ \A d \in Syncer \ {c} : sync'[d] = sync[d]
    BY <1>8, <1>a DEF MarkSynced, NoSync
  <2>2. /\ spider'.key = NewKey(c) /\ spider'.version = NewKey(c)
        /\ spider'.commit = sync[c].commit
    BY <1>8, <1>a DEF MarkSynced, SyncedRow, Row
  <2>3. NewKey(c) = spider.version + 1 /\ archive[NewKey(c)] = sync[c].commit
    BY <2>1, <1>b DEF OneSync
  <2>4. \A d \in Syncer : sync'[d].pc = "idle"
    BY <2>1 DEF OneSync
  <2> QED
    BY <2>1, <2>2, <2>3, <2>4, <1>a DEF OneSync
<1>9. ASSUME NEW c \in Syncer, MarkSyncFailed(c) \/ SyncLost(c)
      PROVE  OneSync' /\ Kept
  <2>1. /\ sync'[c].pc = "idle" /\ sync[c].pc # "idle" /\ archive' = archive
        /\ \A d \in Syncer \ {c} : sync'[d] = sync[d]
    BY <1>9, <1>a DEF MarkSyncFailed, SyncLost, NoSync
  <2>2. /\ spider'.key = spider.key /\ spider'.version = spider.version
        /\ spider'.commit = spider.commit
    BY <1>9, <1>a DEF MarkSyncFailed, SyncLost, Row
  <2> QED
    BY <2>1, <2>2, <1>5, <1>a DEF OneSync
<1> QED
  BY <1>2, <1>3, <1>4, <1>6, <1>7, <1>8, <1>9, <1>c, <1>a, SourceSteps

\* The history flag is never taken back.
LEMMA OverlapStays == [Next]_vars /\ overlapped => overlapped'
<1>1. SourcesNext /\ overlapped => overlapped'
  BY SourceSteps
     DEF Create, Update, Delete, Push, SyncBegins, Clone, Upload, Fails, MarkSynced,
         MarkSyncFailed, SyncLost
<1> QED
  BY <1>1, Steps DEF vars, sourceVars, Dispatch, Download, DownloadFails, RunEnds, Crash

LEMMA RecordStep ==
  ASSUME TypeOK, RecordInv, [Next]_vars
  PROVE  RecordInv'
<1> SUFFICES ASSUME ~overlapped' PROVE OneSync' /\ OnRecord'
  BY DEF RecordInv
<1> USE SourcesAssumption, PreparationAssumption, ComposedAssumption
<1>a. ~overlapped /\ OneSync /\ OnRecord /\ SourcesTypeOK
  BY OverlapStays DEF RecordInv, TypeOK
<1>b. /\ spider.version \in Nat /\ spider.key = spider.version
      /\ exec \in [Exec -> Execution]
  BY <1>a DEF OneSync, SourcesTypeOK, Version, TypeOK, PreparationTypeOK, Execution
<1>c. ASSUME UNCHANGED sourceVars PROVE OneSync'
  BY <1>a, <1>c DEF OneSync, sourceVars, NewKey
<1>d. ASSUME NEW e \in Exec, UNCHANGED sourceVars,
             \A f \in Exec \ {e} : exec'[f] = exec[f],
             exec'[e].pc # "prepare",
             exec'[e].source # NoSource => exec'[e].source = exec'[e].meant
      PROVE  OneSync' /\ OnRecord'
  BY <1>a, <1>c, <1>d DEF OnRecord, sourceVars
<1>1. CASE UNCHANGED vars
  BY <1>1, <1>a, <1>c DEF vars, prepVars, sourceVars, OnRecord
<1>2. CASE SourcesNext /\ UNCHANGED prepVars
  <2>1. /\ OneSync' /\ spider'.version \in Nat /\ spider.version <= spider'.version
        /\ \A k \in 1 .. spider.version : archive'[k] = archive[k]
    BY <1>2, <1>a, OneSyncStep
  <2>2. \A k \in 1 .. spider.version : k \in 1 .. spider'.version
    BY <2>1, <1>b
  <2>3. exec' = exec
    BY <1>2 DEF prepVars
  <2> QED
    BY <2>1, <2>2, <2>3, <1>a DEF OnRecord
<1>3. ASSUME NEW e \in Exec, NEW w \in Worker, Dispatch(e, w)
      PROVE  OneSync' /\ OnRecord'
  <2>1. /\ UNCHANGED sourceVars /\ \A f \in Exec \ {e} : exec'[f] = exec[f]
        /\ exec'[e].key = spider.key /\ exec'[e].meant = spider.commit
        /\ exec'[e].source = NoSource
    BY <1>3, <1>b DEF Dispatch, Start, NoExec
  <2>2. spider.key \in 1 .. spider.version /\ archive[spider.key] = spider.commit
    BY <1>3, <1>a, <1>b DEF Dispatch, OneSync
  <2> QED
    BY <2>1, <2>2, <1>a, <1>c DEF OnRecord, sourceVars
<1>4. ASSUME NEW e \in Exec, Download(e)
      PROVE  OneSync' /\ OnRecord'
  <2>1. /\ UNCHANGED sourceVars /\ exec[e].pc = "prepare"
        /\ exec' = [exec EXCEPT ![e].pc = "resolve", ![e].source = archive[exec[e].key],
                                ![e].key = 0]
    BY <1>4 DEF Download, PrepareDir
  <2>2. /\ \A f \in Exec \ {e} : exec'[f] = exec[f]
        /\ exec'[e].pc = "resolve" /\ exec'[e].source = archive[exec[e].key]
        /\ exec'[e].meant = exec[e].meant
    BY <2>1, <1>b DEF Execution
  <2> QED
    BY <2>1, <2>2, <1>a, <1>d DEF OnRecord
<1>5. ASSUME NEW e \in Exec, DownloadFails(e) \/ RunEnds(e)
      PROVE  OneSync' /\ OnRecord'
  <2>1. /\ UNCHANGED sourceVars /\ \A f \in Exec \ {e} : exec'[f] = exec[f]
        /\ exec'[e].pc = "idle" /\ exec'[e].source = NoSource
    BY <1>5, <1>b DEF DownloadFails, PrepareFails, RunEnds, Ends, NoExec
  <2> QED
    BY <2>1, <1>d
<1>6. ASSUME NEW e \in Exec, Resolve(e), UNCHANGED sourceVars
      PROVE  OneSync' /\ OnRecord'
  <2>1. \A f \in Exec \ {e} : exec'[f] = exec[f]
    BY <1>6, <1>b, Resolves
  <2>2. exec'[e].pc # "prepare"
    BY <1>6, <1>b, Resolves DEF NoExec
  <2>3. \/ exec'[e].source = NoSource
        \/ exec'[e].source = exec[e].source /\ exec'[e].meant = exec[e].meant
    BY <1>6, <1>b, Resolves DEF NoExec
  <2> QED
    BY <1>6, <2>1, <2>2, <2>3, <1>a, <1>d DEF OnRecord
<1>7. ASSUME NEW w \in Worker, Crash(w)
      PROVE  OneSync' /\ OnRecord'
  <2>1. UNCHANGED sourceVars /\ \A e \in Exec : exec'[e] = exec[e] \/ exec'[e] = NoExec
    BY <1>7 DEF Crash, WorkerCrashes
  <2> QED
    BY <2>1, <1>a, <1>c DEF OnRecord, NoExec, sourceVars
<1> QED
  BY <1>1, <1>2, <1>3, <1>4, <1>5, <1>6, <1>7, Steps

\* As long as no two syncs overlap, an execution runs the sources that were on record when it
\* was dispatched: the archive under a key the row has named is never replaced (newVer,
\* MarkSynced, buildAssign, prepareDir).
THEOREM RecordCorrect == Spec => []RunsWhatWasOnRecord
<1>1. Init => Typed /\ RecordInv
  BY TypeInit, RecordInit
<1>2. Typed /\ RecordInv /\ [Next]_vars => Typed' /\ RecordInv'
  BY TypeStep, RecordStep DEF Typed
<1>3. RecordInv => RunsWhatWasOnRecord
  BY DEF RecordInv, OnRecord, RunsWhatWasOnRecord
<1> QED
  BY <1>1, <1>2, <1>3, PTL DEF Spec


-----------------------------------------------------------------------------
(* An execution runs with its packages.                                    *)

\* Who holds a lock: the executions between Lock and Unlock, one of each worker at most.
LockHeld ==
  /\ \A e \in Exec : exec[e].pc \in Holding => e \in lock[ReqsOf(e)]
  /\ \A r \in Req : \A e \in lock[r] : exec[e].pc \in Holding /\ ReqsOf(e) = r
  /\ \A r \in Req : \A e, f \in lock[r] : exec[e].worker = exec[f].worker => e = f
  /\ \A e \in Exec : InVenv(e) => ReqsOf(e) \in Req

\* An environment that nothing has spoilt: whoever builds it is alone with it, and if packages
\* are missing somebody is installing them.
Sound(r) ==
  /\ \A e \in lock[r] : exec[e].pc # "locked" => lock[r] = {e}
  /\ \A e \in Exec : ReqsOf(e) = r =>
       /\ exec[e].pc = "venv" => venv[r] = "none"
       /\ exec[e].pc = "install" => venv[r] = "bare"
       /\ InVenv(e) => venv[r] = "full"
  /\ venv[r] = "bare" => \E e \in lock[r] : exec[e].pc = "install"

DepsInv == LockHeld /\ \A r \in Req \ spoilt : Sound(r)

LEMMA DepsInit == Init => DepsInv
BY DEF Init, PreparationInit, DepsInv, LockHeld, Sound, InVenv, NoExec, Holding

\* What happens to one execution does not concern the environments it has nothing to do with.
LEMMA SoundStays ==
  ASSUME exec \in [Exec -> Execution], lock \in [Req -> SUBSET Exec], NEW e \in Exec,
         \A f \in Exec \ {e} : exec'[f] = exec[f],
         NEW r \in Req, lock'[r] = lock[r], venv'[r] = venv[r], e \notin lock[r], Sound(r),
         ReqsOf(e)' = r => exec'[e].pc \notin {"venv", "install"} /\ ~InVenv(e)'
  PROVE  Sound(r)'
<1>1. \A f \in Exec \ {e} : ReqsOf(f)' = ReqsOf(f) /\ InVenv(f)' = InVenv(f)
  BY DEF ReqsOf, InVenv
<1>2. \A f \in lock[r] : f \in Exec \ {e}
  OBVIOUS
<1> QED
  BY <1>1, <1>2 DEF Sound

\* Nor does it concern the locks of others.
LEMMA LocksStay ==
  ASSUME exec \in [Exec -> Execution], lock \in [Req -> SUBSET Exec], LockHeld, HasReqs,
         NEW e \in Exec,
         \A f \in Exec \ {e} : exec'[f] = exec[f],
         NEW r \in Req, \A q \in Req \ {r} : lock'[q] = lock[q],
         lock'[r] \in SUBSET Exec, lock'[r] \ {e} = lock[r] \ {e},
         exec'[e].pc \in Holding <=> e \in lock'[r],
         \A q \in Req : e \in lock[q] => q = r,
         e \in lock'[r] => ReqsOf(e)' = r,
         e \in lock'[r] => \A f \in lock'[r] \ {e} : exec[f].worker # exec'[e].worker,
         InVenv(e)' => ReqsOf(e)' \in Req
  PROVE  LockHeld'
<1>1. \A f \in Exec \ {e} : ReqsOf(f)' = ReqsOf(f) /\ InVenv(f)' = InVenv(f)
  BY DEF ReqsOf, InVenv
<1>2. \A q \in Req : \A f \in Exec \ {e} : f \in lock'[q] <=> f \in lock[q]
  OBVIOUS
<1>3. \A q \in Req : e \in lock'[q] => q = r
  OBVIOUS
<1>4. \A q \in Req : lock'[q] \in SUBSET Exec
  OBVIOUS
<1>5. \A f \in Exec : exec'[f].pc \in Holding => f \in lock'[ReqsOf(f)']
  <2>1. ASSUME NEW f \in Exec \ {e}, exec'[f].pc \in Holding
        PROVE  f \in lock'[ReqsOf(f)']
    <3>1. f \in lock[ReqsOf(f)] /\ ReqsOf(f)' = ReqsOf(f) /\ ReqsOf(f) \in Req
      BY <2>1, <1>1 DEF LockHeld, HasReqs
    <3> QED
      BY <3>1, <2>1
  <2> QED
    BY <2>1
<1>6. \A q \in Req : \A f \in lock'[q] : exec'[f].pc \in Holding /\ ReqsOf(f)' = q
  BY <1>1, <1>2, <1>3, <1>4 DEF LockHeld
<1>7. \A q \in Req : \A f, g \in lock'[q] : exec'[f].worker = exec'[g].worker => f = g
  BY <1>2, <1>3, <1>4 DEF LockHeld
<1>8. \A f \in Exec : InVenv(f)' => ReqsOf(f)' \in Req
  BY <1>1 DEF LockHeld
<1> QED
  BY <1>5, <1>6, <1>7, <1>8 DEF LockHeld

\* The steps that leave locks and environments alone.
LEMMA DepsQuiet ==
  ASSUME Typed, DepsInv, NEW e \in Exec, UNCHANGED <<venv, lock, spoilt>>,
         \A f \in Exec \ {e} : exec'[f] = exec[f],
         exec[e].pc \notin Holding, exec'[e].pc \notin Holding, ~InVenv(e)'
  PROVE  DepsInv'
<1>a. /\ exec \in [Exec -> Execution] /\ lock \in [Req -> SUBSET Exec]
      /\ LockHeld /\ HasReqs /\ \A r \in Req : e \notin lock[r]
  BY DEF Typed, TypeOK, PreparationTypeOK, Execution, DepsInv, LockHeld
<1>1. CASE Req = {}
  BY <1>1, <1>a DEF DepsInv, LockHeld, InVenv, HasReqs
<1>2. CASE Req # {}
  <2>1. PICK r \in Req : TRUE
    BY <1>2
  <2>2. LockHeld'
    BY <1>a, <2>1, LocksStay
  <2>3. ASSUME NEW q \in Req \ spoilt'
        PROVE  Sound(q)'
    <3>1. Sound(q)
      BY DEF DepsInv
    <3>2. exec'[e].pc \notin {"venv", "install"}
      BY DEF Holding
    <3> QED
      BY <1>a, <3>1, <3>2, SoundStays
  <2> QED
    BY <2>2, <2>3 DEF DepsInv
<1> QED
  BY <1>1, <1>2

\* A step of resolveInterpreter with the lock, after it or for it concerns the environment of
\* the execution's own requirements.
LEMMA DepsOwn ==
  ASSUME Typed, DepsInv, NEW e \in Exec, Resolve(e), NEW r \in Req, r = ReqsOf(e),
         \A q \in Req \ {r} : lock'[q] = lock[q] /\ venv'[q] = venv[q],
         spoilt \subseteq spoilt',
         LockHeld', r \notin spoilt' => Sound(r)'
  PROVE  DepsInv'
<1>a. /\ exec \in [Exec -> Execution] /\ lock \in [Req -> SUBSET Exec] /\ LockHeld
  BY DEF Typed, TypeOK, PreparationTypeOK, Execution, DepsInv
<1>1. ASSUME NEW q \in Req \ spoilt', q # r
      PROVE  Sound(q)'
  <2>1. Sound(q) /\ e \notin lock[q]
    BY <1>1, <1>a DEF DepsInv, LockHeld
  <2>2. \A f \in Exec \ {e} : exec'[f] = exec[f]
    BY <1>a, Resolves
  <2>3. ReqsOf(e)' # q
    BY <1>1, <1>a, Resolves, PreparationAssumption DEF ReqsOf, NoExec
  <2> QED
    BY <1>a, <1>1, <2>1, <2>2, <2>3, SoundStays
<1> QED
  BY <1>1 DEF DepsInv

\* What one execution does to the lock and the environment of its own requirements.
LEMMA ResolveDeps ==
  ASSUME Typed, DepsInv, NEW e \in Exec, Resolve(e), NEW r, r = ReqsOf(e)
  PROVE  DepsInv'
<1> USE PreparationAssumption
<1>a. /\ exec \in [Exec -> Execution] /\ venv \in [Req -> {"none", "bare", "full"}]
      /\ lock \in [Req -> SUBSET Exec] /\ spoilt \subseteq Req
      /\ LockHeld /\ HasReqs /\ \A q \in Req \ spoilt : Sound(q)
  BY DEF Typed, TypeOK, PreparationTypeOK, Execution, DepsInv
<1>b. exec' \in [Exec -> Execution] /\ \A f \in Exec \ {e} : exec'[f] = exec[f]
  BY <1>a, Resolves
<1>c. \A f \in Exec \ {e} : ReqsOf(f)' = ReqsOf(f) /\ InVenv(f)' = InVenv(f)
  BY <1>b DEF ReqsOf, InVenv
<1>d. exec'[e].pc # "idle" =>
        /\ ReqsOf(e)' = r /\ exec'[e].worker = exec[e].worker
  BY <1>a, Resolves DEF ReqsOf, NoExec
<1>1. CASE SystemPython(e)
  <2>1. /\ UNCHANGED <<venv, lock, spoilt>> /\ exec[e].pc = "resolve"
        /\ exec'[e].pc = "run" /\ exec'[e].python = "system"
    BY <1>1, <1>a DEF SystemPython, Execution
  <2> QED
    BY <2>1, <1>b, DepsQuiet DEF Holding, InVenv
<1>2. CASE Lock(e)
  <2>1. /\ venv' = venv /\ exec[e].pc = "resolve" /\ r \in Req
        /\ lock' = [lock EXCEPT ![r] = @ \cup {e}] /\ lock[r] = Elsewhere(e)
        /\ Spoils(e, \E f \in Elsewhere(e) : exec[f].pc # "locked")
    BY <1>2, <1>a, ReqsOfExec DEF Lock, TakesLock
  <2>2. exec'[e].pc = "locked"
    BY <1>2, <1>a DEF Lock, TakesLock, Execution
  <2>3. ReqsOf(e)' = r /\ exec'[e].worker = exec[e].worker /\ ~InVenv(e)'
    BY <1>d, <2>2 DEF InVenv
  <2>4. \A q \in Req : e \notin lock[q]
    BY <1>a, <2>1 DEF LockHeld, Holding
  <2>5. \A f \in lock[r] : exec[f].worker # exec[e].worker
    BY <2>1 DEF Elsewhere
  <2>6. /\ lock'[r] = lock[r] \cup {e} /\ lock'[r] \in SUBSET Exec
        /\ \A q \in Req \ {r} : lock'[q] = lock[q]
    BY <2>1, <1>a
  <2>7. exec'[e].pc \in Holding
    BY <2>2 DEF Holding
  <2>8. LockHeld'
    BY <1>a, <1>b, <2>1, <2>3, <2>4, <2>5, <2>6, <2>7, LocksStay
  <2>9. ASSUME r \notin spoilt'
        PROVE  Sound(r)'
    <3>1. r \notin spoilt /\ \A f \in lock[r] : exec[f].pc = "locked"
      BY <2>1, <2>9 DEF Spoils
    <3>2. Sound(r)
      BY <1>a, <2>1, <3>1
    <3>3. \A f \in lock'[r] : exec'[f].pc = "locked"
      BY <1>a, <1>b, <2>1, <2>2, <2>6, <3>1
    <3> QED
      BY <1>a, <1>b, <1>c, <2>1, <2>2, <2>3, <2>6, <3>1, <3>2, <3>3 DEF Sound
  <2>10. spoilt \subseteq spoilt'
    BY <2>1 DEF Spoils
  <2> QED
    BY <2>1, <2>6, <2>8, <2>9, <2>10, DepsOwn
\* From here on the execution holds the lock.
<1>3. ASSUME exec[e].pc \in Holding
      PROVE  /\ r \in Req /\ e \in lock[r] /\ \A q \in Req : e \in lock[q] => q = r
             /\ r \notin spoilt => Sound(r)
             /\ \A f \in lock[r] \ {e} : exec[f].worker # exec[e].worker
  BY <1>a, <1>3 DEF HasReqs, LockHeld
<1>4. ASSUME exec[e].pc \in Holding, exec'[e].pc \in Holding, lock' = lock
      PROVE  LockHeld'
  <2>1. exec'[e].pc # "idle" /\ exec'[e].pc # "run"
    BY <1>4 DEF Holding
  <2>2. ~InVenv(e)'
    BY <2>1 DEF InVenv
  <2>3. r \in Req /\ e \in lock[r] /\ \A q \in Req : e \in lock[q] => q = r
    BY <1>3, <1>4
  <2>4. \A f \in lock'[r] \ {e} : exec[f].worker # exec'[e].worker
    BY <1>3, <1>4, <1>d, <2>1
  <2>5. ReqsOf(e)' = r
    BY <1>d, <2>1
  <2> QED
    BY <1>a, <1>b, <1>4, <2>2, <2>3, <2>4, <2>5, LocksStay
<1>5. ASSUME exec[e].pc \in Holding, exec'[e].pc \in {"idle", "run"}, Unlock(e)
      PROVE  /\ LockHeld' /\ lock'[r] = lock[r] \ {e}
             /\ \A q \in Req \ {r} : lock'[q] = lock[q]
  <2>1. r \in Req /\ \A q \in Req : e \in lock[q] => q = r
    BY <1>3, <1>5
  <2>2. lock'[r] = lock[r] \ {e} /\ \A q \in Req \ {r} : lock'[q] = lock[q]
    BY <1>a, <1>5, <2>1 DEF Unlock
  <2>3. InVenv(e)' => ReqsOf(e)' \in Req
    BY <1>d, <2>1 DEF InVenv
  <2>4. exec'[e].pc \notin Holding
    BY <1>5 DEF Holding
  <2>5. lock'[r] \in SUBSET Exec /\ e \notin lock'[r] /\ lock'[r] \ {e} = lock[r] \ {e}
    BY <1>a, <2>1, <2>2
  <2>6. LockHeld'
    BY <1>a, <1>b, <2>1, <2>2, <2>3, <2>4, <2>5, LocksStay
  <2> QED
    BY <2>2, <2>6
<1>6. CASE CacheHit(e)
  <2>1. /\ venv' = venv /\ spoilt' = spoilt /\ exec[e].pc = "locked" /\ venv[r] # "none"
        /\ Unlock(e)
    BY <1>6 DEF CacheHit, Runs
  <2>2. exec'[e].pc = "run"
    <3>1. exec' = [exec EXCEPT ![e].pc = "run", ![e].python = "venv"]
      BY <1>6 DEF CacheHit, Runs
    <3> QED
      BY <3>1, <1>a DEF Execution
  <2>3. exec[e].pc \in Holding
    BY <2>1 DEF Holding
  <2>4. /\ LockHeld' /\ lock'[r] = lock[r] \ {e} /\ \A q \in Req \ {r} : lock'[q] = lock[q]
    BY <1>5, <2>1, <2>2, <2>3
  <2>5. r \in Req /\ e \in lock[r] /\ ReqsOf(e)' = r
    BY <1>3, <1>d, <2>2, <2>3
  <2>6. ASSUME r \notin spoilt'
        PROVE  Sound(r)'
    <3>1. Sound(r)
      BY <1>a, <2>1, <2>5, <2>6
    <3>2. \A f \in lock[r] : exec[f].pc = "locked"
      BY <2>1, <2>5, <3>1 DEF Sound
    <3>3. venv[r] = "full"
      BY <1>a, <2>1, <2>5, <3>1, <3>2 DEF Sound
    <3>4. \A f \in lock'[r] : f \in Exec \ {e} /\ f \in lock[r]
      BY <1>a, <2>4, <2>5
    <3>5. \A f \in lock'[r] : exec'[f].pc = "locked"
      BY <1>b, <3>2, <3>4
    <3>6. \A f \in Exec \ {e} : ReqsOf(f)' = r =>
            exec'[f].pc \notin {"venv", "install"} /\ (InVenv(f)' => venv'[r] = "full")
      BY <1>b, <1>c, <2>1, <3>1, <3>3 DEF Sound
    <3>7. \A f \in Exec : ReqsOf(f)' = r =>
            /\ exec'[f].pc = "venv" => venv'[r] = "none"
            /\ exec'[f].pc = "install" => venv'[r] = "bare"
            /\ InVenv(f)' => venv'[r] = "full"
      BY <2>1, <2>2, <3>3, <3>6
    <3> QED
      BY <2>1, <3>3, <3>5, <3>7 DEF Sound
  <2> QED
    BY <2>1, <2>4, <2>5, <2>6, DepsOwn
<1>7. CASE CacheMiss(e)
  <2>1. /\ UNCHANGED <<venv, lock>> /\ exec[e].pc = "locked" /\ venv[r] = "none"
        /\ Spoils(e, Elsewhere(e) # {})
    BY <1>7 DEF CacheMiss
  <2>2. exec'[e].pc = "venv"
    BY <1>7, <1>a DEF CacheMiss, Execution
  <2>3. exec[e].pc \in Holding /\ exec'[e].pc \in Holding
    BY <2>1, <2>2 DEF Holding
  <2>4. LockHeld'
    BY <1>4, <2>1, <2>3
  <2>5. r \in Req /\ e \in lock[r] /\ ReqsOf(e)' = r /\ ~InVenv(e)'
    BY <1>3, <1>d, <2>2, <2>3 DEF InVenv
  <2>6. ASSUME r \notin spoilt'
        PROVE  Sound(r)'
    <3>1. Sound(r) /\ Elsewhere(e) = {}
      BY <1>a, <2>1, <2>5, <2>6 DEF Spoils
    <3>2. lock[r] = {e}
      BY <1>3, <2>3, <2>5, <3>1 DEF Elsewhere
    <3> QED
      BY <1>b, <1>c, <2>1, <2>2, <2>5, <3>1, <3>2 DEF Sound
  <2>7. spoilt \subseteq spoilt'
    BY <2>1 DEF Spoils
  <2> QED
    BY <2>1, <2>4, <2>5, <2>6, <2>7, DepsOwn
\* Whoever builds a sound environment is the only one to do anything with it.
<1>8. ASSUME exec[e].pc \in {"venv", "install"}, r \notin spoilt
      PROVE  /\ lock[r] = {e} /\ venv[r] = (IF exec[e].pc = "venv" THEN "none" ELSE "bare")
             /\ \A f \in Exec \ {e} : ReqsOf(f) = r =>
                  exec[f].pc \notin {"venv", "install"} /\ ~InVenv(f)
  <2>1. exec[e].pc \in Holding
    BY <1>8 DEF Holding
  <2>2. Sound(r) /\ e \in lock[r] /\ r \in Req
    BY <1>3, <1>8, <2>1
  <2>3. lock[r] = {e}
    BY <1>8, <2>2 DEF Sound
  <2>4. \A f \in Exec \ {e} : ReqsOf(f) = r => exec[f].pc \notin {"venv", "install"}
    BY <1>a, <2>3 DEF LockHeld, Holding
  <2>5. venv[r] = (IF exec[e].pc = "venv" THEN "none" ELSE "bare")
    BY <1>8, <2>2 DEF Sound
  <2>6. \A f \in Exec : ReqsOf(f) = r => ~InVenv(f)
    BY <1>8, <2>2, <2>5 DEF Sound
  <2> QED
    BY <2>3, <2>4, <2>5, <2>6
<1>9. CASE UvVenv(e)
  <2>1. /\ UNCHANGED <<lock, spoilt>> /\ exec[e].pc = "venv"
        /\ venv' = [venv EXCEPT ![r] = "bare"]
    BY <1>9 DEF UvVenv
  <2>2. exec'[e].pc = "install"
    BY <1>9, <1>a DEF UvVenv, Execution
  <2>3. exec[e].pc \in Holding /\ exec'[e].pc \in Holding
    BY <2>1, <2>2 DEF Holding
  <2>4. LockHeld'
    BY <1>4, <2>1, <2>3
  <2>5. r \in Req /\ e \in lock[r] /\ ReqsOf(e)' = r /\ ~InVenv(e)'
    BY <1>3, <1>d, <2>2, <2>3 DEF InVenv
  <2>6. venv'[r] = "bare" /\ \A q \in Req \ {r} : venv'[q] = venv[q]
    BY <1>a, <2>1, <2>5
  <2>7. ASSUME r \notin spoilt'
        PROVE  Sound(r)'
    <3>1. /\ lock[r] = {e}
          /\ \A f \in Exec \ {e} : ReqsOf(f) = r =>
               exec[f].pc \notin {"venv", "install"} /\ ~InVenv(f)
      BY <1>8, <2>1, <2>7
    <3> QED
      BY <1>b, <1>c, <2>1, <2>2, <2>5, <2>6, <3>1 DEF Sound
  <2> QED
    BY <2>1, <2>4, <2>5, <2>6, <2>7, DepsOwn
<1>10. CASE UvPipInstall(e)
  <2>1. /\ spoilt' = spoilt /\ exec[e].pc = "install" /\ Unlock(e)
        /\ venv' = [venv EXCEPT ![r] = "full"]
    BY <1>10 DEF UvPipInstall, Runs
  <2>2. exec'[e].pc = "run"
    <3>1. exec' = [exec EXCEPT ![e].pc = "run", ![e].python = "venv"]
      BY <1>10 DEF UvPipInstall, Runs
    <3> QED
      BY <3>1, <1>a DEF Execution
  <2>3. exec[e].pc \in Holding
    BY <2>1 DEF Holding
  <2>4. /\ LockHeld' /\ lock'[r] = lock[r] \ {e} /\ \A q \in Req \ {r} : lock'[q] = lock[q]
    BY <1>5, <2>1, <2>2, <2>3
  <2>5. r \in Req /\ ReqsOf(e)' = r
    BY <1>3, <1>d, <2>2, <2>3
  <2>6. venv'[r] = "full" /\ \A q \in Req \ {r} : venv'[q] = venv[q]
    BY <1>a, <2>1, <2>5
  <2>7. ASSUME r \notin spoilt'
        PROVE  Sound(r)'
    <3>1. /\ lock[r] = {e}
          /\ \A f \in Exec \ {e} : ReqsOf(f) = r =>
               exec[f].pc \notin {"venv", "install"} /\ ~InVenv(f)
      BY <1>8, <2>1, <2>7
    <3>2. lock'[r] = {}
      BY <2>4, <3>1
    <3> QED
      BY <1>b, <1>c, <2>1, <2>2, <2>5, <2>6, <3>1, <3>2 DEF Sound
  <2> QED
    BY <2>1, <2>4, <2>5, <2>6, <2>7, DepsOwn
<1>11. CASE UvFails(e)
  <2>1. /\ exec[e].pc \in {"venv", "install"} /\ Unlock(e) /\ exec'[e] = NoExec
    BY <1>11, <1>a DEF UvFails
  <2>2. PICK left \in {"none", "bare", venv[r]} :
               venv' = [venv EXCEPT ![r] = left] /\ Spoils(e, left # "none")
    BY <1>11 DEF UvFails
  <2>3. exec[e].pc \in Holding /\ exec'[e].pc = "idle"
    BY <2>1 DEF Holding, NoExec
  <2>4. /\ LockHeld' /\ lock'[r] = lock[r] \ {e} /\ \A q \in Req \ {r} : lock'[q] = lock[q]
    BY <1>5, <2>1, <2>3
  <2>5. r \in Req /\ ReqsOf(e)' # r
    BY <1>3, <2>1, <2>3 DEF ReqsOf, NoExec
  <2>6. venv'[r] = left /\ \A q \in Req \ {r} : venv'[q] = venv[q]
    BY <1>a, <2>2, <2>5
  <2>7. ASSUME r \notin spoilt'
        PROVE  Sound(r)'
    <3>1. r \notin spoilt /\ left = "none"
      BY <2>2, <2>7 DEF Spoils
    <3>2. /\ lock[r] = {e}
          /\ \A f \in Exec \ {e} : ReqsOf(f) = r =>
               exec[f].pc \notin {"venv", "install"} /\ ~InVenv(f)
      BY <1>8, <2>1, <3>1
    <3>3. lock'[r] = {}
      BY <2>4, <3>2
    <3> QED
      BY <1>b, <1>c, <2>5, <2>6, <3>1, <3>2, <3>3 DEF Sound
  <2>8. spoilt \subseteq spoilt'
    BY <2>2 DEF Spoils
  <2> QED
    BY <2>4, <2>5, <2>6, <2>7, <2>8, DepsOwn
<1> QED
  BY <1>1, <1>2, <1>6, <1>7, <1>9, <1>10, <1>11 DEF Resolve

LEMMA CrashDeps ==
  ASSUME Typed, DepsInv, NEW w \in Worker, Crash(w)
  PROVE  DepsInv'
<1>a. /\ exec \in [Exec -> Execution] /\ venv \in [Req -> {"none", "bare", "full"}]
      /\ lock \in [Req -> SUBSET Exec]
      /\ LockHeld /\ HasReqs /\ \A q \in Req \ spoilt : Sound(q)
  BY DEF Typed, TypeOK, PreparationTypeOK, Execution, DepsInv
<1>1. \A e \in Exec : exec'[e] = IF exec[e].worker = w THEN NoExec ELSE exec[e]
  BY DEF Crash, WorkerCrashes
<1>2. \A r \in Req : lock'[r] = {e \in lock[r] : exec[e].worker # w}
  BY DEF Crash, WorkerCrashes
<1>3. /\ spoilt \subseteq spoilt'
      /\ \A r \in Req \ spoilt' : /\ venv'[r] = venv[r]
                                  /\ \A e \in Exec : exec[e].worker = w /\ exec[e].pc = "install" =>
                                                       ReqsOf(e) # r
  BY DEF Crash, WorkerCrashes
<1>4. \A e \in Exec : exec[e].worker # w =>
        exec'[e] = exec[e] /\ ReqsOf(e)' = ReqsOf(e) /\ InVenv(e)' = InVenv(e)
  BY <1>1 DEF ReqsOf, InVenv
<1>5. \A e \in Exec : exec[e].worker = w => exec'[e].pc = "idle" /\ ~InVenv(e)'
  BY <1>1 DEF NoExec, InVenv
<1>6. LockHeld'
  <2>1. \A e \in Exec : exec'[e].pc \in Holding => e \in lock'[ReqsOf(e)']
    BY <1>a, <1>2, <1>4, <1>5 DEF LockHeld, HasReqs, Holding
  <2>2. \A r \in Req : \A e \in lock'[r] : exec'[e].pc \in Holding /\ ReqsOf(e)' = r
    BY <1>a, <1>2, <1>4 DEF LockHeld
  <2>3. \A r \in Req : \A e, f \in lock'[r] : exec'[e].worker = exec'[f].worker => e = f
    BY <1>a, <1>2, <1>4 DEF LockHeld
  <2>4. \A e \in Exec : InVenv(e)' => ReqsOf(e)' \in Req
    BY <1>a, <1>4, <1>5 DEF LockHeld
  <2> QED
    BY <2>1, <2>2, <2>3, <2>4 DEF LockHeld
<1>7. ASSUME NEW r \in Req \ spoilt'
      PROVE  Sound(r)'
  <2>1. Sound(r) /\ venv'[r] = venv[r]
    BY <1>a, <1>3
  <2>2. \A e \in lock'[r] : e \in lock[r] /\ e \in Exec /\ exec'[e] = exec[e]
    BY <1>a, <1>2, <1>4
  <2>3. \A e \in lock'[r] : exec'[e].pc # "locked" => lock'[r] = {e}
    BY <1>2, <2>1, <2>2 DEF Sound
  <2>4. \A e \in Exec : ReqsOf(e)' = r =>
          /\ exec'[e].pc = "venv" => venv'[r] = "none"
          /\ exec'[e].pc = "install" => venv'[r] = "bare"
          /\ InVenv(e)' => venv'[r] = "full"
    BY <1>4, <1>5, <2>1 DEF Sound
  <2>5. ASSUME venv'[r] = "bare"
        PROVE  \E e \in lock'[r] : exec'[e].pc = "install"
    <3>1. PICK e \in lock[r] : exec[e].pc = "install"
      BY <2>1, <2>5 DEF Sound
    <3>2. e \in Exec /\ ReqsOf(e) = r
      BY <1>a, <3>1 DEF LockHeld
    <3>3. exec[e].worker # w
      BY <1>3, <3>1, <3>2
    <3> QED
      BY <1>2, <1>4, <3>1, <3>2, <3>3
  <2> QED
    BY <2>3, <2>4, <2>5 DEF Sound
<1> QED
  BY <1>6, <1>7 DEF DepsInv

LEMMA DepsStep ==
  ASSUME Typed, DepsInv, [Next]_vars
  PROVE  DepsInv'
<1>a. exec \in [Exec -> Execution]
  BY DEF Typed, TypeOK, PreparationTypeOK, Execution
<1>1. CASE UNCHANGED prepVars
  BY <1>1 DEF prepVars, DepsInv, LockHeld, Sound, ReqsOf, InVenv
<1>2. ASSUME NEW e \in Exec, \/ \E w \in Worker : Dispatch(e, w)
                             \/ Download(e) \/ DownloadFails(e) \/ RunEnds(e)
      PROVE  DepsInv'
  <2>1. /\ UNCHANGED <<venv, lock, spoilt>>
        /\ \A f \in Exec \ {e} : exec'[f] = exec[f]
        /\ exec[e].pc \notin Holding
    BY <1>2, <1>a DEF Dispatch, Start, Download, PrepareDir, DownloadFails, PrepareFails,
                      RunEnds, Ends, Idle, Holding
  <2>2. exec'[e].pc \in {"idle", "prepare", "resolve"}
    <3>1. CASE \E w \in Worker : Dispatch(e, w)
      BY <3>1, <1>a DEF Dispatch, Start, NoExec
    <3>2. CASE Download(e)
      BY <3>2, <1>a, Downloads
    <3>3. CASE DownloadFails(e) \/ RunEnds(e)
      BY <3>3, <1>a DEF DownloadFails, PrepareFails, RunEnds, Ends, NoExec
    <3> QED
      BY <1>2, <3>1, <3>2, <3>3
  <2> QED
    BY <2>1, <2>2, DepsQuiet DEF Holding, InVenv
<1> QED
  BY <1>1, <1>2, ResolveDeps, CrashDeps, Steps DEF vars

\* A spider runs in an environment that has all its packages, however executions of the same
\* requirements, on any number of workers, wait for, build, lose and reuse it - unless one
\* worker built it while another had it locked, or a crash or a failed removal left it half
\* built (resolveInterpreter: the lock per hash and process, the removal of what failed).
THEOREM DepsCorrect == Spec => []RunsWithItsDeps
<1>1. Init => Typed /\ DepsInv
  BY TypeInit, DepsInit
<1>2. Typed /\ DepsInv /\ [Next]_vars => Typed' /\ DepsInv'
  BY TypeStep, DepsStep
<1>3. Typed /\ DepsInv => RunsWithItsDeps
  BY DEF DepsInv, LockHeld, Sound, RunsWithItsDeps
<1> QED
  BY <1>1, <1>2, <1>3, PTL DEF Spec
=============================================================================
