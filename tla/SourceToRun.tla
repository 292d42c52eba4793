----------------------------- MODULE SourceToRun ----------------------------
(***************************************************************************)
(* From the branch to the process: syncs change a spider's row and its     *)
(* archives, the dispatcher sends the key on record, and the execution     *)
(* downloads what it finds under that key when its turn comes.             *)
(***************************************************************************)
EXTENDS SpiderSources, TaskPreparation

\* What is downloaded is what was uploaded.
ASSUME ComposedAssumption == Source = Commit /\ NoSource = NoCommit

vars == <<sourceVars, prepVars>>

Init == SourcesInit /\ PreparationInit

\* buildAssign: a spider that is deleted or was never synced is not dispatched.
Dispatch(e, w) ==
  /\ Found
  /\ spider.key # 0
  /\ Start(e, w, spider.key, spider.commit)
  /\ UNCHANGED sourceVars

Download(e) == exec[e].pc = "prepare" /\ PrepareDir(e, archive[exec[e].key]) /\ UNCHANGED sourceVars

DownloadFails(e) == PrepareFails(e) /\ UNCHANGED sourceVars

ResolveStep(e) == Resolve(e) /\ UNCHANGED sourceVars

RunEnds(e) == Ends(e) /\ UNCHANGED sourceVars

Crash(w) == WorkerCrashes(w) /\ UNCHANGED sourceVars

Next ==
  \/ SourcesNext /\ UNCHANGED prepVars
  \/ \E e \in Exec : \/ \E w \in Worker : Dispatch(e, w)
                     \/ Download(e) \/ DownloadFails(e)
                     \/ ResolveStep(e) \/ RunEnds(e)
  \/ \E w \in Worker : Crash(w)

Spec == Init /\ [][Next]_vars

TypeOK == SourcesTypeOK /\ PreparationTypeOK

\* As long as no two syncs overlap, an execution runs the sources that were on record when
\* it was dispatched, whatever has been synced, failed or half marked since: a version's
\* archive is never replaced once the row has named it (newVer, MarkSynced, buildAssign).
RunsWhatWasOnRecord ==
  ~overlapped => \A e \in Exec : exec[e].source # NoSource => exec[e].source = exec[e].meant
=============================================================================
