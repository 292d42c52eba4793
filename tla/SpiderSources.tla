---------------------------- MODULE SpiderSources ---------------------------
(***************************************************************************)
(* A spider's row and its versioned archives: the calls that create, edit  *)
(* and delete a spider, and the ones that sync it (internal/spider/        *)
(* service.go, internal/gitsource/syncer.go, internal/repository/          *)
(* spiders.go). A sync reads the row, clones the branch, uploads the       *)
(* archive under the next version's key and marks the row. It holds no     *)
(* lock and checks nothing when it marks: two syncs at once use the same   *)
(* key. A commit stands for the sources it holds, a key for its version.   *)
(***************************************************************************)
EXTENDS Integers

CONSTANTS
  Syncer,      \* sync calls that can be under way at once: a bound
  MaxCommit,   \* commits of the branch: a bound
  MaxVersion,  \* versions of the archive: a bound
  NoCommit     \* where there is none

ASSUME SourcesAssumption ==
  /\ MaxCommit \in Nat \ {0} /\ MaxVersion \in Nat \ {0}
  /\ NoCommit \notin 1 .. MaxCommit

VARIABLES
  head,       \* the newest commit of the branch
  spider,     \* the row: git_url given, source_key and source_version, last_sync_commit,
              \* deleted_at (last_sync_error is only shown to the user)
  archive,    \* the object under each key
  sync,       \* each sync call: where it is, and the version and commit it has read
  overlapped  \* history: two syncs have been under way at once

sourceVars == <<head, spider, archive, sync, overlapped>>

Commit == 1 .. MaxCommit
Version == 1 .. MaxVersion

NoSync == [pc |-> "idle", version |-> 0, commit |-> NoCommit]

SourcesInit ==
  /\ head = 1
  /\ spider = [life |-> "none", url |-> FALSE, key |-> 0, version |-> 0,
               commit |-> NoCommit]
  /\ archive = [v \in Version |-> NoCommit]
  /\ sync = [c \in Syncer |-> NoSync]
  /\ overlapped = FALSE

-----------------------------------------------------------------------------
(* The statements on the row.                                              *)

\* Get finds the row.
Found == spider.life = "live"

InsertedRow(url) == [spider EXCEPT !.life = "live", !.url = url]

UpdatedRow(url) == [spider EXCEPT !.url = url]

DeletedRow == [spider EXCEPT !.life = "deleted"]

\* Mutant: the version on record is counted up, whatever version was read.
SyncedRowCountsUp(version, commit) ==
  [spider EXCEPT !.key = version, !.version = @ + 1, !.commit = commit]

\* MarkSynced: the row as it is by now, deleted or synced by another.
SyncedRow(version, commit) ==
  [spider EXCEPT !.key = version, !.version = version, !.commit = commit]

-----------------------------------------------------------------------------
(* The calls that change it at once.                                       *)

Create(url) ==
  /\ spider.life = "none"
  /\ spider' = InsertedRow(url)
  /\ UNCHANGED <<head, archive, sync, overlapped>>

Update(url) ==
  /\ Found
  /\ spider' = UpdatedRow(url)
  /\ UNCHANGED <<head, archive, sync, overlapped>>

Delete ==
  /\ Found
  /\ spider' = DeletedRow
  /\ UNCHANGED <<head, archive, sync, overlapped>>

\* The handlers: a PATCH that names no git_url takes it away; the source stays.
Post == \E url \in BOOLEAN : Create(url)
Patch == \E url \in BOOLEAN : Update(url)

\* Somebody pushes to the branch.
Push ==
  /\ head < MaxCommit
  /\ head' = head + 1
  /\ UNCHANGED <<spider, archive, sync, overlapped>>

-----------------------------------------------------------------------------
(* Sync.                                                                   *)

\* The row is read; a spider without a git_url is refused.
SyncBegins(c) ==
  /\ sync[c].pc = "idle"
  /\ Found /\ spider.url
  /\ spider.version < MaxVersion
  /\ sync' = [sync EXCEPT ![c] = [NoSync EXCEPT !.pc = "clone", !.version = spider.version]]
  /\ overlapped' = (overlapped \/ \E d \in Syncer : sync[d].pc # "idle")
  /\ UNCHANGED <<head, spider, archive>>

Clone(c) ==
  /\ sync[c].pc = "clone"
  /\ sync' = [sync EXCEPT ![c].pc = "upload", ![c].commit = head]
  /\ UNCHANGED <<head, spider, archive, overlapped>>

\* Mutant: the archive goes under the key of the version that was read.
KeyOfRead(c) == IF sync[c].version = 0 THEN 1 ELSE sync[c].version

NewKey(c) == sync[c].version + 1

Upload(c) ==
  /\ sync[c].pc = "upload"
  /\ archive' = [archive EXCEPT ![NewKey(c)] = sync[c].commit]
  /\ sync' = [sync EXCEPT ![c].pc = "mark"]
  /\ UNCHANGED <<head, spider, overlapped>>

\* Mutant: the row is marked although the upload has failed.
FailsMarked(c) ==
  /\ sync[c].pc \in {"clone", "upload"}
  /\ sync' = [sync EXCEPT ![c].pc = IF sync[c].pc = "clone" THEN "failed" ELSE "mark"]
  /\ UNCHANGED <<head, spider, archive, overlapped>>

\* The clone or the upload fails; the archive may have been stored all the same. All that is
\* left to do is MarkSyncFailed, which needs neither version nor commit.
Fails(c) ==
  /\ sync[c].pc \in {"clone", "upload"}
  /\ archive' \in {archive} \cup
       {[archive EXCEPT ![NewKey(c)] = x] : x \in {sync[c].commit} \ {NoCommit}}
  /\ sync' = [sync EXCEPT ![c] = [NoSync EXCEPT !.pc = "failed"]]
  /\ UNCHANGED <<head, spider, overlapped>>

MarkSynced(c) ==
  /\ sync[c].pc = "mark"
  /\ spider' = SyncedRow(NewKey(c), sync[c].commit)
  /\ sync' = [sync EXCEPT ![c] = NoSync]
  /\ UNCHANGED <<head, archive, overlapped>>

\* The row gets the error, and keeps the version, the key and the commit it has.
MarkSyncFailed(c) ==
  /\ sync[c].pc = "failed"
  /\ sync' = [sync EXCEPT ![c] = NoSync]
  /\ UNCHANGED <<head, spider, archive, overlapped>>

\* The statement fails (so does the second one when the client has gone and its context
\* with it), or the master dies at any point of the call.
SyncLost(c) ==
  /\ sync[c].pc # "idle"
  /\ sync' = [sync EXCEPT ![c] = NoSync]
  /\ UNCHANGED <<head, spider, archive, overlapped>>

-----------------------------------------------------------------------------
SourcesNext ==
  \/ Post \/ Patch \/ Delete \/ Push
  \/ \E c \in Syncer : \/ SyncBegins(c) \/ Clone(c) \/ Upload(c) \/ Fails(c)
                       \/ MarkSynced(c) \/ MarkSyncFailed(c) \/ SyncLost(c)

SourcesTypeOK ==
  /\ head \in Commit
  /\ spider \in [life : {"none", "live", "deleted"}, url : BOOLEAN, key : {0} \cup Version,
                 version : {0} \cup Version, commit : Commit \cup {NoCommit}]
  /\ archive \in [Version -> Commit \cup {NoCommit}]
  /\ sync \in [Syncer -> [pc : {"idle", "clone", "upload", "mark", "failed"},
                          version : 0 .. MaxVersion - 1, commit : Commit \cup {NoCommit}]]
  /\ overlapped \in BOOLEAN

\* The source on record can always be downloaded, whatever syncs failed, overlapped or
\* were cut off (MarkSyncFailed: "the last good source remains usable").
SourceUsable == spider.key # 0 => archive[spider.key] # NoCommit
=============================================================================
