--------------------------- MODULE SpaceCollection ---------------------------
(***************************************************************************)
(* Space reclamation of normal (qcow) backup points.                       *)
(*                                                                         *)
(* A backup writes a DiskSnapshot row whose parent is the previous one; its *)
(* blocks live in a qcow file, shared with the parent or new.  Retention,  *)
(* or the deletion of a plan, condemns host snapshots; the single thread   *)
(* SpaceCollectionWorker then removes or merges their disk snapshots one by *)
(* one, rewriting the parent links of the survivors, while backups add     *)
(* children and restores read the chains.                                  *)
(*                                                                         *)
(* A machine has one disk here, so a disk snapshot and the host snapshot    *)
(* it belongs to share a name; all disks have the same size.               *)
(***************************************************************************)
EXTENDS Naturals

CONSTANTS Snap,        \* identifiers (uuid) a DiskSnapshot row can get
          Reader,      \* restore tasks
          NoSnap,      \* the null foreign key
          NoReader,
          NewBackup,   \* bound: the identifiers new backups take
          InPlan,      \* the snapshots whose plan the user may delete
          MaxCrashes   \* bound: restarts of the server process

ASSUME NullAssumption == NoSnap \notin Snap /\ NoReader \notin Reader
ASSUME BoundAssumption == MaxCrashes \in Nat /\ InPlan \subseteq Snap /\ NewBackup \subseteq Snap

VARIABLES
  (* tables DiskSnapshot and HostSnapshot *)
  row,        \* the rows that exist
  parent, file, merged, refs,
  host,       \* finish_datetime and successful of the host snapshot
  deleting, deleted,
  (* table SpaceCollectionTask *)
  collect,    \* TYPE_NORMAL_MERGE / TYPE_NORMAL_DELETE of a host snapshot
  listed,     \* ext_info['tasks'] of that task
  del,        \* TYPE_DELETE_SNAPSHOT
  merge,      \* TYPE_MERGE_SNAPSHOT: stage, new and previous snapshot
  (* qcow files *)
  image,      \* internal snapshots present on disk
  local,      \* the deltas a snapshot holds in its own file
  data,       \* the deltas the machine had when it was backed up
  (* threads *)
  worker, txn, locker, reader, backup, crashes,
  raced,      \* history: deltas of points taken under a parent being collected,
              \* or left on a merged one by a restart
  cut         \* history: snapshots whose collection a restart left half done

tables == <<row, parent, file, merged, host, deleting, deleted>>
tasks  == <<collect, listed, del, merge>>
disk   == <<image, local, data>>
vars   == <<tables, refs, tasks, disk, worker, txn, locker, reader, backup,
            crashes, raced, cut>>

-----------------------------------------------------------------------------
(* Task names that lock_file appends to DiskSnapshot.reference_tasks. *)
RestoreLock(r) == <<"restore", r>>
MergeLock(s)   == <<"merge_disk_task", s>>
DeleteLock(s)  == <<"delete_disk_task", s>>
TaskName == {RestoreLock(r) : r \in Reader} \cup {MergeLock(s) : s \in Snap}
              \cup {DeleteLock(s) : s \in Snap}

Slot       == {"expire", "plan"}   \* who created the collection task
TaskType   == {"none", "merge", "delete", "finished"}
HostState  == {"none", "backuping", "successful", "failed"}
WorkerPC   == {"start", "idle", "set_merged", "txn", "list_delete", "delete",
               "deleting", "unlock", "abort", "finish", "check", "close",
               "merge_create", "merge_list", "stage0", "merge_lock", "merging",
               "merge_unlock", "stage1", "reparent", "merge_delete", "to_stage2",
               "stage2", "condemn", "collect_new", "merge_finish", "set_deleting",
               "create_task"}
Idle       == [pc |-> "idle", snap |-> NoSnap, slot |-> "none", ret |-> "idle"]
NoMerge    == [stage |-> "none", new |-> NoSnap, prev |-> NoSnap]
IdleReader == [pc |-> "idle", target |-> NoSnap, chain |-> {}, locked |-> {},
               late |-> FALSE, wait |-> NoSnap]
IdleBackup == [pc |-> "idle", parent |-> NoSnap, chain |-> {}, snap |-> NoSnap]

SnapOrNull  == Snap \cup {NoSnap}
MergeTask   == [stage : {"none", "stage0", "stage1", "stage2", "finished"},
                new : SnapOrNull, prev : SnapOrNull]
WorkerState == [pc : WorkerPC, snap : SnapOrNull, slot : Slot \cup {"none"},
                ret : {"idle", "check", "to_stage2"}]
ReaderState == [pc : {"idle", "locking", "blocked", "using", "ending"}, target : SnapOrNull,
                chain : SUBSET Snap, locked : SUBSET Snap, late : BOOLEAN, wait : SnapOrNull]
BackupState == [pc : {"idle", "queried", "created", "running"}, parent : SnapOrNull,
                chain : SUBSET Snap, snap : SnapOrNull]

-----------------------------------------------------------------------------
(* GetSnapshotList: the key nodes of the chain of s.  A node is a key node   *)
(* when it is the first, has no parent, is in another file than its parent   *)
(* or than the last key node, or when that one is still backed up.           *)
IsKeyNode(x, last) ==
  \/ last = NoSnap
  \/ parent[x] = NoSnap
  \/ file[x] # file[parent[x]]
  \/ file[x] # file[last]
  \/ host[last] = "backuping"

Walk(s) ==
  LET up[at \in SnapOrNull \X SnapOrNull] ==   \* the node and the last key node
        LET x    == at[1]
            last == at[2]
        IN  IF x = NoSnap THEN {}
            ELSE IF IsKeyNode(x, last) THEN {x} \cup up[<<parent[x], x>>]
            ELSE up[<<parent[x], last>>]
  IN  up[<<s, NoSnap>>]

KeyNodes(s) == Snap \cap Walk(s)

FileExists(s) == \E t \in image : file[t] = file[s]

(* validators is_disk_snapshot_object_exist, is_disk_snapshot_file_exist and *)
(* the AllFilesExist call that ends the walk                                 *)
ChainExists(s) ==
  \A k \in KeyNodes(s) : ~deleted[k] /\ ~merged[k] /\ FileExists(k)

(* ... and is_disk_snapshot_object_finished, ..._successful                  *)
ChainUsable(s) ==
  ChainExists(s) /\ \A k \in KeyNodes(s) : host[k] = "successful"

(* get_child_disk_snapshot_objects *)
Children(s) == {c \in row : /\ parent[c] = s
                            /\ ~merged[c]
                            /\ host[c] # "failed"
                            /\ ~deleted[c]}

(* mutants of MergeType: any snapshot with a parent, and any base, may go *)
MergeTypeAnyFile(s) == IF merged[s] THEN "no"
                       ELSE IF parent[s] = NoSnap /\ Children(s) # {} THEN "no"
                       ELSE "delete"
MergeTypeBase(s) == IF merged[s] THEN "no" ELSE "delete"

(* is_disk_snapshot_can_merge, for qcow snapshots of one size *)
MergeType(s) ==
  LET children == Children(s)
      moved    == {c \in children : file[c] # file[s]}
  IN  IF merged[s] THEN "no"
      ELSE IF children = {} THEN "delete"
      ELSE IF parent[s] = NoSnap THEN "no"
      ELSE IF moved = {} THEN "delete"
      ELSE IF file[parent[s]] = file[s] THEN "no"
      ELSE IF moved = children THEN "merge"
      ELSE "no"

Fresh(s) == s \notin row /\ \A x \in Snap : merge[x].new # s

Reparented(s, p) == [c \in Snap |-> IF c \in Children(s) THEN p ELSE parent[c]]
Locked(names, ss) == [s \in Snap |-> IF s \in ss THEN refs[s] \cup names ELSE refs[s]]
Unlocked(names, ss) == [s \in Snap |-> IF s \in ss THEN refs[s] \ names ELSE refs[s]]

Goto(pc) == worker' = [worker EXCEPT !.pc = pc]
Return   == worker' = IF worker.ret = "idle" THEN Idle
                      ELSE [worker EXCEPT !.pc = worker.ret, !.ret = "idle"]

-----------------------------------------------------------------------------
Init ==
  /\ row = {} /\ image = {} /\ raced = {} /\ cut = {}
  /\ parent = [s \in Snap |-> NoSnap] /\ file = [s \in Snap |-> s]
  /\ merged = [s \in Snap |-> FALSE] /\ refs = [s \in Snap |-> {}]
  /\ host = [s \in Snap |-> "none"]
  /\ deleting = [s \in Snap |-> FALSE] /\ deleted = [s \in Snap |-> FALSE]
  /\ collect = [s \in Snap |-> [k \in Slot |-> "none"]]
  /\ listed = [s \in Snap |-> [k \in Slot |-> {}]]
  /\ del = [s \in Snap |-> "none"] /\ merge = [s \in Snap |-> NoMerge]
  /\ local = [s \in Snap |-> {}] /\ data = [s \in Snap |-> {}]
  /\ worker = [Idle EXCEPT !.pc = "start"] /\ txn = NoSnap
  /\ locker = NoReader /\ crashes = 0
  /\ reader = [r \in Reader |-> IdleReader] /\ backup = IdleBackup

-----------------------------------------------------------------------------
(* HostBackupWorkProcessors.work: validate the chain of the last snapshot,   *)
(* then, without any lock in between, create the DiskSnapshot row under it.  *)
BackupQuery ==
  /\ backup.pc = "idle"
  /\ \E s \in NewBackup, p \in row \cup {NoSnap} :
       /\ Fresh(s)
       /\ p # NoSnap => ChainUsable(p)
       /\ backup' = [pc |-> "queried", parent |-> p, snap |-> s,
                     chain |-> IF p = NoSnap THEN {} ELSE KeyNodes(p)]
  /\ UNCHANGED <<tables, refs, tasks, disk, worker, txn, locker, reader, crashes, raced, cut>>

(* the row shares the parent's file unless the storage node, the host or the *)
(* disk changed (generate_parameters_image_path)                             *)
BackupCreate ==
  LET s == backup.snap
      p == backup.parent
      decided == worker.snap = p /\ worker.pc \in {"set_merged", "txn"}
      orphan  == merged[p] /\ ~(worker.snap = p /\ worker.pc = "reparent")
  IN  /\ backup.pc = "queried"
      /\ Fresh(s)
      /\ \E f \in {s} \cup (IF p = NoSnap THEN {} ELSE {file[p]}) :
           file' = [file EXCEPT ![s] = f]
      /\ row' = row \cup {s}
      /\ parent' = [parent EXCEPT ![s] = p]
      /\ host' = [host EXCEPT ![s] = "backuping"]
      /\ raced' = IF p # NoSnap /\ (decided \/ orphan) THEN raced \cup {s} ELSE raced
      /\ backup' = [backup EXCEPT !.pc = "created"]
      /\ UNCHANGED <<merged, deleting, deleted, refs, tasks, disk, worker, txn, locker,
                     reader, crashes, cut>>

(* send_backup_command: the image service opens the chain it was given       *)
BackupSend ==
  /\ backup.pc = "created"
  /\ \/ /\ backup.chain \subseteq image
        /\ backup' = [backup EXCEPT !.pc = "running"]
        /\ UNCHANGED host
     \/ /\ host' = [host EXCEPT ![backup.snap] = "failed"]
        /\ backup' = IdleBackup
  /\ UNCHANGED <<row, parent, file, merged, deleting, deleted, refs, tasks, disk, worker,
                 txn, locker, reader, crashes, raced, cut>>

(* report_finish, set_host_snapshot_finish *)
BackupFinish ==
  LET s == backup.snap
      p == backup.parent
  IN  /\ backup.pc = "running"
      /\ \/ /\ host' = [host EXCEPT ![s] = "successful"]
            /\ image' = image \cup {s}
            /\ local' = [local EXCEPT ![s] =
                           {s} \cup (IF p # NoSnap /\ file[p] = file[s] THEN local[p] ELSE {})]
            /\ data' = [data EXCEPT ![s] = {s} \cup (IF p = NoSnap THEN {} ELSE data[p])]
         \/ /\ host' = [host EXCEPT ![s] = "failed"]
            /\ UNCHANGED disk
      /\ backup' = IdleBackup
      /\ UNCHANGED <<row, parent, file, merged, deleting, deleted, refs, tasks, worker, txn,
                     locker, reader, crashes, raced, cut>>

-----------------------------------------------------------------------------
(* A restore: the chain is computed when the task is created, and locked     *)
(* later, file by file, under one hold of _disk_snapshot_locker.             *)
RestoreCreate(r) ==
  /\ reader[r].pc = "idle"
  /\ \E s \in row :
       /\ host[s] = "successful" /\ ~deleting[s] /\ ~deleted[s]
       /\ ChainExists(s)
       /\ reader' = [reader EXCEPT ![r] = [IdleReader EXCEPT !.pc = "locking", !.target = s,
                                                            !.chain = KeyNodes(s)]]
  /\ UNCHANGED <<tables, refs, tasks, disk, worker, txn, locker, backup, crashes, raced, cut>>

(* lock_file reads `merged` as committed, then updates the row: while the    *)
(* worker's transaction holds the row the update waits, inside the locker.   *)
(* The order of the files in the list is left open.                          *)
AddReference(r, k, late) ==
  LET held == reader[r].locked \cup {k}
      done == held = reader[r].chain
  IN  /\ refs' = Locked({RestoreLock(r)}, {k})
      /\ reader' = [reader EXCEPT ![r] =
                       [@ EXCEPT !.pc = IF done THEN "using" ELSE "locking", !.locked = held,
                                 !.late = reader[r].late \/ late, !.wait = NoSnap]]
      /\ locker' = IF done THEN NoReader ELSE r

LockFile(r) ==
  /\ reader[r].pc = "locking"
  /\ locker \in {NoReader, r}
  /\ \E k \in reader[r].chain \ reader[r].locked :
       \/ /\ merged[k]
          /\ reader' = [reader EXCEPT ![r].pc = "ending"]
          /\ locker' = NoReader
          /\ UNCHANGED refs
       \/ /\ ~merged[k] /\ k = txn
          /\ reader' = [reader EXCEPT ![r] = [@ EXCEPT !.pc = "blocked", !.wait = k]]
          /\ locker' = r
          /\ UNCHANGED refs
       \/ /\ ~merged[k] /\ k # txn
          /\ AddReference(r, k, FALSE)
  /\ UNCHANGED <<tables, tasks, disk, worker, txn, backup, crashes, raced, cut>>

LockFileWaited(r) ==
  /\ reader[r].pc = "blocked"
  /\ txn = NoSnap
  /\ AddReference(r, reader[r].wait, TRUE)
  /\ UNCHANGED <<tables, tasks, disk, worker, txn, backup, crashes, raced, cut>>

RestoreDone(r) ==
  /\ reader[r].pc = "using"
  /\ reader' = [reader EXCEPT ![r].pc = "ending"]
  /\ UNCHANGED <<tables, refs, tasks, disk, worker, txn, locker, backup, crashes, raced, cut>>

(* unlock_files skips what has been merged meanwhile *)
UnlockFiles(r) ==
  /\ reader[r].pc = "ending"
  /\ locker = NoReader
  /\ refs' = Unlocked({RestoreLock(r)}, {s \in reader[r].chain : ~merged[s]})
  /\ reader' = [reader EXCEPT ![r] = IdleReader]
  /\ UNCHANGED <<tables, tasks, disk, worker, txn, locker, backup, crashes, raced, cut>>

Using(s) == \E r \in Reader : reader[r].pc # "idle" /\ reader[r].target = s

-----------------------------------------------------------------------------
(* Condemning a host snapshot.  The user deletes the plan: the unfinished      *)
(* merge task becomes a delete task, or a new task is created; a snapshot     *)
(* that is still backed up is condemned as well.                             *)
CreateDeleteTask(s) ==
  /\ s \in row \cap InPlan /\ host[s] \in {"backuping", "successful"} /\ ~deleted[s]
  /\ IF deleting[s]
     THEN /\ collect[s]["expire"] = "merge"
          /\ collect' = [collect EXCEPT ![s]["expire"] = "delete"]
          /\ UNCHANGED deleting
     ELSE /\ deleting' = [deleting EXCEPT ![s] = TRUE]
          /\ collect' = [collect EXCEPT ![s]["plan"] = "delete"]
  /\ UNCHANGED <<row, parent, file, merged, host, deleted, refs, listed, del, merge, disk,
                 worker, txn, locker, reader, backup, crashes, raced, cut>>

(* retention (_check_normal_host_snapshot), in the worker: the rows are read,  *)
(* set_deleting returns the value of `deleting` read with the row, and the    *)
(* task is created by the next statement                                     *)
Expire(s) ==
  /\ worker = Idle
  /\ s \in row /\ host[s] = "successful" /\ ~deleting[s] /\ ~deleted[s]
  /\ worker' = [Idle EXCEPT !.pc = "set_deleting", !.snap = s]
  /\ UNCHANGED <<tables, refs, tasks, disk, txn, locker, reader, backup, crashes, raced, cut>>

SetDeleting ==
  /\ worker.pc = "set_deleting"
  /\ deleting' = [deleting EXCEPT ![worker.snap] = TRUE]
  /\ Goto("create_task")
  /\ UNCHANGED <<row, parent, file, merged, host, deleted, refs, tasks, disk, txn, locker,
                 reader, backup, crashes, raced, cut>>

(* mutant of CreateTask: the type of the task is left to its default *)
CreateTaskUntyped ==
  /\ worker.pc = "create_task"
  /\ collect' = [collect EXCEPT ![worker.snap]["expire"] = "unknown"]
  /\ worker' = Idle
  /\ UNCHANGED <<tables, refs, listed, del, merge, disk, txn, locker, reader, backup, crashes,
                 raced, cut>>

CreateTask ==
  /\ worker.pc = "create_task"
  /\ collect' = [collect EXCEPT ![worker.snap]["expire"] = "merge"]
  /\ worker' = Idle
  /\ UNCHANGED <<tables, refs, listed, del, merge, disk, txn, locker, reader, backup, crashes,
                 raced, cut>>

-----------------------------------------------------------------------------
(* SpaceCollectionWorker.run: drop the locks of deletions that died with the  *)
(* last process, but not on merged rows                                      *)
UnlockFilesByPrefix ==
  /\ worker.pc = "start" /\ locker = NoReader
  /\ refs' = Unlocked({DeleteLock(s) : s \in Snap}, {s \in row : ~merged[s]})
  /\ worker' = Idle
  /\ UNCHANGED <<tables, tasks, disk, txn, locker, reader, backup, crashes, raced, cut>>

(* mutant of StartCollect: a backup that is not finished counts as failed *)
StartCollectUnfinished(s, k) ==
  LET type == collect[s][k]
      start(pc) == worker' = [Idle EXCEPT !.pc = pc, !.snap = s, !.slot = k]
  IN  /\ worker = Idle
      /\ type \in {"merge", "delete"}
      /\ \/ (deleted[s] \/ host[s] # "successful") /\ start("close")
         \/ ~deleted[s] /\ host[s] = "successful" /\ ~Using(s) /\ start("check")
      /\ UNCHANGED <<tables, refs, tasks, disk, txn, locker, reader, backup, crashes, raced, cut>>

(* NormalHostSnapshotSpaceCollectionTask.work: the checks and the decision    *)
StartCollect(s, k) ==
  LET type == collect[s][k]
      start(pc) == worker' = [Idle EXCEPT !.pc = pc, !.snap = s, !.slot = k]
  IN  /\ worker = Idle
      /\ type \in {"merge", "delete"}
      /\ \/ (deleted[s] \/ host[s] = "failed") /\ start("close")
         \/ /\ ~deleted[s] /\ host[s] = "successful" /\ ~Using(s)
            /\ start(CASE MergeType(s) = "delete" -> "set_merged"
                       [] /\ MergeType(s) = "merge" /\ type = "merge"
                          /\ merge[s].stage = "none" -> "merge_create"
                       [] OTHER -> "check")
      /\ UNCHANGED <<tables, refs, tasks, disk, txn, locker, reader, backup, crashes, raced, cut>>

(* mutant of SetMerged: the references are not looked at *)
SetMergedUnchecked ==
  /\ worker.pc = "set_merged" /\ locker = NoReader
  /\ txn' = worker.snap /\ Goto("txn")
  /\ UNCHANGED <<tables, refs, tasks, disk, locker, reader, backup, crashes, raced, cut>>

(* work_disk, in transaction.atomic(): set_merged reads the references under  *)
(* the locker and its write stays invisible until the commit                 *)
SetMerged ==
  LET s == worker.snap
  IN  /\ worker.pc = "set_merged" /\ locker = NoReader
      /\ IF refs[s] = {}
         THEN txn' = s /\ Goto("txn")
         ELSE Goto("check") /\ UNCHANGED txn
      /\ UNCHANGED <<tables, refs, tasks, disk, locker, reader, backup, crashes, raced, cut>>

(* mergeHash2Children, update_child_disk_snapshot_object_parent (not for a    *)
(* base snapshot), DeleteDiskSnapshotTask.create, commit                     *)
Commit ==
  LET s == worker.snap
  IN  /\ worker.pc = "txn"
      /\ merged' = [merged EXCEPT ![s] = TRUE]
      /\ parent' = IF parent[s] = NoSnap THEN parent ELSE Reparented(s, parent[s])
      /\ del' = [del EXCEPT ![s] = "pending"]
      /\ txn' = NoSnap
      /\ Goto("list_delete")
      /\ UNCHANGED <<row, file, host, deleting, deleted, refs, collect, listed, merge, disk,
                     locker, reader, backup, crashes, raced, cut>>

(* insert_delete_disk_snapshot_task_to_ext_info *)
ListDelete ==
  /\ worker.pc = "list_delete"
  /\ listed' = [listed EXCEPT ![worker.snap][worker.slot] = @ \cup {"delete"}]
  /\ worker' = [worker EXCEPT !.pc = "delete", !.ret = "check"]
  /\ UNCHANGED <<tables, refs, collect, del, merge, disk, txn, locker, reader, backup, crashes,
                 raced, cut>>

-----------------------------------------------------------------------------
(* DeleteDiskSnapshotTask *)
StartDelete(s) ==
  /\ worker = Idle
  /\ del[s] = "pending"
  /\ worker' = [Idle EXCEPT !.pc = "delete", !.snap = s]
  /\ UNCHANGED <<tables, refs, tasks, disk, txn, locker, reader, backup, crashes, raced, cut>>

LockForDelete ==
  LET s == worker.snap
  IN  /\ worker.pc = "delete"
      /\ IF ~FileExists(s)
         THEN Goto("finish") /\ UNCHANGED refs
         ELSE /\ locker = NoReader
              /\ IF DeleteLock(s) \in refs[s]
                 THEN Goto("abort") /\ UNCHANGED refs
                 ELSE refs' = Locked({DeleteLock(s)}, {s}) /\ Goto("deleting")
      /\ UNCHANGED <<tables, tasks, disk, txn, locker, reader, backup, crashes, raced, cut>>

(* deleteNormalDiskSnapshot, a call of the image service that may fail.  One  *)
(* that fails when the image is gone leaves what a Crash at "unlock" leaves   *)
DeleteImage ==
  /\ worker.pc = "deleting"
  /\ \/ image' = image \ {worker.snap} /\ Goto("unlock")
     \/ Goto("abort") /\ UNCHANGED image
  /\ UNCHANGED <<tables, refs, tasks, local, data, txn, locker, reader, backup, crashes, raced, cut>>

(* mutants of UnlockAfterDelete: a failed call counts as done; a failed call  *)
(* keeps the reference                                                       *)
UnlockIgnoringFailure ==
  LET s == worker.snap
  IN  /\ worker.pc \in {"unlock", "abort"} /\ locker = NoReader
      /\ refs' = Unlocked({DeleteLock(s)}, {s}) /\ Goto("finish")
      /\ UNCHANGED <<tables, tasks, disk, txn, locker, reader, backup, crashes, raced, cut>>
UnlockOnlyIfDeleted ==
  LET s == worker.snap
  IN  /\ worker.pc \in {"unlock", "abort"} /\ locker = NoReader
      /\ refs' = IF worker.pc = "abort" THEN refs ELSE Unlocked({DeleteLock(s)}, {s})
      /\ IF worker.pc = "unlock" THEN Goto("finish") ELSE Return
      /\ UNCHANGED <<tables, tasks, disk, txn, locker, reader, backup, crashes, raced, cut>>

UnlockAfterDelete ==
  LET s == worker.snap
  IN  /\ worker.pc \in {"unlock", "abort"} /\ locker = NoReader
      /\ refs' = Unlocked({DeleteLock(s)}, {s})
      /\ IF worker.pc = "unlock" THEN Goto("finish") ELSE Return
      /\ UNCHANGED <<tables, tasks, disk, txn, locker, reader, backup, crashes, raced, cut>>

FinishDelete ==
  /\ worker.pc = "finish"
  /\ del' = [del EXCEPT ![worker.snap] = "finished"]
  /\ Return
  /\ UNCHANGED <<tables, refs, collect, listed, merge, disk, txn, locker, reader, backup,
                 crashes, raced, cut>>

(* the tail of NormalHostSnapshotSpaceCollectionTask.work *)
AllTasksFinished(s, k) == /\ "delete" \in listed[s][k] => del[s] = "finished"
                          /\ "merge" \in listed[s][k] => merge[s].stage = "finished"

SetDeleted ==
  LET s == worker.snap
  IN  /\ worker.pc = "check"
      /\ IF merged[s] /\ AllTasksFinished(s, worker.slot)
         THEN deleted' = [deleted EXCEPT ![s] = TRUE] /\ Goto("close")
         ELSE worker' = Idle /\ UNCHANGED deleted
      /\ UNCHANGED <<row, parent, file, merged, host, deleting, refs, tasks, disk, txn, locker,
                     reader, backup, crashes, raced, cut>>

SetTaskFinished ==
  /\ worker.pc = "close"
  /\ collect' = [collect EXCEPT ![worker.snap][worker.slot] = "finished"]
  /\ worker' = Idle
  /\ UNCHANGED <<tables, refs, listed, del, merge, disk, txn, locker, reader, backup, crashes,
                 raced, cut>>

-----------------------------------------------------------------------------
(* MergeDiskSnapshotTask.create, then insert_delete_disk_snapshot_task_...    *)
CreateMerge ==
  LET s == worker.snap
  IN  /\ worker.pc = "merge_create"
      /\ parent[s] # NoSnap
      /\ \E n \in Snap :
           /\ Fresh(n) /\ backup.snap # n
           /\ merge' = [merge EXCEPT ![s] = [stage |-> "stage0", new |-> n, prev |-> parent[s]]]
      /\ Goto("merge_list")
      /\ UNCHANGED <<tables, refs, collect, listed, del, disk, txn, locker, reader, backup,
                     crashes, raced, cut>>

ListMerge ==
  /\ worker.pc = "merge_list"
  /\ listed' = [listed EXCEPT ![worker.snap][worker.slot] = @ \cup {"merge"}]
  /\ Goto("stage0")
  /\ UNCHANGED <<tables, refs, collect, del, merge, disk, txn, locker, reader, backup, crashes,
                 raced, cut>>

(* deal_delete_tasks resumes an unfinished merge at its persisted stage *)
ResumeMerge(s) ==
  /\ worker = Idle
  /\ merge[s].stage \in {"stage0", "stage1", "stage2"}
  /\ worker' = [Idle EXCEPT !.pc = merge[s].stage, !.snap = s]
  /\ UNCHANGED <<tables, refs, tasks, disk, txn, locker, reader, backup, crashes, raced, cut>>

(* stage 0: _check_snapshot_object, delete_normal_snapshot of an earlier      *)
(* attempt, create_new_disk_snapshot in the file of the previous snapshot.   *)
(* What an earlier attempt left in the file is still there (see DropNew).    *)
(* A new row has no references, and nobody references n before it is finished *)
RecreateNew ==
  LET s == worker.snap
      n == merge[s].new
      p == merge[s].prev
  IN  /\ worker.pc = "stage0"
      /\ IF parent[s] # p \/ merged[p] \/ merged[s]
         THEN worker' = Idle /\ UNCHANGED tables
         ELSE /\ row' = row \cup {n}
              /\ parent' = [parent EXCEPT ![n] = p]
              /\ file' = [file EXCEPT ![n] = file[p]]
              /\ host' = [host EXCEPT ![n] = "backuping"]
              /\ deleting' = [deleting EXCEPT ![n] = TRUE]
              /\ Goto("merge_lock")
              /\ UNCHANGED <<merged, deleted>>
      /\ UNCHANGED <<refs, tasks, disk, txn, locker, reader, backup, crashes, raced, cut>>

(* delete_normal_snapshot when an attempt fails: the rows go, the image stays  *)
(* (do_del gets the path and the ident in each other's place)                *)
DropNew(n) ==
  /\ row' = row \ {n}
  /\ parent' = [parent EXCEPT ![n] = NoSnap]
  /\ host' = [host EXCEPT ![n] = "none"]
  /\ deleting' = [deleting EXCEPT ![n] = FALSE]

(* mutant of LockForMerge: its error handler releases nothing *)
LockForMergeKeeping ==
  LET s == worker.snap
      m == {MergeLock(s)}
      chain == KeyNodes(merge[s].prev)
      good == ChainExists(merge[s].prev) /\ \A k \in chain : MergeLock(s) \notin refs[k]
  IN  /\ worker.pc = "merge_lock" /\ locker = NoReader
      /\ IF good
         THEN /\ refs' = Locked(m, chain \cup {s})
              /\ Goto("merging")
              /\ UNCHANGED <<row, parent, host, deleting>>
         ELSE DropNew(merge[s].new) /\ worker' = Idle /\ UNCHANGED refs
      /\ UNCHANGED <<file, merged, deleted, tasks, disk, txn, locker, reader, backup, crashes,
                     raced, cut>>

(* _do_merge_logic locks the snapshot (after dropping a lock of its own) and  *)
(* the chain below; a name left on the chain by a dead attempt is an error,  *)
(* whose handler releases the chain.  The code takes the locker for each      *)
(* file; one step stands for all, since nobody but the worker reads the names *)
(* of merges, and a redo after a restart goes on from any part of the locks   *)
LockForMerge ==
  LET s == worker.snap
      m == {MergeLock(s)}
      chain == KeyNodes(merge[s].prev)
  IN  /\ worker.pc = "merge_lock" /\ locker = NoReader
      /\ CASE ~ChainExists(merge[s].prev) ->
                 /\ refs' = Unlocked(m, {s})
                 /\ worker' = Idle
                 /\ UNCHANGED <<row, parent, host, deleting>>
           [] ChainExists(merge[s].prev) /\ (\E k \in chain : MergeLock(s) \in refs[k]) ->
                 /\ refs' = Unlocked(m, chain \cup {s})
                 /\ DropNew(merge[s].new)
                 /\ worker' = Idle
           [] OTHER ->
                 /\ refs' = Locked(m, chain \cup {s})
                 /\ Goto("merging")
                 /\ UNCHANGED <<row, parent, host, deleting>>
      /\ UNCHANGED <<file, merged, deleted, tasks, disk, txn, locker, reader, backup, crashes,
                     raced, cut>>

(* mergeQcowFile, a call of the image service that may fail, with or without   *)
(* the new image in the file                                                  *)
MergeImage ==
  LET s == worker.snap
      n == merge[s].new
  IN  /\ worker.pc = "merging"
      /\ \/ /\ image' = image \cup {n}
            /\ local' = [local EXCEPT ![n] = local[merge[s].prev] \cup local[s]]
            /\ data' = [data EXCEPT ![n] = data[s]]
            /\ Goto("merge_unlock")
            /\ UNCHANGED <<row, parent, host, deleting, refs>>
         \/ /\ locker = NoReader
            /\ DropNew(n)
            /\ image' \in {image, image \cup {n}}
            /\ refs' = Unlocked({MergeLock(s)}, KeyNodes(merge[s].prev) \cup {s})
            /\ worker' = Idle
            /\ UNCHANGED <<local, data>>
      /\ UNCHANGED <<file, merged, deleted, tasks, txn, locker, reader, backup, crashes, raced, cut>>

(* mutant of UnlockAfterMerge: the persisted stage is one ahead of the work *)
UnlockAfterMergeAhead ==
  LET s == worker.snap
  IN  /\ worker.pc = "merge_unlock" /\ locker = NoReader
      /\ refs' = Unlocked({MergeLock(s)}, KeyNodes(merge[s].prev) \cup {s})
      /\ merge' = [merge EXCEPT ![s].stage = "stage2"]
      /\ Goto("stage1")
      /\ UNCHANGED <<tables, collect, listed, del, disk, txn, locker, reader, backup, crashes,
                     raced, cut>>

UnlockAfterMerge ==
  LET s == worker.snap
  IN  /\ worker.pc = "merge_unlock" /\ locker = NoReader
      /\ refs' = Unlocked({MergeLock(s)}, KeyNodes(merge[s].prev) \cup {s})
      /\ merge' = [merge EXCEPT ![s].stage = "stage1"]
      /\ Goto("stage1")
      /\ UNCHANGED <<tables, collect, listed, del, disk, txn, locker, reader, backup, crashes,
                     raced, cut>>

(* mutant of SetMergedStage1: the result of set_merged is not looked at *)
SetMergedStage1Unasked ==
  LET s == worker.snap
  IN  /\ worker.pc = "stage1" /\ locker = NoReader
      /\ IF merged[s] THEN Goto("to_stage2") /\ UNCHANGED merged
         ELSE /\ merged' = [merged EXCEPT ![s] = (refs[s] = {})]
              /\ Goto("reparent")
      /\ UNCHANGED <<row, parent, file, host, deleting, deleted, refs, tasks, disk, txn, locker,
                     reader, backup, crashes, raced, cut>>

(* stage 1: set_merged, reparent the children, create the delete task; no    *)
(* transaction holds the three together, and a redo skips the last two       *)
SetMergedStage1 ==
  LET s == worker.snap
  IN  /\ worker.pc = "stage1" /\ locker = NoReader
      /\ IF merged[s] THEN Goto("to_stage2") /\ UNCHANGED merged
         ELSE IF refs[s] # {} THEN worker' = Idle /\ UNCHANGED merged
         ELSE merged' = [merged EXCEPT ![s] = TRUE] /\ Goto("reparent")
      /\ UNCHANGED <<row, parent, file, host, deleting, deleted, refs, tasks, disk, txn, locker,
                     reader, backup, crashes, raced, cut>>

Reparent ==
  LET s == worker.snap
  IN  /\ worker.pc = "reparent"
      /\ parent' = Reparented(s, merge[s].new)
      /\ Goto("merge_delete")
      /\ UNCHANGED <<row, file, merged, host, deleting, deleted, refs, tasks, disk, txn, locker,
                     reader, backup, crashes, raced, cut>>

CreateDelete ==
  /\ worker.pc = "merge_delete"
  /\ del' = [del EXCEPT ![worker.snap] = "pending"]
  /\ worker' = [worker EXCEPT !.pc = "delete", !.ret = "to_stage2"]
  /\ UNCHANGED <<tables, refs, collect, listed, merge, disk, txn, locker, reader, backup,
                 crashes, raced, cut>>

ToStage2 ==
  /\ worker.pc = "to_stage2"
  /\ merge' = [merge EXCEPT ![worker.snap].stage = "stage2"]
  /\ Goto("stage2")
  /\ UNCHANGED <<tables, refs, collect, listed, del, disk, txn, locker, reader, backup, crashes,
                 raced, cut>>

(* stage 2: finish the host snapshot of the new disk snapshot and condemn it  *)
(* in turn; the merge task is finished last                                  *)
FinishNew ==
  LET n == merge[worker.snap].new
  IN  /\ worker.pc = "stage2"
      /\ IF host[n] = "backuping"
         THEN /\ host' = [host EXCEPT ![n] = "successful"]
              /\ deleting' = [deleting EXCEPT ![n] = FALSE]
         ELSE UNCHANGED <<host, deleting>>
      /\ Goto("condemn")
      /\ UNCHANGED <<row, parent, file, merged, deleted, refs, tasks, disk, txn, locker, reader,
                     backup, crashes, raced, cut>>

CondemnNew ==
  LET n == merge[worker.snap].new
  IN  /\ worker.pc = "condemn"
      /\ deleting' = [deleting EXCEPT ![n] = TRUE]
      /\ Goto(IF deleting[n] THEN "merge_finish" ELSE "collect_new")
      /\ UNCHANGED <<row, parent, file, merged, host, deleted, refs, tasks, disk, txn, locker,
                     reader, backup, crashes, raced, cut>>

CollectNew ==
  /\ worker.pc = "collect_new"
  /\ collect' = [collect EXCEPT ![merge[worker.snap].new]["expire"] = "merge"]
  /\ Goto("merge_finish")
  /\ UNCHANGED <<tables, refs, listed, del, merge, disk, txn, locker, reader, backup, crashes,
                 raced, cut>>

(* the caller, if it is the collection task, still holds the row as it was    *)
(* read before the merge: it finds it unmerged and stops there               *)
FinishMerge ==
  /\ worker.pc = "merge_finish"
  /\ merge' = [merge EXCEPT ![worker.snap].stage = "finished"]
  /\ worker' = Idle
  /\ UNCHANGED <<tables, refs, collect, listed, del, disk, txn, locker, reader, backup, crashes,
                 raced, cut>>

-----------------------------------------------------------------------------
(* The server process restarts: its threads die, the open transaction is     *)
(* rolled back.  Restores still being prepared are finished by the restart,  *)
(* running ones go on in the image service; so do running backups.  What the *)
(* worker had done in the database stays, and nothing redoes the rest of it:  *)
(* the task of a condemned snapshot, and in stage 1 of a merge the new parent *)
(* links and the delete task.                                                *)
HalfDone ==
  LET s == worker.snap
  IN  CASE worker.pc \in {"create_task", "reparent", "merge_delete"} -> {s}
        [] worker.pc = "collect_new" -> {merge[s].new}
        [] OTHER -> {}

Crash ==
  /\ crashes < MaxCrashes
  /\ crashes' = crashes + 1
  /\ worker' = [Idle EXCEPT !.pc = "start"]
  /\ txn' = NoSnap /\ locker' = NoReader
  /\ reader' = [r \in Reader |-> IF reader[r].pc \in {"locking", "blocked"}
                                THEN [reader[r] EXCEPT !.pc = "ending"] ELSE reader[r]]
  /\ IF backup.pc \in {"queried", "created"}
     THEN /\ host' = IF backup.pc = "created" THEN [host EXCEPT ![backup.snap] = "failed"]
                     ELSE host
          /\ backup' = IdleBackup
     ELSE UNCHANGED <<host, backup>>
  /\ cut' = cut \cup HalfDone
  /\ raced' = IF worker.pc = "reparent"
              THEN raced \cup (data[worker.snap] \ data[parent[worker.snap]])
              ELSE raced
  /\ UNCHANGED <<row, parent, file, merged, deleting, deleted, refs, tasks, disk>>

-----------------------------------------------------------------------------
BackupStep == BackupQuery \/ BackupCreate \/ BackupSend \/ BackupFinish
ReaderStep(r) == \/ RestoreCreate(r) \/ LockFile(r) \/ LockFileWaited(r)
                 \/ RestoreDone(r) \/ UnlockFiles(r)
PickTask(s) == (\E k \in Slot : StartCollect(s, k)) \/ StartDelete(s) \/ ResumeMerge(s)
DeleteStep == \/ SetMerged \/ Commit \/ ListDelete \/ LockForDelete \/ DeleteImage
              \/ UnlockAfterDelete \/ FinishDelete \/ SetDeleted \/ SetTaskFinished
MergeStep == \/ CreateMerge \/ ListMerge \/ RecreateNew \/ LockForMerge \/ MergeImage
             \/ UnlockAfterMerge \/ SetMergedStage1 \/ Reparent \/ CreateDelete \/ ToStage2
             \/ FinishNew \/ CondemnNew \/ CollectNew \/ FinishMerge
WorkerStep == SetDeleting \/ CreateTask \/ UnlockFilesByPrefix \/ DeleteStep \/ MergeStep
Condemn(s) == CreateDeleteTask(s) \/ Expire(s)

Next == \/ BackupStep
        \/ \E r \in Reader : ReaderStep(r)
        \/ \E s \in Snap : Condemn(s) \/ PickTask(s)
        \/ WorkerStep
        \/ Crash

Spec == Init /\ [][Next]_vars

-----------------------------------------------------------------------------
(* PROPERTIES *)

TablesOK ==
  /\ row \subseteq Snap
  /\ parent \in [Snap -> SnapOrNull] /\ file \in [Snap -> Snap]
  /\ merged \in [Snap -> BOOLEAN] /\ refs \in [Snap -> SUBSET TaskName]
  /\ host \in [Snap -> HostState]
  /\ deleting \in [Snap -> BOOLEAN] /\ deleted \in [Snap -> BOOLEAN]
TasksOK ==
  /\ collect \in [Snap -> [Slot -> TaskType]]
  /\ listed \in [Snap -> [Slot -> SUBSET {"delete", "merge"}]]
  /\ del \in [Snap -> {"none", "pending", "finished"}]
  /\ merge \in [Snap -> MergeTask]
DiskOK ==
  /\ image \subseteq Snap /\ raced \subseteq Snap /\ cut \subseteq Snap
  /\ local \in [Snap -> SUBSET Snap] /\ data \in [Snap -> SUBSET Snap]
WorkerOK ==
  /\ worker \in WorkerState
  /\ txn \in SnapOrNull
ClientsOK ==
  /\ locker \in Reader \cup {NoReader} /\ crashes \in 0..MaxCrashes
  /\ reader \in [Reader -> ReaderState]
  /\ backup \in BackupState

(* Type correctness of the rows, the tasks, the disk and the threads. *)
TypeOK == TablesOK /\ TasksOK /\ DiskOK /\ WorkerOK /\ ClientsOK

(* the deltas that reading the chain of s yields *)
Readable(chain) == UNION {local[k] : k \in chain \cap image}
Kept(s) == s \in row /\ host[s] = "successful" /\ ~deleting[s]

(* A backup point that nobody condemned can be read back as it was when it    *)
(* was taken, whatever was deleted or merged around it: no node of its chain  *)
(* is merged or gone.  It leaves out what was taken on top of a point that    *)
(* was being collected, since a backup validates its parent before it creates *)
(* its row under it, and the step between set_merged and the new parent links *)
(* (MergeDiskSnapshotTask, stage 1), with the points it leaves behind when    *)
(* the process restarts there.                                               *)
ChainIntact ==
  worker.pc # "reparent" =>
    \A s \in Snap : Kept(s) /\ data[s] \cap raced = {} =>
      ChainExists(s) /\ KeyNodes(s) \subseteq image /\ Readable(KeyNodes(s)) = data[s]

(* What a restore has locked stays on the disk until it is done, and is the   *)
(* content of the point it restores.                                          *)
RestoreStable ==
  \A r \in Reader :
    reader[r].pc = "using" /\ ~reader[r].late /\ data[reader[r].target] \cap raced = {} =>
      reader[r].chain \subseteq image /\ Readable(reader[r].chain) = data[reader[r].target]

(* set_merged and lock_file exclude each other: nothing that a task holds a   *)
(* reference on is marked as merged (only delete tasks reference merged rows). *)
LockedNotMerged ==
  \A r \in Reader : reader[r].pc \in {"locking", "using"} /\ ~reader[r].late =>
    \A k \in reader[r].locked : ~merged[k]

(* Space is not lost: as long as a merged snapshot is on the disk, a delete   *)
(* task for it is unfinished or about to be created; and a host snapshot is   *)
(* shown as deleted only after its disk snapshot was merged.  A restart in    *)
(* stage 1 of a merge, before the delete task is created, loses that task.    *)
NothingLeaks ==
  \A s \in row :
    /\ deleted[s] => merged[s]
    /\ merged[s] /\ s \in image \ cut =>
         del[s] = "pending" \/ (worker.snap = s /\ worker.pc \in {"reparent", "merge_delete"})

(* No condemned point is forgotten: while it is not deleted, a task for it is *)
(* there or about to be created.  The flag and the task are two statements of *)
(* the worker: a restart between them loses the task.                         *)
CondemnedHasTask ==
  \A s \in row \ cut : deleting[s] /\ ~deleted[s] /\ host[s] # "failed" =>
    \/ \E k \in Slot : collect[s][k] \in {"merge", "delete"}
    \/ worker.pc = "create_task" /\ worker.snap = s
    \/ \E t \in Snap : merge[t].new = s /\ merge[t].stage # "finished"

(* A finished merge has done all of it, redone or not: no kept point hangs on *)
(* the old snapshot any more, which has its delete task.  The exceptions are  *)
(* those of ChainIntact and NothingLeaks.                                    *)
MergeDoesAll ==
  \A s \in Snap : merge[s].stage = "finished" =>
    /\ merged[s] /\ (s \notin cut => del[s] # "none")
    /\ \A x \in Snap : Kept(x) /\ data[x] \cap raced = {} => parent[x] # s

(* Files a restore holds are on the disk ("late" included).                   *)
RestoreHoldsFiles ==
  \A r \in Reader : reader[r].pc = "using" /\ reader[r].chain \cap raced = {} => reader[r].chain \subseteq image

=============================================================================
