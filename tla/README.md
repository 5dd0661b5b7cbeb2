# Box_Dashboard in TLA+

Box_Dashboard is the management server of a backup appliance: a Django
application that schedules backups of hosts, keeps their chains of disk
snapshots in PostgreSQL, tells the agents and an image service (Ice RPC, outside
this repository) what to read and write, and reclaims the space of what has
expired.  This directory models its concurrent core, checks it with TLC on small
instances and proves the most important facts with TLAPS.

## 1. Inventory

All of the core is in `src/apiv1/`.  Everything shares one database, one process
with many threads, and a few module level locks.

| component | state | operations | what makes it correct |
|---|---|---|---|
| space reclamation (`spaceCollection.py`) | `SpaceCollectionTask` rows with a stage in `ext_info`, `deleting`/`deleted`/`merged` flags | retention, deletion of a plan, delete and merge tasks of disk snapshots, one worker thread, restart | a kept backup point stays readable; no space is lost; each condemned point is collected in the end |
| snapshot chains and locker (`snapshot.py`) | `DiskSnapshot.parent_snapshot`, `image_path`, `reference_tasks`; `_disk_snapshot_locker` | walk a chain with validators, lock and unlock files, `set_merged` | what is referenced is not merged; a chain handed out exists |
| backup of a host (`tasks.py`, `work_processors.py`, `logic_processors.py`) | `BackupTask`, `HostSnapshot` rows, one thread per task | start, queue, command, agent reports, cancel, finish, rework after restart | one backup per host; each task ends once; the result is that of its own backup |
| queue of tasks (`task_queue.py`) | `_running_tasks`, `_queuing_tasks`, `_locker` | `queue`, `add_running` | first in first out; the limit holds; nobody waits for ever |
| plans and retries (`planScheduler.py`, `BackupScheduleRetryHandle`) | `next_run_date`, `ext_config` of a plan | start what is due, count retries | a plan runs when due; retries are bounded |
| CDP (`snapshot.py` Tokens, `cdp_wrapper.py`, `tasks.py`) | `CDPDiskToken`, `DiskSnapshotCDP`; `_cdp_locker` | change of file, time stamps, stop | a token writes to one file; the last file knows its end |
| CDP merge (`spaceCollection.py` 245-1130) | sub tasks with a `finished` flag | merge CDP files into a snapshot, redo | no interval is lost or merged twice |
| restore, shares, takeover (`restore.py`, `hostshare.py`, `takeover_*.py`) | references on files, target sessions | lock the chain, use it, unlock | files stay while they are used |
| compression (`compress.py`) | `CompressTask` rows, pid of one process; `_compress_task_lock` | choose, run in slices, cancel | no compressor on a file that is read or deleted |
| hash files (`snapshot.py` 52-170) | hash file per disk snapshot; `_rehash_locker` | reorganise, merge into children | a child's hash is never older than its data |
| cluster, CDP cluster, hot standby, archive, remote backup, verification, file sync, VMware | task rows and task flows | flows of an external engine over the operations above | as above, per flow |
| storage nodes, quotas, licence, dashboard, web guard | mounts, settings, pages | I/O and forms | outside the scope |

Hard behaviour: threads that look at a row and act on it later; locks released
before the transaction they guard commits; persisted stages redone after a
restart; RPC that fails half way; reports of agents that come late; retention
that runs against backups, restores and the user.  `PROJECT.json` lists each
such place under `hazards` with the properties that cover it.

## 2. Modules

### SpaceCollection

The rows, the images and the threads around the reclamation of qcow snapshots.

* *Tables*: `row`, `parent`, `file` (`image_path`), `merged`, `refs`
  (`reference_tasks`), `host` (`finish_datetime` and `successful` of the host
  snapshot), `deleting`, `deleted`; `collect` and `listed` (the task of a host
  snapshot and `ext_info['tasks']`), `del`, `merge` (the tasks of a disk
  snapshot; `stage` is the persisted stage).
* *Disk*: `image` is the set of internal snapshots the qcow files hold,
  `local[s]` the deltas stored in the file of `s`, `data[s]` the deltas the
  machine consisted of when `s` was taken.  A point is readable when the deltas
  of its chain (`KeyNodes`, the walk of `GetSnapshotList`) are `data[s]`.
* *Threads*: the worker (`pc` names the statement it stands at; one action per
  stretch between two writes, lock operations or RPC calls), the restores, one
  backup at a time.  `txn` is the row the open transaction of `work_disk` has
  written and not committed: others read the old value, and an update waits for
  it.  `Crash` is a restart of the process.
* *History*: what the properties leave out is recorded when it happens.  `raced` holds
  the points taken on a parent already being merged, and those a restart in the
  middle of stage 1 of a merge leaves behind; `cut` holds the snapshot whose task was
  about to be created when the process died (`HalfDone`).  No action reads them.

Actions carry the names of the methods where one method is one action; a method
with several steps is a chain of actions (`SetMerged`, `Commit`, `ListDelete` are
`work_disk`; `RecreateNew` to `FinishMerge` are `MergeDiskSnapshotTask.work`).

Abstractions: a machine has one disk, so its host snapshot and disk snapshot
share a name; disks have one size; which points expire is left open (any
successful one may), so every retention rule is covered; the worker may visit its
tasks in any order; the order in which files are locked is left open;
`CreateDeleteTask` (the REST thread) is one step; which file a backup gets is
left open between its parent's and a new one; `ChainUsable` looks at the key nodes, as the
fetch of a backup without optimisation does (`generate_parameters_last_snapshot`; the fetch
for the hash files looks at all nodes and takes a part of these chains).  `LockForMerge` is
one step where the code takes the locker once per file: only the worker reads the
names of merges, and a redo passes any part of them.  `DeleteImage` that
fails keeps the image; one that fails when the image is gone leaves the
state a `Crash` between the call and the release leaves, from where the task is
done again in the same way.  The image service and its
behaviour on a left-over image are external: its calls succeed or fail.

### SpaceCollectionLoop

The rounds of `SpaceCollectionWorker.do_run` around the actions of
`SpaceCollection`: one query after the other, each result visited once, tasks
that cannot be worked on skipped.  `LoopSpec => Spec` is proved
(`LoopImplements`), so what holds of `SpaceCollection` in any order holds of the
loop.  Fairness is stated on the loop, and with it the liveness properties.

*Fairness.*  The worker thread never ends (`run` and the loops catch what a task
raises), so its next step is taken if it is enabled again and again; it is strong
fairness because a step can wait for `_disk_snapshot_locker`, which others
take and release infinitely often (a `threading` lock gives it to some
waiter).  A call to the image service may fail any number of times in a row, not
for ever.  Backups and restores go on (weak fairness).  Nothing is assumed of the
user, of new backups or of restarts.

### CdpToken

The files one CDP disk writes.  `row` and `parent` are the rows of the files,
`using` and `last` the two links of the token (`CDPDiskToken`), `size[f]` the writes
that reached the disk, `range[f]` those `last_timestamp` covers, `queue` and `stamp` the
thread of time stamps, `kts` the KT service (external: it writes where it was told
to by `updateToken`, and asks for another file), `op[t]` the threads.  `info` are the
files whose `DiskSnapshotCDP` row is still there: a request looks for it under the
lock.  `Request` is the set of requests that close a file; any number of them run side by
side.  The other threads are there once because more of them would add nothing:
a refresh does all of its work under `_cdp_locker`, a change compares the path under the
lock, so a second one for the same file ends in `Invalid`, and the rotation and
the end of the task are one thread each.

| action | code |
|---|---|
| `Refresh`, `Generate`, `SaveUsing`, `Send`, `SendFails` | `refresh_cdp_file_logic`: the two rows, then the token, then `updateToken` |
| `KtsAsks`, `Valid`, `Invalid`, `Close`, `Verify` | `change_cdp_file_logic`: the old file is suspended, then the plan is checked and a new one made |
| `ReadUsing` | the rotation thread and the request that closes a file read the token before they take `_cdp_locker` |
| `Suspend`, `Drop`, `CloseUsing`, `Enqueue` | `suspend_disk_snapshot_cdp_object`, for a file on the disk and for one that was never written |
| `Pause`, `PauseFails`, `Again` | `set_token` with the file gone, and the second suspend |
| `Finish`, `ReadToken`, `Remove` | `finish_cdp_task_object` and `deal_cdp_when_backup_ok`; the worker calls the parts without the lock |
| `Query`, `Record` | `UpdateDiskSnapshotCdpTimestamp.run` |
| `Restart` | the queue and all threads are lost, an unfinished task gets a `CDPTaskReWorker` |

The size of a file tells only whether, and how far, it was written: what
`os.path.exists` and the range of times see.  `unsure` is a history of files whose
range may stay open: a call to the KT service failed while they were closed, they
were closed together with another file, or a restart found them in the queue.
`lost` is a history of files the token forgot while they were in use: a late
request found an older file empty (`Drop`, snapshot.py:1042) and set
`using_disk_snapshot` to `None`.

Left out: the end of a failed task, which deletes what it wrote
(`deal_cdp_when_backup_failed`), `stop_cdp_task` of clusters, the expiry of tokens,
and the merge of closed files.

### CompressTask

The compression of old files beside restores, merges and deletes.  `task` are
the rows, `refs` is `reference_tasks`, `thread` the compression thread, `task_id`
and `pid` what it shows to others, `proc` the process it runs, `user[u]` the threads
that lock files, `lock` and `disk_lock` the two locks.

| action | code |
|---|---|
| `Create` | `create_compress_task_after_task` |
| `Fetch`, `Begin` | `_fetch_valid_task` and the start of `_run_task`, each under `_compress_task_lock`, which is free in between |
| `Missing`, `NothingLeft`, `Launch`, `SetPid` | `_get_args`; then `Popen`, and the pid in a step of its own |
| `ProcEnds`, `Succeed`, `Fail`, `Update` | the process ends, `_clear_pid_task_id` without the lock, `_update_task` with it; a failure puts the task off |
| `Due` | half an hour later: `Looks` looks at least come while a failed task is put off (`Fetch` counts them down), then it is due some time |
| `StartRead`, `StartMerge`, `StartDelete` | `lock_files` (the locker is held over all files), `_do_cdp_to_normal_logic` (taken for each file), `DeleteDiskSnapshotTask.work` |
| `LockFile`, `LockRefused` | `DiskSnapshotLocker.lock_file`: refused when condemned, otherwise the reference, then the cancel |
| `CancelNothing`, `CancelBegin`, `CancelEnd` | `_cancel_and_wait_task`: under the lock the process is killed until its pid is gone |
| `EndUse` | the references are dropped; a delete has removed its image or failed |
| `Restart` | threads end and their references are dropped, those of merges stay |

A file is a number of slices.  That systemd ends the compressor with the service
(one control group) and that the signal reaches it (`shell=True`: the pid is the
shell's) are assumptions about its surroundings.
`unseen` is a history of cancels that came after the thread had fetched the task
and before its pid was set: `_check_task_is_running` (compress.py:198) then finds
nothing to cancel and the compressor starts under the user.  `CancelSuffices` holds
for all others.

### TaskQueue, WaitingRoom

`TaskQueue` models `task_queue.py` with the threads that use it.  `queuing` and
`running` are the two lists in memory (the second as a set: between two
restarts a task is added once), `finished` the rows with a `finish_datetime`,
`limit` the configured number, and `call[t]` where the thread of a task is:

| action | code |
|---|---|
| `Create` | the worker creates its task, the host snapshot and their link |
| `Enter`, `Leave` | `_queuing_add`, and `_queuing_remove` in the finally clause |
| `Refuse` | `UserCancelCheck.check` raises before a poll |
| `Poll`, `Look` | one poll: the number is read outside the lock (`Poll`), position and length are compared under it (`Look`) with three ends: not the head, full, admitted; the last two drop the finished tasks |
| `Finish` | the end of the worker, whatever the result |
| `StartFlow` .. `FinishFlow` | a cluster backup: one thread creates and queues a task for each host in turn; its last step finishes the rows of all of them |
| `SetLimit` | the page sets the number |
| `Restart`, `Rework` | both lists are lost; the unfinished tasks of the tables are added with `add_running`, all of them before the service takes requests (`Up`) |

What runs after the queue (command, transfer) is one state, `executing`; its
end is `Finish`.  `WaitingRoom` is the abstract specification, written after
the two sentences on the settings page: a line, the tasks inside, and those a
restart cut off.  Refinement mapping: the line is `queuing`, inside are the
tasks whose thread executes and whose row is not finished (`Active`, not the
code's list, which may lag behind), cut off are the unfinished tasks before
their rework.

### BackupTask

The backups of one host.  `row[t]` is the row of the task, `snap[t]` its host
snapshot (`new` until `finish_datetime` is set, then `successful` and `partial`
as one value), `started` the host snapshots with a start and no finish, in the
order of their start, `worker[t]` and `caller[c]` where the threads are.

| action | code |
|---|---|
| `Start`, `CheckRows`, `CheckSnapshots`, `Refuse`, `CreateRow` | `BackupTaskScheduleExecute.post` and `run`: each query of `check_not_running` is a step, so is the creation of the row |
| `Prepare`, `Admit` | `run_logic`: host snapshot and link (one that is not linked yet has no start and nothing looks at it), then the queue, which `TaskQueue` models, as admitted or stopped |
| `Command`, `CommandFails`, `Record` | `HostBackupWorkProcessors.work`: the command is sent, or fails, and `set_host_snapshot_valid` comes after the answer |
| `ReadSnapshot`, `ReadStatus`, `Offline` | one poll, `_check_backup_task_status`: host snapshot and cancellation, then the status of the agent |
| `CloseRow`, `ReadOpenSnapshot`, `CloseSnapshot`, `CloseSuccess` | `_finish_backup_task_object`, one step per statement that reads or writes a row; what raises around the end of a success ends the task once more, as failed |
| `Cancel` | the cancel key, and the plan disabled or deleted |
| `Restart` | threads end; each unfinished row gets a `BackupTaskReWorker` |
| `AgentEnds`, `AgentDies` | external: the agent reports, or never does |

The agent is outside the repository.  What is taken from its use: a disk it
backs up shows as such (`check_disks_status_backupable` then refuses a second
command); its report comes before its status loses `backup` (the second half of a
poll reads the host snapshot again for this reason); a report names the host and
`HostSessionBackup` looks for the host snapshot that started last, or answers 405.
A command may be taken although its answer is lost.  The forced close of the
files of a failed task is left out; the agent may end in any way after it.

`raced` is a history of tasks whose rows were unfinished beside another one:
`check_not_running` and the creation of the row are not one step, so two threads
that start a plan may both pass.  Then a report may meet the other task's host
snapshot; `SuccessIsOwn` is stated for the tasks this did not happen to.

One more state the model reaches and no run forbids: a report of an error
between the read (429) and the save (433) of `tasks.py` leaves `successful` from
the one and `partial` from the other, which reads as a complete point of a
failed task.

### BackupRetry

When the plans of a host run next.  `plan[p]` is the row of a plan (`enabled`,
`once`, `next_run`, the counter `retries` and the options `retry` of its
`ext_config`), `work[p]` where the thread of its backup is, `sched` and `caller[c]`
the thread of the scheduler and those of users.  A date is `none`, `later`,
`soon` (not after the retry interval) or `due`: what the code compares.

| action | code |
|---|---|
| `BeginPass`, `StartAuto` | `PlanScheduler.run_scheduler`: one query, then each plan; the date is moved before the checks |
| `CreateAuto`, `CreateManual` | the checks pass, the task is created |
| `RefuseAuto`, `RefuseAgain`, `RefuseManual` | a check raises: `BackupTaskScheduleExecute.post` calls `modify`, and `run_scheduler`, which sees the status, calls it once more |
| `StartManual`, `RecordRun` | a start by hand loads the row once and saves its date after the thread was started |
| `EditPlan`, `TogglePlan` | `BackupTaskScheduleSetting.put`, and `disablePlan` |
| `ForceFull` | `set_next_force_full`: the plan runs in five minutes |
| `Fail`, `Cancelled`, `Succeed`, `CleanRetries`, `Finish` | the end of `BackupTaskWorker.run`: `modify` or `clean`, then the rows |
| `Tick` | time passes |
| `Restart` | threads end; an unfinished task is executed again |

`Modify` and `Clean` are `BackupScheduleRetryHandle`.  `modify` is one step here; it
reads, changes and saves `ext_config`, so two of them at once may lose one.  The
backup itself is `BackupTask`.  One plan does not look at another, but for the
checks of `check_not_running`, which `RefuseAuto` covers (refused for any reason).

Histories: `chain[p]` counts the starts in a row at dates `modify` has set, with
what happened since the last regular start; `silent` holds the plans whose failure
was not mailed because they will be retried; `erased` the plans whose date the
stale row of a start by hand has overwritten with nothing.

## 3. Runs

### Runs of SpaceCollection

`MCSpaceCollection` starts from three backups of one machine in any layout of
the files (a state `Init` reaches by three backups) or from `Init`.

| run | bounds | shows |
|---|---|---|
| `space_reclaim` | three points and one more ident (a fourth backup or a merge), one restore, no restart | `ChainIntact`, `RestoreStable`, `NothingLeaks`, `MergeDoesAll`, `TypeOK` |
| `space_plan` | the empty appliance with two backups, or three points and the new snapshot of a merge; the user deletes the plan of the base `a` (also while it is backed up), one restore, one restart anywhere | `ChainIntact`, `LockedNotMerged`, `NothingLeaks`, `CondemnedHasTask`, `MergeDoesAll`, with merges resumed at their persisted stage |
| `loop_reclaimed` | three points, one of a plan the user deletes, one restore, failing RPC | `EventuallyReclaimed` |
| `loop_locks` | three points, one restart | `MergeLocksReleased` |
| `restore_race` | three points, a restore | finding: `RestoreHoldsFiles` |

Why they are enough: deletion and merge look at a snapshot, its parent and its
children, so three points and a new one contain every relation of files the
decision distinguishes (`is_disk_snapshot_can_merge` compares three files); one
restore and one backup against the single worker give every pair of threads; one
restart is enough to have each persisted stage resumed.  The proofs of section 4
do not depend on any of these bounds.  Deadlock is not checked: with bounded idents
the system comes to rest when everything is collected.

Properties that a known divergence breaks (section 5) are stated so that they say
what is true beside it: `ChainIntact`, `RestoreStable` and `MergeDoesAll` leave out
points that contain a delta of `raced`; `NothingLeaks`, `CondemnedHasTask` and
`MergeDoesAll` (its delete task) leave out the snapshots in `cut`; `late` marks a
reference taken while the transaction was open (`RestoreHoldsFiles`, the full
statement, fails).  Each exemption names the snapshots that were hit, not the whole
behaviour: after a restart everything else must still hold, and `space_plan`
checks it.

### Runs of CdpToken

| run | bounds | shows |
|---|---|---|
| `cdp_tokens` | two requests that close a file; two files, two writes to the second, a third file as long as the second is empty and nothing failed; one fault (a failed call or a restart) | `TypeOK`, `DataInOrder`, `RangeKnown`, `EventuallyClosed` |
| `cdp_stale_close` | one request, two files, one write, no fault | finding: `LastIsWritten` |

Two files give an old and a new one in every operation that confuses them; two
writes give one the first query of the range sees and one it does not, and the
range is followed for the second file (`Ranged`; of the first a write or none
counts).  Two requests, an empty file and a third file are what it takes to fork the
chain: the first request still holds the old, written file and closes the token, which
makes the empty file in use the last one; the next file is opened under it; the second
request, which had read the empty file while it was in use, finds it not on the disk and
takes the token's link to the newer file away.  The
constraint `ThirdIsOrderOnly` keeps the third file to this case (the second empty, no
fault); the state space would otherwise be ten times as large.  Without `lost` the run
finds the fork.  The proofs hold for any number of requests and any bounds.

`EventuallyClosed` assumes that who holds `_cdp_locker` goes on, that the rotation
thread reads the tokens again and again, and that it gets the lock some time
(strong fairness: others take and release it).  Deadlock is not checked: the
number of files bounds the run.

### Runs of CompressTask

| run | bounds | shows |
|---|---|---|
| `compress` | three snapshots in one file, two slices, the two newer always fail, two looks while a failure is put off; one reader and the space collection, which ask for the middle one (`Asked`); one restart | `TypeOK`, `CancelSuffices`, `CompletedIsDone`, `CancelReturns`, `EventuallyCompressed` |

Three snapshots of one file give the selection its two tests (own references, merges
and deletes of the file) and an older task behind as many failing newer ones as
there are looks: with `Looks` = 1, one less than these, `EventuallyCompressed` is violated.
Two slices give a task that is interrupted and goes on.  The middle snapshot has an older and a
newer one in and outside its chain, so it is enough that users ask for it.  `MCCompressTask`
begins in two states that `Spec` reaches before any task is made: the newest
snapshot is deleted and a restart may still come, or all three are there and
it has come.  A reader and the worker meet
in the locker, and their cancels in the lock of the thread.

Fairness: the thread catches what a task raises and never ends, nothing keeps it off for ever
(`_not_enable_run`: a machine on the appliance does for its time), the compressor ends, half
an hour passes (weak); a user that waits for a lock others take and release gets it
some time (strong).  A use may last for ever, which is why `EventuallyCompressed`
speaks of files left alone from some time on, with no more failing newer ones than `Looks`.
In the code `Looks` is about 29: one task per look of a minute, half an hour after a failure.  Deadlock is not checked: all
is compressed or deleted in the end.

### Runs of TaskQueue

| run | bounds | shows |
|---|---|---|
| `queue_admission` | four tasks: one CDP, one without a check of cancellation, two of a cluster backup; numbers 3 and 4, one restart | `TypeOK`, `AdmittedWithinLimit`, `KeepsOrder`, `QueueMoves` |
| `queue_cluster_wait` | two cluster backups of two hosts, number 2 | finding: `QueueMoves` |

The bounds let the queue hold two tasks while others execute, the number change
between a poll and its comparison, and a restart bring back more tasks than the
number allows.  `QueueMoves` is a liveness property: every thread
goes on (weak fairness), a backup and a migration end by themselves (the agent
reports or is given up), a CDP task need not.  It holds while the slots suffice for
the CDP tasks and all hosts of one cluster backup; this fails in
`queue_cluster_wait`.  The code states no such condition.  Deadlock is not checked: when all tasks have
ended and the restarts are used up only `SetLimit` is left.

### Runs of BackupTask

| run | bounds | shows |
|---|---|---|
| `backup_runs` | two tasks, the scheduler and a user, one restart | `TypeOK`, `SuccessIsOwn`, `SnapshotClosed`, `TaskFinishes` |

Two tasks give a late report of the first to the second, a start beside a
running task, and a task of before the restart beside one of after it.  A row is
used once, so the number of tasks bounds the starts; deadlock is not checked,
since the system rests when both are finished.

`TaskFinishes` assumes that worker threads go on (they are threads of the
process, or of the one after the restart) and that a backup the agent executes ends
somehow: with a report, or with the machine.  It is not assumed that
the report arrives, that anybody cancels, or that the process restarts.  The
queue is passed in one step here: a task may wait in it for ever only in the
way `queue_cluster_wait` shows.

### Runs of BackupRetry

| run | bounds | shows |
|---|---|---|
| `backup_retry` | one plan of any kind, no or one retry, one user, one restart | `TypeOK`, `RetriedAsConfigured`, `NeverForgotten`, `WithheldIsRetried` |

Plans do not interact, so one is enough; none is what the server takes although the page
asks for one at least; with one retry every branch of `modify`
is taken (counted, exhausted, runs soon, busy), and a chain of two failures reaches
its end.  The theorems hold for any plans and numbers.

`FairSpec` assumes that time passes (`Tick`) and that the scheduler, which sleeps a
minute and catches every exception, goes on.  It is not assumed that a backup
ends, that a start is accepted or that a user acts.  `WithheldIsRetried` leaves out
plans with retries disabled, whose date each refused start puts off again, disabled plans,
and those in `erased`.  Deadlock is not checked: a plan without a date rests.

## 4. Proofs

### SpaceCollection_proofs, SpaceCollectionChain_proofs

From `NullAssumption` and `BoundAssumption` only (the null keys are no members,
the bounds have their types), for any number of snapshots, restores, backups and
restarts, and chains of any length.  Six inductive invariants, each using those
before it:

* `TypeInv` (`TypeCorrect`: `TypeOK`).  Typing alone is not inductive: an action that
  writes the row of `worker.snap` needs it to be a snapshot.  `TypeInv` adds, for each
  `pc`, what the worker's fields and the merge task it works on are.
* `LockInv` (`LockedStaysUnmerged`: `LockedNotMerged`).  A locked file carries the
  reference, the row of an open transaction carries none, and `txn` is set exactly
  at `pc = "txn"`.  `set_merged` looks at the references under the locker; between that
  and the commit every `lock_file` of the row waits and is `late`.
* `TaskInv` (`SpaceNotLost`: `NothingLeaks`; `CondemnedKeepsTask`: `CondemnedHasTask`).
  What the flags, the two kinds of tasks, the stage of a merge, the images and the
  place of the worker know of each other: a delete task is finished only when its
  image is gone, a merge works on a condemned point, its new snapshot belongs to no
  other merge and has no collection task before the merge ends.
* `PointInv`.  A point (a finished backup, or the new snapshot of a merge past
  stage 0) never changes its files, is on the disk until it is merged, and the
  worker's decision (`is_disk_snapshot_can_merge`) is still right when it acts:
  children that appear in between share the file, or are `raced`.
* `ChainInv` (`KeptPointsReadable`: `ChainIntact`; `MergesComplete`: `MergeDoesAll`).
  `Linked(x)`: the parent of a sound point is present, has strictly less data, holds in
  the same file nothing `x` does not hold, and the nodes of a chain that are in one
  file are next to each other, which is why the walk may skip all but the first.
  `Rewritten` and `Apart` say why stage 1 of a merge may hang the children of the old
  snapshot on the new one: same content, same parent, and nothing above is in its file.
  A backup that is under way is covered too (`Held`, `Line`), by what it will be made of.
* `ReaderInv` (`RestoresStable`: `RestoreStable`).  The chain a restore was given consists
  of points with the content of its target, and these are still there: merged
  points are deleted, but locked ones are not merged.

Two arguments carry the chains.  The chain of a point is defined without recursion, as
the least set closed under parents (`Chain`), and the walk of `GetSnapshotList`
is one function that satisfies its recursion equation; `WalkExists` builds such a
function, so that `Walk` denotes one whatever the parents are.  That the walk finds
all of the data (`Yields`) is not an induction on a length but on the data: a parent has
strictly less of it and each point has finitely many deltas, so among the points for
which the claim fails there would be one with least data, whose parent satisfies it
(well-foundedness of strict inclusion on finite sets).

`LoopImplements`: `LoopSpec => Spec`, each step of the loop is a step of `Next` or
leaves `vars` alone; `LoopLockedStaysUnmerged`, `LoopKeepsPoints` and `LoopLeaksNothing` carry
three of the results over.

The proofs changed the model: that no snapshot is forgotten was only checked without
restarts, and failed to be inductive at exactly the statements a restart can
separate.  Those became the history `cut`, and the properties now hold with restarts.

Left to TLC: liveness (`EventuallyReclaimed`, `MergeLocksReleased`), and `RestoreHoldsFiles`,
which is false.

### CdpToken_proofs

For any number of close requests, files, writes and faults.  The order of the files rests on three
facts: the file in use is the newest row (`UsingNewest`), so what is closed becomes the
last file; a row is made only by who holds the lock, while no file is in use
(`LockHeld`, `Opening`), and hangs on the last one; a row is deleted only when it was never
written and nothing hangs on it (`ParentsKept`, `InOrder`).  A request that read the
token before it took the lock may close an older file: if that one is on the disk,
whatever is in use becomes the last file; if it is empty, what is in use is
forgotten and goes to `lost`, which `InOrder` and `DataInOrder` leave out.  No
assumption is made on how many requests there are or when they read the token.
`KtsStopped` and `RangesTold` say which closed files may still be written or
have a query of their range under way.

* `TypeCorrect`, `DataKeepsOrder` (`Spec => []DataInOrder`), `RangeIsKnown`
  (`Spec => []RangeKnown`).  `EventuallyClosed` is a liveness property: TLC only.

### CompressTask_proofs

For any snapshots, files, slices, readers and restarts.  `IInv` adds to the types
what the thread shows in each of its steps (`ThreadIsKnown`), that while a cancel waits under
the lock the thread cannot reach the next task (`WaitHoldsLock`), that names tell the
users apart (`UsersAreNamed`), that each reference on the file the thread works on
belongs to a user that has yet to cancel or is in `unseen` (`ReferencesAreTold`), that
`next_start_lines` counts compressed slices (`LinesAreDone`), and that a delete has
condemned its snapshot (`DeletesCondemned`).

* `TypeCorrect`, `CancelIsEnough` (`Spec => []CancelSuffices`): a reference that was
  there at `Fetch` keeps the task from being chosen; one that came later is followed
  by a cancel, which ends only when the thread has left the task.
* `CompletedWasDone` (`Spec => []CompletedIsDone`).

`CancelReturns` and `EventuallyCompressed` are liveness properties: TLC only.

### TaskQueue_proofs

For any tasks, cluster backups (with disjoint tasks), numbers and restarts.
`IInv` joins the types with `LineOK` (the queue holds each task between its
entry and its finally clause, exactly once), `RunningOK` (`_running_tasks` is
finite and never misses a task that executes), `FlowOK` (only a flow that sends
commands has tasks on the way to execution) and `FinishedOK` (no row is
finished before its task executes or fails).  `FlowOK` and `FinishedOK` need
each other: the last step of a flow finishes the rows of all its hosts.

* `QueueConsistent`: `Spec => []IInv`, and `TypeCorrect` from it.
* `LimitRespected`: `Spec => AdmittedWithinLimit`.  The tasks that execute are
  among those the pruned list holds (`RunningOK`), so their number is below the
  one the head read when it was admitted.
* `OrderKept`: `Spec => KeepsOrder`, the refinement of `WaitingRoom`, one case
  per action.  `RemoveAtKeeps` (in `SequenceLemmas`) says what the removal of a
  position does to a sequence.

`QueueMoves` is left to TLC, as it is a liveness property.

### BackupTask_proofs

For any tasks, callers and restarts.  `IInv` joins the types and
`SnapshotClosed` with

* `StartedOK`: a host snapshot is in `started` once, only after its command, and
  is unfinished as long as it is there;
* `WorkerOK`: the row and the host snapshot of a task fit the place of its thread;
* `AloneOK`: two unfinished tasks were started side by side (`raced`);
* `AgentOK`: for a task not in `raced`, between its command and its report the
  agent executes this task or nothing; when its host snapshot is complete the
  agent has completed this task and does not execute it any more.

`SuccessIsOwn` is not inductive: a report decides on `started`, which says
nothing of the agent.  `AgentOK` is the missing link, and needs `AloneOK` (no
other unfinished task can command the agent).

* `TaskConsistent`: `Spec => []IInv`, and `TypeCorrect` from it.
* `HostReleased`: `Spec => []SnapshotClosed`.
* `SuccessEarned`: `Spec => []SuccessIsOwn`.

`SequenceLemmas` holds what these proofs and those of `TaskQueue` need to know of
sequences that list each element once: appending, removing a position, dropping
the last element.  `TaskFinishes` is a liveness property and stays with TLC.

### BackupRetry_proofs

For any plans, users, numbers of retries and restarts, from `PlanAssumption`,
`CountAssumption` and `BoundAssumption`.  `IInv` joins `TypeOK`, `NeverForgotten` and
`CounterIsChain`: the counter in a row never exceeds the configured number, and while
a chain holds failures only, it is the number of retries in the history, plus
one when `modify` has brought the date forward and the start is still to come; a
date, a start or a running backup carries the chain on, one at a time.
`RetriedAsConfigured` alone is not inductive, since it does not look at the counter
that decides.

* `TypeCorrect`, `RetriesCounted` (`Spec => []RetriedAsConfigured`), `DateKept`
  (`Spec => []NeverForgotten`).  `WithheldIsRetried` is a liveness property: TLC only.

## 5. Known divergences

Three are findings with a run: `restore_race` (a reference taken while the
transaction of a merge is open), `queue_cluster_wait` (cluster backups wait for
each other) and `cdp_stale_close` (a close request closes the wrong CDP file).
The models reach these too; properties are stated beside them, so no run shows them:

* `work_processors.py:450`: the chain of a parent is checked, then the row is made
  under it (`snapshot.py:419`); the collection may merge the parent in between
  (`raced` in `SpaceCollection`).
* `spaceCollection.py:1242`: stage 1 of a merge is three writes; a redo, which 256 says
  is supported, recognises the first and skips the other two.  The children stay on
  the merged snapshot (`raced`), which has no delete task (`cut`).
* `spaceCollection.py:2006`: a restart between `set_deleting` and the creation of the
  task leaves a point that nothing collects (`cut`); so does one at the end of a merge.
* `tasks.py:396`: a crash between the row of a task and its host snapshot leaves
  the snapshot started; the next backup of the host is refused.
* `tasks.py:429`: the report of an error between read and save of a host snapshot.
* `views.py:1300` and `planScheduler.py:103`: a scheduled start that is refused calls
  `modify` twice.  The second call finds that the plan runs soon and resets the
  counter: refused starts are retried without bound (`createbackup.inc.html:337`
  says a number of times).  `RetriedAsConfigured` is about failures.
* `tasks.py:798-826`: `enable` is looked at only to see whether the plan runs soon, so a
  plan without retries is retried too, as often as the page's default.
* `logic_processors.py:610`: the save of a start by hand overwrites a retry scheduled since
  (`erased`).
* `tasks.py:770`: a restart between `modify` and the end of the row decides twice; a plan
  disabled during its backup has the mail withheld and no retry; images that
  cannot be created are retried every five minutes without being counted; file
  backups (1045-1069) mail before `modify`.
* `compress.py:198`: a cancel between fetch and pid finds nothing (`unseen`).
* `compress.py:47`, 51 and 253: one task is taken per look of a minute, the newest first, and one
  that fails is due again after half an hour: about thirty newer tasks that always fail
  (missing files, a broken image) keep an older one from ever being compressed
  (`EventuallyCompressed` counts them against `Looks`).
* `snapshot.py:1042`: two requests to close a file.  The first holds a file that is no
  longer in use and closes the token: the empty file in use becomes the last one
  (`snapshot.py:1037`), and the next file is opened under it.  The second, which had read
  the empty file while it was in use, finds it not on the disk and sets
  `using_disk_snapshot` to `None` although the newer file is written;
  `last_disk_snapshot` stays, and the next file hangs beside the newer one: the chain
  forks, and what was written to the forgotten file is in no later point (`lost`).
* `tasks.py:35`: `return None` in the loop ends the creation of compression tasks at
  the first snapshot that has one.
* `remote_backup_sub_task.py:487`: cancels the compressor before it takes the reference.
* `snapshot.py:1095`: the rotation of a file that was never written deletes its rows and raises
  before `set_token`; the KT service may write a file nothing lists.  A failed
  `updateToken` leaves a file closed in the tables while it is written (`unsure`).
* `snapshot.py:1035`: the queue of time stamps is lost in a restart; `last_timestamp`
  stays `None` and is compared in `work_processors.py:225`.
* `snapshot.py:1014`: a crash between the rows of a file and the token leaves an orphan row;
  a snapshot that is protected loses its CDP row only (1042-1047).

## 6. Not modelled

Modelled: space reclamation with its loop, the queue of tasks, backups of a host,
plans and retries, compression, CDP tokens.  Not modelled:

* The CDP half of `spaceCollection.py` (merge of CDP files): its redo depends on half
  written files of external tools.
* Cluster CDP, hot standby, takeover, archiving, remote backup, file
  synchronisation, VMware: flows of an external engine (taskflow) over the operations
  modelled here, on machines, tapes or appliances this repository only calls.
* Verification (takeovers in a queue of one), shares (locks as in `StartMerge`, plus
  mounts), hash files (bytes, under one lock).
* Retention and calendar rules: `SpaceCollection` lets any successful point expire and
  `BackupRetry` any date come; the rules choose among these.
* Storage nodes and quotas, licence, web guard, RPC wrappers, sessions, pages.

The implementation is Python, in `src/apiv1/` and `src/xdashboard/handle/`; the
`map` names its lines.  The JavaScript of the repository is almost all vendored
libraries (vis.js, jQuery UI, Vue, Raphael, moment) and the forms of the pages,
whose only part in the modelled behaviour is which options they send
(`Options` of `BackupRetry`, `createbackup.js`).  A share of all JavaScript lines the
map covers therefore says nothing about how much of the system is modelled, and
modelling widgets of a page would not add to it.

Only model-checked, not proved: the liveness properties and the deadlock checks, which
are out of the prover's reach, and the three findings.  Every invariant a passing run
checks is stated by a theorem.
