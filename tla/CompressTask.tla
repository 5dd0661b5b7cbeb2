---------------------------- MODULE CompressTask ----------------------------
(***************************************************************************)
(* The compression of old backup files beside their users.                   *)
(*                                                                         *)
(* One thread picks the newest task whose snapshot nobody uses and runs a      *)
(* compressor, a process of its own, over one slice of the file at a time.     *)
(* Who is about to read, merge or delete a snapshot first takes a reference    *)
(* on it, then cancels: under _compress_task_lock the compressor is killed     *)
(* until the thread has noticed its end.                                     *)
(*                                                                         *)
(* Snapshots are numbered in the order of their creation; the chain of a       *)
(* snapshot is itself and all before it.  A file is the number of slices that   *)
(* were processed; which blocks a slice holds is left out.                    *)
(***************************************************************************)
EXTENDS Integers, FiniteSets

CONSTANTS N,        \* number of snapshots
          Qcow,     \* the file of each snapshot
          Slices,   \* slices of a file
          Broken,   \* snapshots whose compressor always fails
          Looks,    \* looks that surely come while a failed task is postponed
          Reader,   \* users that read a chain: restores, shares
          Worker,   \* the thread of the space collection: it merges and deletes
          Asked,    \* bound: the snapshots that restores, shares and merges ask for
          MaxRestarts  \* bound: restarts of the service

Snapshot == 1 .. N
User     == Reader \cup {Worker}
None     == 0
Name     == Reader \cup {"cdp_merge", "delete"}   \* in reference_tasks

ASSUME SnapshotAssumption == N \in Nat \ {0} /\ Qcow \in [Snapshot -> Nat] /\ Broken \subseteq Snapshot
ASSUME SliceAssumption    == Slices \in Nat \ {0}
ASSUME LooksAssumption    == Looks \in Nat
ASSUME UserAssumption     == Worker \notin Reader /\ None \notin User
                             /\ Reader \cap {"cdp_merge", "delete"} = {}
ASSUME BoundAssumption    == MaxRestarts \in Nat /\ Asked \subseteq Snapshot

VARIABLES
  task,       \* CompressTask rows: exists, completed, next_start_lines, next_start_date
  refs,       \* reference_tasks of each snapshot
  file,       \* snapshots whose image is there
  condemned,  \* snapshots that are deleted, or will be (merged)
  thread,     \* CompressTaskThreading: where it is, its task, the exit of its compressor
  task_id,    \* self.task_id
  pid,        \* self.pid is set
  proc,       \* the snapshot the compressor works on
  lock,       \* the user that holds _compress_task_lock
  disk_lock,  \* the user that holds _disk_snapshot_locker over several calls
  restarts,
  user,       \* where each user is, its reference, the files it still has to lock
  done,       \* history: the slices of each snapshot that were compressed
  unseen      \* history: users and files whose cancel came while the thread had the task

taskVars   == <<task, done>>
threadVars == <<thread, task_id, pid, proc>>
diskVars   == <<refs, file, condemned>>
userVars   == <<lock, disk_lock, user, unseen, restarts>>
vars       == <<taskVars, threadVars, diskVars, userVars>>

ThreadAt == {"idle", "fetched", "armed", "launched", "running", "updating"}
UserAt   == {"idle", "locking", "cancelling", "waiting", "using"}
Idle(u)  == [at |-> "idle", name |-> IF u = Worker THEN "delete" ELSE u, todo |-> {}, cur |-> None]
Asleep   == [at |-> "idle", cur |-> None, ok |-> TRUE]

(* No task yet, and nobody uses a file. *)
Quiet ==
  /\ task = [d \in Snapshot |-> [exists |-> FALSE, completed |-> FALSE, lines |-> 0, postponed |-> 0]]
  /\ refs = [d \in Snapshot |-> {}]
  /\ thread = Asleep
  /\ task_id = None
  /\ pid = FALSE
  /\ proc = None
  /\ lock = None
  /\ disk_lock = None
  /\ user = [u \in User |-> Idle(u)]
  /\ done = [d \in Snapshot |-> {}]
  /\ unseen = {}

Init == Quiet /\ file = Snapshot /\ condemned = {} /\ restarts = 0

(* create_compress_task_after_task: at the end of a backup, so in their order.  *)
Create(d) ==
  /\ ~ task[d].exists
  /\ \A e \in Snapshot : e < d => task[e].exists
  /\ d \notin condemned
  /\ task' = [task EXCEPT ![d].exists = TRUE]
  /\ UNCHANGED <<done, threadVars, diskVars, userVars>>

-----------------------------------------------------------------------------
(* The thread. *)

(* A fault of CheckTaskOk: only merges and deletes of the file are respected.   *)
CheckTaskOkBesideReaders(d) ==
  \A e \in Snapshot : Qcow[e] = Qcow[d] => refs[e] \cap {"cdp_merge", "delete"} = {}

(* _check_task_ok. *)
CheckTaskOk(d) ==
  /\ refs[d] = {}
  /\ \A e \in Snapshot : Qcow[e] = Qcow[d] => refs[e] \cap {"cdp_merge", "delete"} = {}

Waiting == {d \in Snapshot : task[d].exists /\ ~ task[d].completed /\ task[d].postponed = 0}

Valid   == {d \in Waiting : CheckTaskOk(d)}

(* A look: the newest valid task is taken.  One minute passes between two looks, *)
(* half an hour from the start of a run that fails until the task is looked at    *)
(* again.  Looks is 29 if the runs take no time and less the longer they take;    *)
(* a postponed task counts the looks down and is due some time after (see Due).  *)
Fetch ==
  /\ thread.at = "idle"
  /\ lock = None
  /\ \/ \E d \in Valid :
          /\ \A e \in Valid : e <= d
          /\ thread' = [thread EXCEPT !.at = "fetched", !.cur = d]
     \/ Valid = {} /\ UNCHANGED thread
  /\ task' = [d \in Snapshot |-> IF task[d].postponed > 1 THEN [task[d] EXCEPT !.postponed = @ - 1] ELSE task[d]]
  /\ thread' # thread \/ task' # task
  /\ UNCHANGED <<done, task_id, pid, proc, diskVars, userVars>>

Due(d) ==
  /\ task[d].postponed = 1
  /\ task' = [task EXCEPT ![d].postponed = 0]
  /\ UNCHANGED <<done, threadVars, diskVars, userVars>>

Begin ==
  /\ thread.at = "fetched"
  /\ lock = None
  /\ task_id' = thread.cur
  /\ thread' = [thread EXCEPT !.at = "armed"]
  /\ UNCHANGED <<taskVars, pid, proc, diskVars, userVars>>

Clear == task_id' = None /\ pid' = FALSE

(* Faults of GiveUp: the pid of the compressor that failed is kept; the task is  *)
(* postponed for one look less.                                              *)
GiveUpRemembering ==
  /\ task' = [task EXCEPT ![thread.cur].postponed = Looks + 1]
  /\ thread' = Asleep
  /\ UNCHANGED <<task_id, pid>>

GiveUpTooShort ==
  /\ Clear
  /\ task' = [task EXCEPT ![thread.cur].postponed = Looks]
  /\ thread' = Asleep

(* The exception handler of _run_task. *)
GiveUp ==
  /\ Clear
  /\ task' = [task EXCEPT ![thread.cur].postponed = Looks + 1]
  /\ thread' = Asleep

(* _get_args: the file must exist; nothing but the references was looked at.   *)
Missing ==
  /\ thread.at = "armed"
  /\ thread.cur \notin file
  /\ GiveUp
  /\ UNCHANGED <<done, proc, diskVars, userVars>>

(* No blocks are left: the task is completed without a compressor.             *)
NothingLeft ==
  /\ thread.at = "armed"
  /\ thread.cur \in file
  /\ task[thread.cur].lines = Slices
  /\ task' = [task EXCEPT ![thread.cur].completed = TRUE]
  /\ Clear
  /\ thread' = [thread EXCEPT !.at = "updating"]
  /\ UNCHANGED <<done, proc, diskVars, userVars>>

(* A fault of Launch: the end of the file is not noticed.                     *)
LaunchPastTheEnd ==
  /\ thread.at = "armed"
  /\ thread.cur \in file
  /\ proc' = thread.cur
  /\ thread' = [thread EXCEPT !.at = "launched"]
  /\ UNCHANGED <<taskVars, task_id, pid, diskVars, userVars>>

(* Popen, and the assignment of the pid that the cancel looks at.              *)
Launch ==
  /\ thread.at = "armed"
  /\ thread.cur \in file
  /\ task[thread.cur].lines < Slices
  /\ proc' = thread.cur
  /\ thread' = [thread EXCEPT !.at = "launched"]
  /\ UNCHANGED <<taskVars, task_id, pid, diskVars, userVars>>

SetPid ==
  /\ thread.at = "launched"
  /\ pid' = TRUE
  /\ thread' = [thread EXCEPT !.at = "running"]
  /\ UNCHANGED <<taskVars, task_id, proc, diskVars, userVars>>

(* The compressor ends by itself, with an error if its file is broken, or by    *)
(* the signal of a cancel.                                                  *)
Killed == \E u \in User : user[u].at = "waiting" /\ user[u].cur = proc

ProcEnds ==
  /\ proc # None
  /\ proc' = None
  /\ \/ /\ proc \notin Broken
        /\ done' = [done EXCEPT ![proc] = @ \cup {task[proc].lines + 1}]
        /\ thread' = [thread EXCEPT !.ok = TRUE]
     \/ /\ proc \in Broken \/ Killed
        /\ thread' = [thread EXCEPT !.ok = FALSE]
        /\ UNCHANGED done
  /\ UNCHANGED <<task, task_id, pid, diskVars, userVars>>

Succeed ==
  /\ thread.at = "running"
  /\ proc = None
  /\ thread.ok
  /\ task' = [task EXCEPT ![thread.cur].lines = @ + 1]
  /\ Clear
  /\ thread' = [thread EXCEPT !.at = "updating"]
  /\ UNCHANGED <<done, proc, diskVars, userVars>>

Fail ==
  /\ thread.at = "running"
  /\ proc = None
  /\ ~ thread.ok
  /\ GiveUp
  /\ UNCHANGED <<done, proc, diskVars, userVars>>

(* A fault of Update: the next line is taken for the last one that was done.    *)
UpdateOneEarly ==
  /\ thread.at = "updating"
  /\ lock = None
  /\ task' = [task EXCEPT ![thread.cur].completed = @ \/ task[thread.cur].lines + 1 >= Slices]
  /\ thread' = Asleep
  /\ UNCHANGED <<done, task_id, pid, proc, diskVars, userVars>>

(* _update_task. *)
Update ==
  /\ thread.at = "updating"
  /\ lock = None
  /\ task' = [task EXCEPT ![thread.cur].completed = @ \/ task[thread.cur].lines >= Slices]
  /\ thread' = Asleep
  /\ UNCHANGED <<done, task_id, pid, proc, diskVars, userVars>>

-----------------------------------------------------------------------------
(* The users. *)

Chain(d) == 1 .. d
MayLock(u) == disk_lock \in {None, u}

Begins(u, name, files) ==
  /\ user[u].at = "idle"
  /\ user' = [user EXCEPT ![u] = [at |-> "locking", name |-> name, todo |-> files, cur |-> None]]
  /\ UNCHANGED <<restarts, taskVars, threadVars, refs, file, lock, unseen>>

(* lock_files keeps the locker over all files and their cancels ...            *)
StartRead(u, d) ==
  /\ u \in Reader
  /\ d \in Asked
  /\ Begins(u, u, Chain(d))
  /\ disk_lock = None
  /\ disk_lock' = u
  /\ UNCHANGED condemned

(* ... a CDP merge takes it for each file.                                   *)
StartMerge(d) ==
  /\ d \in Asked
  /\ Begins(Worker, "cdp_merge", Chain(d))
  /\ UNCHANGED <<disk_lock, condemned>>

(* A delete task works on the last snapshot of a chain that nobody else uses, see *)
(* SpaceCollection; one that failed is worked on again.                       *)
StartDelete(d) ==
  /\ d \in file /\ \A e \in file : e <= d
  /\ refs[d] = {}
  /\ Begins(Worker, "delete", {d})
  /\ condemned' = condemned \cup {d}
  /\ UNCHANGED disk_lock

(* lock_file refuses a snapshot that is reclaimed, except to its delete task,    *)
(* and a second reference of the same task, left from before a restart.         *)
Refuses(u, d) == (d \in condemned /\ user[u].name # "delete") \/ user[u].name \in refs[d]

NextFile(u, d) == user[u].at = "locking" /\ d \in user[u].todo /\ \A e \in user[u].todo : d <= e

LockFile(u, d) ==
  /\ NextFile(u, d)
  /\ MayLock(u)
  /\ ~ Refuses(u, d)
  /\ refs' = [refs EXCEPT ![d] = @ \cup {user[u].name}]
  /\ user' = [user EXCEPT ![u].at = "cancelling", ![u].cur = d, ![u].todo = @ \ {d}]
  /\ UNCHANGED <<restarts, taskVars, threadVars, file, condemned, lock, disk_lock, unseen>>

(* The user drops its references, at its end or because one was refused.        *)
Release(u) ==
  /\ MayLock(u)
  /\ refs' = [e \in Snapshot |-> refs[e] \ {user[u].name}]
  /\ user' = [user EXCEPT ![u] = Idle(u)]
  /\ disk_lock' = IF disk_lock = u THEN None ELSE disk_lock
  /\ unseen' = {s \in unseen : s[1] # u}
  /\ UNCHANGED <<restarts, taskVars, threadVars, condemned, lock>>

LockRefused(u, d) == NextFile(u, d) /\ Refuses(u, d) /\ Release(u) /\ UNCHANGED file

(* _check_task_is_running, and a user that goes on with the next file.         *)
IsRunning(d) == task[d].exists /\ task_id = d /\ pid

GoOn(u) ==
  /\ user' = [user EXCEPT ![u].at = IF user[u].todo = {} THEN "using" ELSE "locking", ![u].cur = None]
  /\ disk_lock' = IF disk_lock = u /\ user[u].todo = {} THEN None ELSE disk_lock
  /\ task' = IF user[u].name = "delete" THEN [task EXCEPT ![user[u].cur].completed = @ \/ task[user[u].cur].exists] ELSE task

(* A cancel that finds no compressor; the thread may have fetched the task      *)
(* before the reference was there.                                          *)
CancelNothing(u) ==
  /\ user[u].at = "cancelling"
  /\ lock = None
  /\ ~ IsRunning(user[u].cur)
  /\ GoOn(u)
  /\ unseen' = IF thread.at \in {"fetched", "armed", "launched"} /\ thread.cur = user[u].cur
                 THEN unseen \cup {<<u, user[u].cur>>} ELSE unseen
  /\ UNCHANGED <<restarts, done, threadVars, diskVars, lock>>

CancelBegin(u) ==
  /\ user[u].at = "cancelling"
  /\ lock = None
  /\ IsRunning(user[u].cur)
  /\ lock' = u
  /\ user' = [user EXCEPT ![u].at = "waiting"]
  /\ UNCHANGED <<restarts, taskVars, threadVars, diskVars, disk_lock, unseen>>

CancelEnd(u) ==
  /\ user[u].at = "waiting"
  /\ ~ IsRunning(user[u].cur)
  /\ lock' = None
  /\ GoOn(u)
  /\ UNCHANGED <<restarts, done, threadVars, diskVars, unseen>>

(* The end of the use; a delete may have failed.                             *)
EndUse(u) ==
  /\ user[u].at = "using"
  /\ Release(u)
  /\ \/ UNCHANGED file
     \/ user[u].name = "delete" /\ file' = {d \in file : "delete" \notin refs[d]}

(* The service dies, and the compressor with it (one control group).  At the      *)
(* start restores are ended and unlocked, and so are deletes; the references of   *)
(* merges stay.                                                             *)
Restart ==
  /\ restarts < MaxRestarts
  /\ restarts' = restarts + 1
  /\ thread' = Asleep
  /\ Clear
  /\ proc' = None
  /\ lock' = None
  /\ disk_lock' = None
  /\ user' = [u \in User |-> Idle(u)]
  /\ refs' = [d \in Snapshot |-> refs[d] \cap {"cdp_merge"}]
  /\ unseen' = {}
  /\ UNCHANGED <<taskVars, file, condemned>>

Locking(u) == (\E d \in Snapshot : LockFile(u, d) \/ LockRefused(u, d))
              \/ CancelNothing(u) \/ CancelBegin(u) \/ CancelEnd(u)
UserStep(u) == (\E d \in Snapshot : StartRead(u, d)) \/ Locking(u) \/ EndUse(u)
ThreadStep  == Fetch \/ Begin \/ Missing \/ NothingLeft \/ Launch \/ SetPid \/ Succeed \/ Fail \/ Update

Next ==
  \/ (ThreadStep \/ ProcEnds)
  \/ \E d \in Snapshot : Create(d) \/ Due(d) \/ StartMerge(d) \/ StartDelete(d)
  \/ \E u \in User : UserStep(u)
  \/ Restart

Spec == Init /\ [][Next]_vars

(* The thread and the compressor go on, half an hour passes, and a user that     *)
(* waits for a lock gets it some time; a use may last for ever.                *)
Fairness ==
  /\ WF_vars(ThreadStep)
  /\ WF_vars(ProcEnds)
  /\ \A d \in Snapshot : WF_vars(Due(d)) /\ WF_vars(Create(d))
  /\ \A u \in User : SF_vars(Locking(u))

FairSpec == Spec /\ Fairness

-----------------------------------------------------------------------------
(* Properties. *)

TaskRow == [exists : BOOLEAN, completed : BOOLEAN, lines : 0 .. Slices, postponed : 0 .. Looks + 1]
Run     == [at : ThreadAt, cur : Snapshot \cup {None}, ok : BOOLEAN]
Use     == [at : UserAt, name : Name, todo : SUBSET Snapshot, cur : Snapshot \cup {None}]

TypeOK ==
  /\ task \in [Snapshot -> TaskRow]
  /\ refs \in [Snapshot -> SUBSET Name]
  /\ file \subseteq Snapshot /\ condemned \subseteq Snapshot
  /\ thread \in Run
  /\ task_id \in Snapshot \cup {None}
  /\ pid \in BOOLEAN
  /\ proc \in Snapshot \cup {None}
  /\ lock \in User \cup {None} /\ disk_lock \in User \cup {None}
  /\ user \in [User -> Use]
  /\ done \in [Snapshot -> SUBSET (1 .. Slices)]
  /\ unseen \subseteq User \X Snapshot
  /\ restarts \in 0 .. MaxRestarts

(* No file is compressed while a user that locked and cancelled reads or deletes *)
(* it, unless the thread had already fetched the task and its pid was not yet    *)
(* known: that window is open in the code.                                   *)
CancelSuffices ==
  \A u \in User, d \in Snapshot :
    proc = d /\ user[u].at = "using" /\ user[u].name \in refs[d] => <<u, d>> \in unseen

(* A task is completed only when every slice of its file was compressed, or the *)
(* snapshot is deleted.                                                     *)
CompletedIsDone ==
  \A d \in Snapshot : task[d].completed => done[d] = 1 .. Slices \/ d \in condemned

(* The wait under the lock ends, and so does every wait for it.               *)
CancelReturns == \A u \in User : user[u].at \in {"locking", "cancelling", "waiting"} ~> user[u].at = "using" \/ user[u].at = "idle"

(* A snapshot that nobody uses from some time on is compressed in the end, also *)
(* beside newer ones that fail again and again, as long as there are no more of   *)
(* these than looks in the half hour that a failure is postponed: one more, and   *)
(* there is always a newer one that is due.                                  *)
NewerBroken(d) == {b \in Broken : b > d}

EventuallyCompressed ==
  \A d \in Snapshot \ Broken :
    Cardinality(NewerBroken(d)) <= Looks =>
      (<>[](CheckTaskOk(d) /\ d \notin condemned) => <>(task[d].completed))
=============================================================================
