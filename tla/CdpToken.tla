------------------------------ MODULE CdpToken ------------------------------
(***************************************************************************)
(* The files a CDP disk writes, one after the other.                          *)
(*                                                                         *)
(* The row of the token (CDPDiskToken) names the file that is being written    *)
(* and the last one that was; the next file hangs on the latter.  The KT       *)
(* service, outside the repository, writes where it was told to (updateToken). *)
(* The agent has a file opened or closed, the KT service has it changed, a     *)
(* thread closes files that are open for too long, and the end of the task     *)
(* closes what is open: all under _cdp_locker, but some of them have read the   *)
(* row before.  A thread of its own records the range of times of closed files. *)
(*                                                                         *)
(* Files are numbered in the order of their rows; 0 is the normal snapshot the *)
(* first one hangs on.  What matters of a file is how much was written to it.  *)
(***************************************************************************)
EXTENDS Naturals, FiniteSets

CONSTANTS Request,     \* requests that close a file, DELETE of CdpTokenInfo
          Ranged,      \* bound: the files whose range of times is followed
          MaxFiles,    \* bound: files of the disk
          MaxWrites,   \* bound: writes to a file of Ranged; of the others one counts
          MaxFaults    \* bound: calls of updateToken that fail, and restarts

ASSUME BoundAssumption == MaxFiles \in Nat /\ MaxWrites \in Nat \ {0} /\ MaxFaults \in Nat
ASSUME RequestAssumption == Request \cap {"refresh", "change", "rotate", "worker", "nobody"} = {}

File == 1 .. MaxFiles
None == 0

VARIABLES
  created,  \* number of idents given out
  row,      \* files with a DiskSnapshot
  info,     \* those of them with a DiskSnapshotCDP, cdp_info
  parent,   \* parent_snapshot
  range,    \* the writes last_timestamp covers
  using,    \* using_disk_snapshot of the token
  last,     \* last_disk_snapshot of the token
  finished, \* finish_datetime of the task
  size,     \* writes each file holds; a file without any is not on the disk
  kts,      \* the KT service: the file of the token, whether it asked for another one
  lock,     \* the thread that holds _cdp_locker
  op,       \* where each thread is, and the file it works on
  queue,    \* _update_disk_snapshot_cdp_timestamp_queue
  stamp,    \* its thread: a file and the range it was told
  faults,   \* failed calls and restarts so far
  unsure,   \* history: files whose range may not be known, see RangeKnown
  lost      \* history: files the token forgot while they were used, see DataInOrder

tokenVars == <<created, row, info, parent, using, last, lost>>
rangeVars == <<range, queue, stamp>>
vars      == <<tokenVars, rangeVars, finished, size, kts, lock, op, faults, unsure>>

Thread == {"refresh", "change", "rotate", "worker"} \cup Request
OpAt   == {"idle", "begin", "verify", "save", "send", "pause", "again", "read", "remove", "rework"}
Nobody == "nobody"
At(at, f) == [at |-> at, cur |-> f]
Idle == At("idle", None)
NoToken == [file |-> None, asked |-> FALSE]

Init ==
  /\ created = 0
  /\ row = {}
  /\ info = {}
  /\ parent = [f \in File |-> None]
  /\ range = [f \in File |-> 0]
  /\ using = None
  /\ last = None
  /\ finished = FALSE
  /\ size = [f \in File |-> 0]
  /\ kts = NoToken
  /\ lock = Nobody
  /\ op = [t \in Thread |-> Idle]
  /\ queue = {}
  /\ stamp = [file |-> None, seen |-> 0]
  /\ faults = 0
  /\ unsure = {}
  /\ lost = {}

Goto(t, at, f, holder) == op' = [op EXCEPT ![t] = At(at, f)] /\ lock' = holder
Release(t) == Goto(t, "idle", None, IF lock = t THEN Nobody ELSE lock)

(* updateToken reaches the KT service or raises without effect.               *)
Told(token) == kts' = token /\ UNCHANGED faults
Fault       == faults < MaxFaults /\ faults' = faults + 1
NotTold     == Fault /\ UNCHANGED kts

-----------------------------------------------------------------------------
(* A new file: refresh_cdp_file_logic and the second half of change_cdp_file_logic. *)

(* query_or_generate_disk_snapshot_cdp, when no file is being written.         *)
Generate(t) ==
  /\ created < MaxFiles
  /\ created' = created + 1
  /\ row' = row \cup {created'}
  /\ info' = info \cup {created'}
  /\ parent' = [parent EXCEPT ![created'] = last]
  /\ Goto(t, "save", created', t)
  /\ UNCHANGED <<using, last, lost>>

(* The agent asks for its token, which may name a file already.               *)
Refresh ==
  /\ op["refresh"] = Idle
  /\ lock = Nobody
  /\ ~ finished
  /\ IF using # None THEN Goto("refresh", "send", using, "refresh") /\ UNCHANGED tokenVars
                     ELSE Generate("refresh")
  /\ UNCHANGED <<rangeVars, finished, size, kts, faults, unsure>>

(* change_cdp_file_logic goes on with a new file unless the task has ended, its *)
(* plan is disabled or space is missing.                                     *)
Verify ==
  /\ op["change"].at = "verify"
  /\ \/ ~ finished /\ Generate("change")
     \/ Release("change") /\ UNCHANGED tokenVars
  /\ UNCHANGED <<rangeVars, finished, size, kts, faults, unsure>>

SaveUsing(t) ==
  /\ op[t].at = "save"
  /\ using' = op[t].cur
  /\ Goto(t, "send", op[t].cur, t)
  /\ UNCHANGED <<created, row, info, parent, last, lost, rangeVars, finished, size, kts, faults, unsure>>

Send(t) ==
  /\ op[t].at = "send"
  /\ Told([file |-> op[t].cur, asked |-> kts.asked /\ kts.file = op[t].cur])
  /\ Release(t)
  /\ UNCHANGED <<tokenVars, rangeVars, finished, size, unsure>>

-----------------------------------------------------------------------------
(* Closing a file. *)

(* A fault of CloseUsing: the token keeps the last file it had.               *)
CloseUsingOnly == using' = None /\ UNCHANGED last

(* suspend_disk_snapshot_cdp_object of a file that is on the disk: whatever the *)
(* token uses, this file or another one, is closed.                          *)
CloseUsing ==
  /\ using' = None
  /\ last' = IF using # None THEN using ELSE last

(* ... and of one that nothing was written to: whatever the token uses, this     *)
(* file or another one, is forgotten.  A DiskSnapshot others refer to cannot be   *)
(* deleted (PROTECT), which raises when its CDP row is gone already.            *)
Protected(f) == f = last \/ \E g \in row : parent[g] = f

(* A fault of Drop: the token goes on naming the file.                        *)
DropRowsOnly(f) == row' = row \ {f} /\ info' = info \ {f} /\ UNCHANGED <<using, last, lost>>

Drop(f) ==
  /\ using' = None
  /\ info' = info \ {f}
  /\ row' = IF Protected(f) THEN row ELSE row \ {f}
  /\ lost' = lost \cup ({using} \ {None, f})
  /\ UNCHANGED last

Suspend(f) ==
  /\ IF size[f] > 0 THEN CloseUsing /\ UNCHANGED <<row, info, lost>> ELSE Drop(f)
  /\ UNCHANGED <<created, parent>>

Enqueue(f) ==
  /\ queue' = IF size[f] > 0 /\ f \in Ranged THEN queue \cup {f} ELSE queue
  /\ UNCHANGED <<range, stamp>>

(* updateToken failed: the file that was to be written is suspended.           *)
SendFails(t) ==
  /\ op[t].at = "send"
  /\ NotTold
  /\ Suspend(op[t].cur)
  /\ Enqueue(op[t].cur)
  /\ Release(t)
  /\ unsure' = unsure \cup {op[t].cur}
  /\ UNCHANGED <<finished, size>>

(* The KT service asks for another file and stops writing to the one it has.    *)
KtsAsks ==
  /\ op["change"] = Idle
  /\ kts.file # None
  /\ size[kts.file] > 0
  /\ kts' = [kts EXCEPT !.asked = TRUE]
  /\ op' = [op EXCEPT !["change"] = At("begin", kts.file)]
  /\ UNCHANGED <<tokenVars, rangeVars, finished, size, lock, faults, unsure>>

(* A fault of ReadUsing: tokens of tasks that have ended are left out.         *)
ReadUsingOfRunning(t) ==
  /\ t \in {"rotate"} \cup Request
  /\ op[t] = Idle
  /\ using # None
  /\ ~ finished
  /\ op' = [op EXCEPT ![t] = At("begin", using)]
  /\ UNCHANGED <<tokenVars, rangeVars, finished, size, kts, lock, faults, unsure>>

(* The rotation thread, and every request that closes a file, read the token     *)
(* before they take the lock; requests run side by side.                       *)
ReadUsing(t) ==
  /\ t \in {"rotate"} \cup Request
  /\ op[t] = Idle
  /\ using # None
  /\ op' = [op EXCEPT ![t] = At("begin", using)]
  /\ UNCHANGED <<tokenVars, rangeVars, finished, size, kts, lock, faults, unsure>>

(* Which file the lock finds: change_cdp_file_logic compares it with the one    *)
(* that is being written, the others look for its CDP row.                     *)
Valid(t) == IF t \in {"change", "rotate"} THEN using = op[t].cur ELSE op[t].cur \in info

Invalid(t) ==
  /\ op[t].at = "begin"
  /\ lock = Nobody
  /\ ~ Valid(t)
  /\ Release(t)
  /\ UNCHANGED <<tokenVars, rangeVars, finished, size, kts, faults, unsure>>

(* The file that is closed besides, or while it may still be written.          *)
Doubtful(t) ==
  ({using} \ {None, op[t].cur}) \cup
  (IF t = "change" /\ kts.file = op[t].cur /\ ~ kts.asked THEN {op[t].cur} ELSE {})

Close(t) ==
  /\ op[t].at = "begin"
  /\ lock = Nobody
  /\ Valid(t)
  /\ Suspend(op[t].cur)
  /\ IF t = "worker" THEN range' = [range EXCEPT ![op[t].cur] = size[op[t].cur]] /\ UNCHANGED <<queue, stamp>>
                     ELSE Enqueue(op[t].cur)
  /\ IF size[op[t].cur] > 0
       THEN CASE t = "change" -> Goto(t, "verify", None, t)
              [] t = "worker" -> Goto(t, "pause", op[t].cur, Nobody)
              [] OTHER        -> Goto(t, "pause", op[t].cur, t)
       ELSE CASE t \in {"change", "rotate"} \/ Protected(op[t].cur) -> Release(t)
              [] t = "worker"               -> Goto(t, "pause", None, Nobody)
              [] OTHER                      -> Goto(t, "pause", None, t)
  /\ unsure' = unsure \cup Doubtful(t)
  /\ UNCHANGED <<finished, size, kts, faults>>

(* A fault of Pause: the range is not asked for again.                        *)
PauseOnce(t) ==
  /\ op[t].at = "pause"
  /\ Told(NoToken)
  /\ Release(t)
  /\ UNCHANGED <<tokenVars, rangeVars, finished, size, unsure>>

(* The KT service is told to stop; what it wrote meanwhile is in the file.      *)
Pause(t) ==
  /\ op[t].at = "pause"
  /\ Told(NoToken)
  /\ IF op[t].cur = None THEN Release(t) ELSE Goto(t, "again", op[t].cur, lock)
  /\ UNCHANGED <<tokenVars, rangeVars, finished, size, unsure>>

(* It is not told: the callers give up, the end of the task goes on.           *)
PauseFails(t) ==
  /\ op[t].at = "pause"
  /\ NotTold
  /\ IF t = "worker" /\ op[t].cur # None THEN Goto(t, "again", op[t].cur, lock) ELSE Release(t)
  /\ unsure' = unsure \cup ({op[t].cur, kts.file} \ {None})
  /\ UNCHANGED <<tokenVars, rangeVars, finished, size>>

(* The second suspend: the range is asked for again.                          *)
Again(t) ==
  /\ op[t].at = "again"
  /\ lock = IF t = "worker" THEN Nobody ELSE t
  /\ Enqueue(op[t].cur)
  /\ Release(t)
  /\ UNCHANGED <<tokenVars, finished, size, kts, faults, unsure>>

-----------------------------------------------------------------------------
(* The end of the task: finish_cdp_task_object, deal_cdp_when_backup_ok.        *)

Finish ==
  /\ op["worker"] = Idle
  /\ ~ finished
  /\ finished' = TRUE
  /\ op' = [op EXCEPT !["worker"] = At("read", None)]
  /\ UNCHANGED <<tokenVars, rangeVars, size, kts, lock, faults, unsure>>

(* Logs, mails and a command to the agent later, the token is read, once.      *)
ReadToken ==
  /\ op["worker"].at = "read"
  /\ op' = [op EXCEPT !["worker"] = At("remove", using)]
  /\ UNCHANGED <<tokenVars, rangeVars, finished, size, kts, lock, faults, unsure>>

(* It is removed from the KT service, here and after a restart; a failure is    *)
(* ignored.                                                                *)
Remove ==
  /\ op["worker"].at \in {"remove", "rework"}
  /\ Told(NoToken) \/ NotTold
  /\ op' = [op EXCEPT !["worker"] = IF @.cur = None THEN Idle ELSE At("begin", @.cur)]
  /\ UNCHANGED <<tokenVars, rangeVars, finished, size, lock, unsure>>

-----------------------------------------------------------------------------
(* The thread UpdateDiskSnapshotCdpTimestamp, the KT service and restarts.      *)

Query ==
  /\ stamp.file = None
  /\ \E f \in queue :
       /\ queue' = queue \ {f}
       /\ stamp' = [file |-> f, seen |-> size[f]]
  /\ UNCHANGED <<range, tokenVars, finished, size, kts, lock, op, faults, unsure>>

Record ==
  /\ stamp.file # None
  /\ range' = [range EXCEPT ![stamp.file] = stamp.seen]
  /\ stamp' = [file |-> None, seen |-> 0]
  /\ UNCHANGED <<queue, tokenVars, finished, size, kts, lock, op, faults, unsure>>

KtsWrites ==
  /\ kts.file # None
  /\ ~ kts.asked
  /\ size[kts.file] < IF kts.file \in Ranged THEN MaxWrites ELSE 1
  /\ size' = [size EXCEPT ![kts.file] = @ + 1]
  /\ UNCHANGED <<tokenVars, rangeVars, finished, kts, lock, op, faults, unsure>>

Closing == {op[t].cur : t \in {u \in Thread : op[u].at \in {"pause", "again"}}}

(* The queue is in memory; an unfinished task is taken up by CDPTaskReWorker.   *)
Restart ==
  /\ Fault
  /\ lock' = Nobody
  /\ op' = [t \in Thread |-> IF t = "worker" /\ ~ finished THEN At("rework", None) ELSE Idle]
  /\ queue' = {}
  /\ stamp' = [file |-> None, seen |-> 0]
  /\ unsure' = unsure \cup queue \cup (({stamp.file} \cup Closing) \ {None})
  /\ UNCHANGED <<tokenVars, range, finished, size, kts>>

Continue(t) == SaveUsing(t) \/ Send(t) \/ SendFails(t) \/ Invalid(t) \/ Close(t)
               \/ Pause(t) \/ PauseFails(t) \/ Again(t)
WorkerStep  == ReadToken \/ Remove

Next ==
  \/ Refresh \/ Verify \/ KtsAsks \/ Finish \/ WorkerStep
  \/ \E t \in Thread : Continue(t) \/ ReadUsing(t)
  \/ Query \/ Record \/ KtsWrites \/ Restart

Spec == Init /\ [][Next]_vars

(* Who holds the lock goes on, and the rotation thread, which never ends, gets it *)
(* some time.                                                               *)
Fairness ==
  /\ WF_vars(\E t \in Thread : lock = t /\ (Continue(t) \/ Verify))
  /\ WF_vars(ReadUsing("rotate")) /\ SF_vars(Continue("rotate"))

FairSpec == Spec /\ Fairness

-----------------------------------------------------------------------------
(* Properties. *)

TypeOK ==
  /\ created \in 0 .. MaxFiles
  /\ row \subseteq 1 .. created /\ info \subseteq row
  /\ parent \in [File -> 0 .. MaxFiles]
  /\ range \in [File -> 0 .. MaxWrites] /\ size \in [File -> 0 .. MaxWrites]
  /\ using \in info \cup {None} /\ last \in row \cup {None}
  /\ finished \in BOOLEAN
  /\ kts \in [file : 0 .. created, asked : BOOLEAN]
  /\ lock \in Thread \cup {Nobody}
  /\ op \in [Thread -> [at : OpAt, cur : 0 .. created]]
  /\ queue \subseteq 1 .. created
  /\ stamp \in [file : 0 .. created, seen : 0 .. MaxWrites]
  /\ faults \in 0 .. MaxFaults
  /\ unsure \subseteq 1 .. created /\ lost \subseteq 1 .. created

Data == {f \in row : size[f] > 0}

(* A point in time is read through every file before it.  So each file with     *)
(* data hangs on the one before it, no file forks off, and the next one will    *)
(* hang on the newest.  Between two of them an empty one may only stand when    *)
(* its request was closed together with another file (see LastIsWritten).  Left  *)
(* out are files in use when a late request closes an older one that is empty:    *)
(* the token forgets them, and the next file hangs beside them (see Drop).        *)
DataInOrder ==
  /\ \A f, g \in Data : f < g /\ f \notin lost => f <= parent[g]
  /\ \A g \in Data : parent[g] \in Data \cup {None} \cup unsure
  /\ \A f \in Data \ lost : f = using \/ f <= last

(* When all is quiet the range of a closed file covers what was written to it,   *)
(* although the file was written while the range was looked up the first time.   *)
(* Left out are files whose closing the KT service was not told, those closed    *)
(* together with another file, and those a restart found in the queue.         *)
RangeKnown ==
  \A f \in (Data \cap Ranged) \ ({using, stamp.file} \cup queue \cup Closing \cup unsure) : range[f] = size[f]

(* After the end of a task its files are closed, also one a request that had     *)
(* passed the checks opened after that.                                      *)
EventuallyClosed == finished ~> [](using = None)

(* models.py:1171, the last CDP file written to.                              *)
LastIsWritten == last # None => size[last] > 0
=============================================================================
