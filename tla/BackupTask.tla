----------------------------- MODULE BackupTask -----------------------------
(***************************************************************************)
(* The backups of one host: the threads that start them, the worker thread   *)
(* of each task, and the agent that copies the disks and reports.            *)
(*                                                                         *)
(* The plan scheduler and users start backups; both check first that nothing  *)
(* runs on the host, and nothing holds these checks and the new row of        *)
(* BackupTask together.  The worker queues, commands the agent, marks the     *)
(* host snapshot as started and polls until the report of the agent has       *)
(* finished it.  A report names the host only: it goes to the host snapshot   *)
(* that started last.                                                       *)
(*                                                                         *)
(* When a plan is due, and what a failure does to that, is BackupRetry; here  *)
(* a start may come at any time.  Admission is that of TaskQueue.             *)
(***************************************************************************)
EXTENDS Naturals, FiniteSets, SequencesExt

CONSTANTS Task,        \* rows of BackupTask, their number bounds the starts
          Caller,      \* the thread of PlanScheduler and REST threads, which start plans
          Nobody,      \* no task
          MaxRestarts  \* bound: restarts of the service

ASSUME NobodyAssumption == Nobody \notin Task
ASSUME BoundAssumption  == MaxRestarts \in Nat

VARIABLES
  row,        \* the row of each task: none, open, and its result once finished
  cancelled,  \* tasks with the cancel key, or whose plan was disabled or deleted
  snap,       \* the host snapshot of each task: successful and partial, once finished
  started,    \* host snapshots with a start and no finish, in the order of their start
  worker,     \* where the thread of each task is
  agent,      \* the task whose backup the agent of the host executes
  outcome,    \* history: how the agent's own run for the task ended
  caller,     \* the threads that start plans
  raced,      \* history: tasks whose rows were unfinished beside another one
  restarts

vars == <<row, cancelled, snap, started, worker, agent, outcome, caller, raced, restarts>>
rowVars   == <<row, cancelled>>
snapVars  == <<snap, started>>
agentVars == <<agent, outcome>>
otherVars == <<raced, restarts>>

Result  == {"complete", "partial", "failed"}
WorkerState == {"none", "created", "linked", "admitted", "commanded", "polling", "asking",
                "failed", "closing_snapshot", "closing_open", "succeeded", "gone", "lost"}
CallerState == {"idle", "check_rows", "check_snapshots", "create"}

Open(t)  == row[t] = "open"
Ended(t) == worker[t] \in {"none", "gone", "lost"}

Init ==
  /\ row = [t \in Task |-> "none"]
  /\ cancelled = {}
  /\ snap = [t \in Task |-> "none"]
  /\ started = <<>>
  /\ worker = [t \in Task |-> "none"]
  /\ agent = Nobody
  /\ outcome = [t \in Task |-> "none"]
  /\ caller = [c \in Caller |-> "idle"]
  /\ raced = {}
  /\ restarts = 0

-----------------------------------------------------------------------------
(* The threads that start a plan. *)

CallerAt(c, pc) == caller[c] = pc

GoTo(c, pc) == caller' = [caller EXCEPT ![c] = pc]

RowLeft == \E t \in Task : row[t] = "none"
NextRow == CHOOSE t \in Task : row[t] = "none"

Start(c) ==
  /\ RowLeft
  /\ CallerAt(c, "idle")
  /\ GoTo(c, "check_rows")
  /\ UNCHANGED <<rowVars, snapVars, worker, agentVars, otherVars>>

(* _check_not_backup_task_running and _check_not_other_task_running. *)
CheckRows(c) ==
  /\ CallerAt(c, "check_rows")
  /\ GoTo(c, IF \E t \in Task : Open(t) THEN "idle" ELSE "check_snapshots")
  /\ UNCHANGED <<rowVars, snapVars, worker, agentVars, otherVars>>

(* _check_other_task. *)
CheckSnapshots(c) ==
  /\ CallerAt(c, "check_snapshots")
  /\ GoTo(c, IF started # <<>> THEN "idle" ELSE "create")
  /\ UNCHANGED <<rowVars, snapVars, worker, agentVars, otherVars>>

(* The plan is disabled, the host is offline, the quota is used up. *)
Refuse(c) ==
  /\ CallerAt(c, "create")
  /\ GoTo(c, "idle")
  /\ UNCHANGED <<rowVars, snapVars, worker, agentVars, otherVars>>

(* The row of the task is created and its thread started. *)
CreateRow(c, t) ==
  /\ CallerAt(c, "create")
  /\ RowLeft
  /\ t = NextRow
  /\ row' = [row EXCEPT ![t] = "open"]
  /\ worker' = [worker EXCEPT ![t] = "created"]
  /\ LET others == {u \in Task : Open(u)}
     IN  raced' = IF others = {} THEN raced ELSE raced \cup others \cup {t}
  /\ GoTo(c, "idle")
  /\ UNCHANGED <<cancelled, snapVars, agentVars, restarts>>

-----------------------------------------------------------------------------
(* The thread of a task. *)

WorkerAt(t, pc) == worker[t] = pc

Work(t, pc) == worker' = [worker EXCEPT ![t] = pc]

(* The host snapshot and the link to it, or a host that cannot be backed up.  One *)
(* that was created and not linked yet is as good as none: it has no start, and   *)
(* no report, check or end of a task looks at it.                             *)
Prepare(t) ==
  /\ WorkerAt(t, "created")
  /\ \/ /\ snap' = [snap EXCEPT ![t] = "new"]
        /\ Work(t, "linked")
     \/ /\ Work(t, "failed")
        /\ UNCHANGED snap
  /\ UNCHANGED <<rowVars, started, agentVars, caller, otherVars>>

(* The queue: admitted, or stopped by UserCancelCheck. *)
Admit(t) ==
  /\ WorkerAt(t, "linked")
  /\ Work(t, IF t \in cancelled THEN "failed" ELSE "admitted")
  /\ UNCHANGED <<rowVars, snapVars, agentVars, caller, otherVars>>

(* A fault of Command: the status of the disks is not looked at, and the agent   *)
(* answers for the backup it already executes.                                 *)
CommandUnchecked(t) ==
  /\ WorkerAt(t, "admitted")
  /\ agent' = IF agent = Nobody THEN t ELSE agent
  /\ Work(t, "commanded")
  /\ UNCHANGED <<rowVars, snapVars, outcome, caller, otherVars>>

(* The status of the disks shows no other backup and the agent takes the command. *)
Command(t) ==
  /\ WorkerAt(t, "admitted")
  /\ agent = Nobody
  /\ agent' = t
  /\ Work(t, "commanded")
  /\ UNCHANGED <<rowVars, snapVars, outcome, caller, otherVars>>

(* A fault of CommandFails: the code of the error is kept as the result.         *)
CommandFailsCode(t) ==
  /\ WorkerAt(t, "admitted")
  /\ snap' = [snap EXCEPT ![t] = "code_2342"]
  /\ Work(t, "failed")
  /\ UNCHANGED <<rowVars, started, agentVars, caller, otherVars>>

(* work raises, set_host_snapshot_failed: the disks are busy, an image cannot   *)
(* be created, or the answer of an agent that took the command got lost.       *)
CommandFails(t) ==
  /\ WorkerAt(t, "admitted")
  /\ snap' = [snap EXCEPT ![t] = "failed"]
  /\ Work(t, "failed")
  /\ \/ UNCHANGED agent
     \/ agent = Nobody /\ agent' = t
  /\ UNCHANGED <<rowVars, started, outcome, caller, otherVars>>

(* set_host_snapshot_valid. *)
Record(t) ==
  /\ WorkerAt(t, "commanded")
  /\ started' = Append(started, t)
  /\ Work(t, "polling")
  /\ UNCHANGED <<rowVars, snap, agentVars, caller, otherVars>>

(* _check_backup_task_status, first half: the host snapshot, then the user.    *)
ReadSnapshot(t) ==
  /\ WorkerAt(t, "polling")
  /\ \/ snap[t] = "complete" /\ Work(t, "succeeded")
     \/ snap[t] \in {"partial", "failed"} /\ Work(t, "failed")
     \/ snap[t] = "new" /\ Work(t, IF t \in cancelled THEN "failed" ELSE "asking")
  /\ UNCHANGED <<rowVars, snapVars, agentVars, caller, otherVars>>

(* A fault of ReadStatus: only the report ends the wait.                        *)
ReadStatusPatient(t) ==
  /\ WorkerAt(t, "asking")
  /\ Work(t, "polling")
  /\ UNCHANGED <<rowVars, snapVars, agentVars, caller, otherVars>>

(* Second half: GetStatus; without 'backup' the host snapshot is read again.   *)
ReadStatus(t) ==
  /\ WorkerAt(t, "asking")
  /\ IF agent # Nobody \/ snap[t] \in {"complete", "partial"} THEN Work(t, "polling")
     ELSE Work(t, "failed")
  /\ UNCHANGED <<rowVars, snapVars, agentVars, caller, otherVars>>

(* The host stays offline for five minutes. *)
Offline(t) ==
  /\ WorkerAt(t, "asking")
  /\ Work(t, "failed")
  /\ UNCHANGED <<rowVars, snapVars, agentVars, caller, otherVars>>

(* _finish_backup_task_object: the row ... *)
CloseRow(t) ==
  /\ WorkerAt(t, "failed")
  /\ row' = [row EXCEPT ![t] = "failed"]
  /\ Work(t, IF snap[t] = "none" THEN "gone" ELSE "closing_snapshot")
  /\ UNCHANGED <<cancelled, snapVars, agentVars, caller, otherVars>>

(* A fault of ReadOpenSnapshot: a host snapshot that is started is left to the    *)
(* report of the agent.                                                       *)
ReadOpenSnapshotUnstarted(t) ==
  /\ WorkerAt(t, "closing_snapshot")
  /\ Work(t, IF snap[t] = "new" /\ t \notin ToSet(started) THEN "closing_open" ELSE "gone")
  /\ UNCHANGED <<rowVars, snapVars, agentVars, caller, otherVars>>

(* ... then its host snapshot, read ... *)
ReadOpenSnapshot(t) ==
  /\ WorkerAt(t, "closing_snapshot")
  /\ Work(t, IF snap[t] = "new" THEN "closing_open" ELSE "gone")
  /\ UNCHANGED <<rowVars, snapVars, agentVars, caller, otherVars>>

(* ... and saved: finish_datetime and successful, whatever a report has set      *)
(* between.  Together with the partial of a report of an error, that is a       *)
(* complete one.                                                            *)
CloseSnapshot(t) ==
  /\ WorkerAt(t, "closing_open")
  /\ snap' = [snap EXCEPT ![t] = IF @ = "new" THEN "partial"
                                 ELSE IF @ = "failed" THEN "complete" ELSE @]
  /\ \/ \E i \in DOMAIN started : started[i] = t /\ started' = RemoveAt(started, i)
     \/ t \notin ToSet(started) /\ UNCHANGED started
  /\ Work(t, "gone")
  /\ UNCHANGED <<rowVars, agentVars, caller, otherVars>>

(* The compress tasks, the row, then mails and the hash file.  What raises, before *)
(* or after the row is saved, has the task end once more, as failed.             *)
CloseSuccess(t) ==
  /\ WorkerAt(t, "succeeded")
  /\ \/ row' = [row EXCEPT ![t] = "ok"] /\ Work(t, "gone")
     \/ row' = [row EXCEPT ![t] = "ok"] /\ Work(t, "failed")
     \/ UNCHANGED row /\ Work(t, "failed")
  /\ UNCHANGED <<cancelled, snapVars, agentVars, caller, otherVars>>

(* cancel_backup of the page, or the plan is disabled or deleted. *)
Cancel(t) ==
  /\ Open(t)
  /\ cancelled' = cancelled \cup {t}
  /\ UNCHANGED <<row, snapVars, worker, agentVars, caller, otherVars>>

-----------------------------------------------------------------------------
(* The agent. *)

(* Its backup ends; the report goes to HostSessionBackup.delete, which picks    *)
(* the host snapshot that started last, and comes before the status changes.   *)
AgentEnds(result) ==
  /\ agent # Nobody
  /\ agent' = Nobody
  /\ outcome' = [outcome EXCEPT ![agent] = result]
  /\ IF started = <<>> THEN UNCHANGED <<snap, started>>
     ELSE /\ snap' = [snap EXCEPT ![Last(started)] = result]
          /\ started' = Front(started)
  /\ UNCHANGED <<rowVars, worker, caller, otherVars>>

(* The machine is switched off: no report. *)
AgentDies ==
  /\ agent # Nobody
  /\ agent' = Nobody
  /\ UNCHANGED <<rowVars, snapVars, worker, outcome, caller, otherVars>>

-----------------------------------------------------------------------------
(* The threads are lost, the tables and the agent go on; the unfinished rows    *)
(* get a BackupTaskReWorker each.                                             *)
Restart ==
  /\ restarts < MaxRestarts
  /\ restarts' = restarts + 1
  /\ caller' = [c \in Caller |-> "idle"]
  /\ worker' = [t \in Task |->
       IF Ended(t) THEN worker[t]
       ELSE IF ~ Open(t) THEN "lost"
       ELSE IF snap[t] = "none" THEN "failed" ELSE "polling"]
  /\ UNCHANGED <<rowVars, snapVars, agentVars, raced>>

WorkerStep(t) ==
  \/ Prepare(t) \/ Admit(t) \/ Command(t) \/ CommandFails(t) \/ Record(t)
  \/ ReadSnapshot(t) \/ ReadStatus(t) \/ Offline(t)
  \/ CloseRow(t) \/ ReadOpenSnapshot(t) \/ CloseSnapshot(t) \/ CloseSuccess(t)

CallerStep(c) ==
  \/ Start(c) \/ CheckRows(c) \/ CheckSnapshots(c) \/ Refuse(c)
  \/ \E t \in Task : CreateRow(c, t)

AgentStep == AgentDies \/ \E result \in Result : AgentEnds(result)

Next ==
  \/ \E t \in Task : WorkerStep(t) \/ Cancel(t)
  \/ \E c \in Caller : CallerStep(c)
  \/ AgentStep
  \/ Restart

Spec == Init /\ [][Next]_vars

(* A worker thread goes on and a backup of the agent ends in some way.  Nobody   *)
(* has to start, cancel or edit anything.                                     *)
Fairness ==
  /\ \A t \in Task : WF_vars(WorkerStep(t))
  /\ WF_vars(AgentStep)

FairSpec == Spec /\ Fairness

-----------------------------------------------------------------------------
(* Properties. *)

TypeOK ==
  /\ row \in [Task -> {"none", "open", "ok", "failed"}]
  /\ cancelled \subseteq Task
  /\ snap \in [Task -> {"none", "new"} \cup Result]
  /\ started \in Seq(Task)
  /\ worker \in [Task -> WorkerState]
  /\ agent \in Task \cup {Nobody}
  /\ outcome \in [Task -> {"none"} \cup Result]
  /\ caller \in [Caller -> CallerState]
  /\ raced \subseteq Task
  /\ restarts \in 0 .. MaxRestarts

(* A task is a success only if the agent completed the backup of this task, no   *)
(* matter which reports came late, or for whom; two tasks started side by side   *)
(* are exempt.                                                              *)
SuccessIsOwn == \A t \in Task \ raced : row[t] = "ok" => outcome[t] = "complete"

(* A thread that has ended, other than by a restart, leaves no host snapshot    *)
(* behind that would keep the host from being backed up.                      *)
SnapshotClosed == \A t \in Task : worker[t] = "gone" => t \notin ToSet(started) /\ snap[t] # "new"

(* Every task ends, with lost reports, dead agents, cancellations and a restart. *)
TaskFinishes == \A t \in Task : Open(t) ~> ~ Open(t)
=============================================================================
