------------------------------ MODULE TaskQueue ------------------------------
(***************************************************************************)
(* The queue that bounds how many backup, CDP and migration tasks execute    *)
(* at a time.                                                              *)
(*                                                                         *)
(* A task thread puts itself at the tail of _queuing_tasks and polls: once   *)
(* it is at the head and _running_tasks, without the tasks whose row says     *)
(* that they finished, is shorter than the configured number, it adds        *)
(* itself there and goes on to send its command.  The lists are in memory;   *)
(* after a restart the unfinished tasks of the tables are added to           *)
(* _running_tasks without queueing.  A cluster backup is one thread that      *)
(* queues a task for each of its hosts in turn and finishes all of them at    *)
(* its end.                                                                *)
(***************************************************************************)
EXTENDS Naturals, FiniteSets, SequencesExt

CONSTANTS Task,        \* rows of BackupTask, FileBackupTask, CDPTask, MigrateTask
          Endless,     \* CDP tasks: they execute until the user stops the plan
          Stubborn,    \* tasks that queue without a check of cancellation (migration)
          Cluster,     \* cluster backups
          SubTask,     \* the tasks of a cluster backup, one per host
          Limits,      \* the numbers the page lets a user configure
          MaxRestarts  \* bound: restarts of the service

ASSUME LimitAssumption == Limits \subseteq Nat \ {0} /\ MaxRestarts \in Nat
ASSUME ClusterAssumption ==
  /\ SubTask \in [Cluster -> SUBSET Task]
  /\ \A c, d \in Cluster : c # d => SubTask[c] \cap SubTask[d] = {}
ASSUME KindAssumption == Endless \subseteq Task /\ Stubborn \subseteq Task

VARIABLES
  queuing,    \* _queuing_tasks
  running,    \* _running_tasks; a task is added once between two restarts
  call,       \* where the thread of the task is
  seen,       \* running_max_count of the poll under way, 0 between two polls
  finished,   \* the rows whose finish_datetime is set
  limit,      \* the configured number
  flow,       \* the thread of a cluster backup
  restarts

vars == <<queuing, running, call, seen, finished, limit, flow, restarts>>

Subs   == UNION {SubTask[c] : c \in Cluster}
Single == Task \ Subs

CallState == {"none", "created", "waiting", "admitted", "refused", "executing", "failed",
              "lost", "reworked"}
FlowState == {"idle", "starting", "backing_up", "failed", "done"}

(* The tasks that load the storage and the network. *)
Active == {t \in Task : call[t] \in {"admitted", "executing", "reworked"} /\ t \notin finished}

(* The restart loads the unfinished tasks before the service takes requests.  *)
Up == \A t \in Task : call[t] = "lost" => t \in finished

Init ==
  /\ queuing = <<>>
  /\ running = {}
  /\ call = [t \in Task |-> "none"]
  /\ seen = [t \in Task |-> 0]
  /\ finished = {}
  /\ limit \in Limits
  /\ flow = [c \in Cluster |-> "idle"]
  /\ restarts = 0

-----------------------------------------------------------------------------
(* The thread of a task. *)

(* The row of the task, its host snapshot and the link between them. *)
Create(t) ==
  /\ Up
  /\ t \in Single
  /\ call[t] = "none"
  /\ call' = [call EXCEPT ![t] = "created"]
  /\ UNCHANGED <<queuing, running, seen, finished, limit, flow, restarts>>

Enter(t) ==
  /\ call[t] = "created"
  /\ queuing' = Append(queuing, t)
  /\ call' = [call EXCEPT ![t] = "waiting"]
  /\ UNCHANGED <<running, seen, finished, limit, flow, restarts>>

(* The plan was disabled or deleted, or the task cancelled. *)
Refuse(t) ==
  /\ call[t] = "waiting"
  /\ t \in Single \ Stubborn
  /\ seen[t] = 0
  /\ call' = [call EXCEPT ![t] = "refused"]
  /\ UNCHANGED <<queuing, running, seen, finished, limit, flow, restarts>>

(* A fault of Poll: the number is kept one too low. *)
PollOneLess(t) ==
  /\ call[t] = "waiting"
  /\ seen[t] = 0
  /\ seen' = [seen EXCEPT ![t] = limit - 1]
  /\ UNCHANGED <<queuing, running, call, finished, limit, flow, restarts>>

(* The number is read before the lock is taken. *)
Poll(t) ==
  /\ call[t] = "waiting"
  /\ seen[t] = 0
  /\ seen' = [seen EXCEPT ![t] = limit]
  /\ UNCHANGED <<queuing, running, call, finished, limit, flow, restarts>>

(* A fault of AtHead: whoever polls first is admitted. *)
AtHeadNever(t) == TRUE

AtHead(t)   == queuing[1] = t
Unfinished  == running \ finished

LookBehind(t) ==
  /\ ~ AtHead(t)
  /\ UNCHANGED <<running, call>>

LookFull(t) ==
  /\ AtHead(t)
  /\ Cardinality(Unfinished) >= seen[t]
  /\ running' = Unfinished
  /\ UNCHANGED call

Admit(t) ==
  /\ AtHead(t)
  /\ Cardinality(Unfinished) < seen[t]
  /\ running' = Unfinished \cup {t}
  /\ call' = [call EXCEPT ![t] = "admitted"]

Look(t) ==
  /\ call[t] = "waiting"
  /\ seen[t] # 0
  /\ seen' = [seen EXCEPT ![t] = 0]
  /\ LookBehind(t) \/ LookFull(t) \/ Admit(t)
  /\ UNCHANGED <<queuing, finished, limit, flow, restarts>>

(* A fault of Leave: no finally clause. *)
LeaveAdmitted(t) ==
  /\ call[t] = "admitted"
  /\ \E i \in DOMAIN queuing : queuing[i] = t /\ queuing' = RemoveAt(queuing, i)
  /\ call' = [call EXCEPT ![t] = "executing"]
  /\ UNCHANGED <<running, seen, finished, limit, flow, restarts>>

(* The finally clause. *)
Leave(t) ==
  /\ call[t] \in {"admitted", "refused"}
  /\ \E i \in DOMAIN queuing : queuing[i] = t /\ queuing' = RemoveAt(queuing, i)
  /\ call' = [call EXCEPT ![t] = IF @ = "admitted" THEN "executing" ELSE "failed"]
  /\ UNCHANGED <<running, seen, finished, limit, flow, restarts>>

(* Success or failure of the command, of the data transfer or of a step       *)
(* before the queue.                                                         *)
Finish(t) ==
  /\ t \in Single
  /\ call[t] \in {"created", "executing", "failed", "reworked"}
  /\ t \notin finished
  /\ finished' = finished \cup {t}
  /\ call' = [call EXCEPT ![t] = IF @ = "created" THEN "failed" ELSE @]
  /\ UNCHANGED <<queuing, running, seen, limit, flow, restarts>>
-----------------------------------------------------------------------------
(* The thread of a cluster backup. *)

StartFlow(c) ==
  /\ Up
  /\ flow[c] = "idle"
  /\ flow' = [flow EXCEPT ![c] = "starting"]
  /\ UNCHANGED <<queuing, running, call, seen, finished, limit, restarts>>

(* The next host, when the commands to the ones before it were sent. *)
CreateSub(c, t) ==
  /\ flow[c] = "starting"
  /\ t \in SubTask[c]
  /\ call[t] = "none"
  /\ \A u \in SubTask[c] : call[u] \in {"none", "executing"}
  /\ call' = [call EXCEPT ![t] = "created"]
  /\ UNCHANGED <<queuing, running, seen, finished, limit, flow, restarts>>

AllCommanded(c) ==
  /\ flow[c] = "starting"
  /\ \A t \in SubTask[c] : call[t] = "executing"
  /\ flow' = [flow EXCEPT ![c] = "backing_up"]
  /\ UNCHANGED <<queuing, running, call, seen, finished, limit, restarts>>

(* A command fails, or a step before the queue. *)
FailFlow(c) ==
  /\ flow[c] = "starting"
  /\ \A t \in SubTask[c] : call[t] \in {"none", "created", "executing"}
  /\ flow' = [flow EXCEPT ![c] = "failed"]
  /\ call' = [t \in Task |-> IF t \in SubTask[c] /\ call[t] = "created" THEN "failed" ELSE call[t]]
  /\ UNCHANGED <<queuing, running, seen, finished, limit, restarts>>

(* The last step of the flow finishes the tasks of all hosts. *)
FinishFlow(c) ==
  /\ Up
  /\ flow[c] \in {"backing_up", "failed"}
  /\ flow' = [flow EXCEPT ![c] = "done"]
  /\ finished' = finished \cup {t \in SubTask[c] : call[t] # "none"}
  /\ UNCHANGED <<queuing, running, call, seen, limit, restarts>>
-----------------------------------------------------------------------------
SetLimit ==
  /\ limit' \in Limits \ {limit}
  /\ UNCHANGED <<queuing, running, call, seen, finished, flow, restarts>>

(* The threads and both lists are gone.  A flow that was sending commands is  *)
(* reloaded and fails, as its first step refuses to run twice.                *)
Restart ==
  /\ restarts < MaxRestarts
  /\ restarts' = restarts + 1
  /\ queuing' = <<>>
  /\ running' = {}
  /\ seen' = [t \in Task |-> 0]
  /\ call' = [t \in Task |-> IF call[t] # "none" /\ t \notin finished THEN "lost" ELSE call[t]]
  /\ flow' = [c \in Cluster |-> IF flow[c] = "starting" THEN "failed" ELSE flow[c]]
  /\ UNCHANGED <<finished, limit>>

(* A fault of Rework: no add_running. *)
ReworkUncounted(t) ==
  /\ call[t] = "lost"
  /\ t \notin finished
  /\ call' = [call EXCEPT ![t] = "reworked"]
  /\ UNCHANGED <<queuing, running, seen, finished, limit, flow, restarts>>

Rework(t) ==
  /\ call[t] = "lost"
  /\ t \notin finished
  /\ running' = running \cup {t}
  /\ call' = [call EXCEPT ![t] = "reworked"]
  /\ UNCHANGED <<queuing, seen, finished, limit, flow, restarts>>

TaskStep(t) ==
  Create(t) \/ Enter(t) \/ Refuse(t) \/ Poll(t) \/ Look(t) \/ Leave(t) \/ Finish(t) \/ Rework(t)

FlowStep(c) ==
  \/ StartFlow(c) \/ AllCommanded(c) \/ FailFlow(c) \/ FinishFlow(c)
  \/ \E t \in SubTask[c] : CreateSub(c, t)

Next ==
  \/ \E t \in Task : TaskStep(t)
  \/ \E c \in Cluster : FlowStep(c)
  \/ SetLimit
  \/ Restart

Spec == Init /\ [][Next]_vars

(* A thread goes on; a backup and a migration end by themselves, a CDP task    *)
(* does not.  Nobody has to start a task or restart the service.              *)
Fairness ==
  /\ \A t \in Task : WF_vars(Enter(t)) /\ WF_vars(Poll(t)) /\ WF_vars(Look(t))
                     /\ WF_vars(Leave(t)) /\ WF_vars(Rework(t))
  /\ \A t \in Single \ Endless : WF_vars(Finish(t))
  /\ \A c \in Cluster : WF_vars(AllCommanded(c)) /\ WF_vars(FinishFlow(c))
                        /\ WF_vars(\E t \in SubTask[c] : CreateSub(c, t))

FairSpec == Spec /\ Fairness
-----------------------------------------------------------------------------
(* Properties. *)

TypeOK ==
  /\ queuing \in Seq(Task)
  /\ running \subseteq Task
  /\ call \in [Task -> CallState]
  /\ seen \in [Task -> Limits \cup {0}]
  /\ finished \subseteq Task
  /\ limit \in Limits
  /\ flow \in [Cluster -> FlowState]
  /\ restarts \in 0 .. MaxRestarts

(* A task that leaves the queue to execute finds fewer executing tasks than    *)
(* the number it read: the pruned in-memory list of task_queue.queue never     *)
(* misses a task that executes, not even one a restart brought back.          *)
AdmittedWithinLimit ==
  [][\A t \in Task : call[t] # "admitted" /\ call'[t] = "admitted"
                       => Cardinality(Active) < seen[t]]_vars

(* The queue is a waiting room: first come, first served, a bounded number      *)
(* executes, nobody executes who did not queue or was not cut off by a restart. *)
Room == INSTANCE WaitingRoom WITH line <- queuing, inside <- Active,
          interrupted <- {t \in Task \ finished : call[t] = "lost"}
KeepsOrder == Room!RoomSpec

(* Who queues is not left there: as tasks complete, it executes or is refused. *)
QueueMoves == \A t \in Task : call[t] = "waiting" ~> call[t] # "waiting"
=============================================================================
