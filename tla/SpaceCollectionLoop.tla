------------------------- MODULE SpaceCollectionLoop -------------------------
(***************************************************************************)
(* The loop of SpaceCollectionWorker.do_run around the tasks of            *)
(* SpaceCollection: each round runs the queries of deal_delete_tasks, of    *)
(* the retention and of normal_host_snapshot_space_collection one after     *)
(* the other, and visits every task that a query returned, once.           *)
(***************************************************************************)
EXTENDS SpaceCollection

VARIABLES phase,   \* the query being walked
          todo     \* its results not visited yet
loop     == <<phase, todo>>
loopvars == <<vars, phase, todo>>

Phase == {"delete", "merge", "retention", "collect"}
Task  == Snap \X (Slot \cup {"none"})

(* the rows each query returns, finish_datetime__isnull *)
Unfinished(p) ==
  CASE p = "delete"  -> {s \in Snap : del[s] = "pending"} \X {"none"}
    [] p = "merge"   -> {s \in Snap : merge[s].stage \in {"stage0", "stage1", "stage2"}}
                          \X {"none"}
    [] p = "collect" -> {t \in Snap \X Slot : collect[t[1]][t[2]] \in {"merge", "delete"}}
    [] OTHER         -> {}

Following(p) == CASE p = "delete" -> "merge"          [] p = "merge" -> "retention"
                  [] p = "retention" -> "collect"     [] p = "collect" -> "delete"

LoopInit == phase = "collect" /\ todo = {}

Start(t) == \/ phase = "delete" /\ StartDelete(t[1])
            \/ phase = "merge" /\ ResumeMerge(t[1])
            \/ phase = "collect" /\ StartCollect(t[1], t[2])

(* the checks at the head of work *)
Workable(t) ==
  LET s == t[1]
  IN  /\ t \in Unfinished(phase)
      /\ phase = "collect" => deleted[s] \/ host[s] = "failed"
                              \/ (host[s] = "successful" /\ ~Using(s))

(* the next task of the list; one that cannot be worked on raises, and the   *)
(* loop goes on with the one after it                                        *)
Visit ==
  \E t \in todo :
    /\ worker = Idle
    /\ todo' = todo \ {t}
    /\ IF Workable(t) THEN Start(t) ELSE UNCHANGED vars
    /\ UNCHANGED phase

Retain == /\ phase = "retention"
          /\ \E s \in Snap : Expire(s)
          /\ UNCHANGED loop

NextQuery ==
  /\ worker = Idle /\ todo = {}
  /\ phase' = Following(phase)
  /\ todo' = Unfinished(Following(phase))
  /\ UNCHANGED vars

Restart == Crash /\ phase' = "collect" /\ todo' = {}

Others == \/ BackupStep
          \/ \E r \in Reader : ReaderStep(r)
          \/ \E s \in Snap : CreateDeleteTask(s)

LoopNext == \/ Visit \/ Retain \/ NextQuery \/ Restart
            \/ (WorkerStep \/ Others) /\ UNCHANGED loop

LoopSpec == Init /\ LoopInit /\ [][LoopNext]_loopvars

(* The worker thread goes on whatever a task raises (run, work); the calls    *)
(* of the image service may fail, but not for ever; backups and restores end. *)
Fairness ==
  /\ SF_loopvars((WorkerStep /\ UNCHANGED loop) \/ Visit \/ NextQuery)
  /\ SF_loopvars(DeleteImage /\ worker'.pc = "unlock" /\ UNCHANGED loop)
  /\ SF_loopvars(MergeImage /\ worker'.pc = "merge_unlock" /\ UNCHANGED loop)
  /\ WF_loopvars((BackupCreate \/ BackupSend \/ BackupFinish) /\ UNCHANGED loop)
  /\ \A r \in Reader :
       WF_loopvars((LockFile(r) \/ LockFileWaited(r) \/ RestoreDone(r) \/ UnlockFiles(r))
                   /\ UNCHANGED loop)

FairLoopSpec == LoopSpec /\ Fairness

-----------------------------------------------------------------------------
(* PROPERTIES *)

(* Reclamation comes to an end: once every backup point is condemned and      *)
(* stays so, all their space is given back, in whatever order and whatever    *)
(* calls of the image service failed on the way.                             *)
EventuallyReclaimed ==
  <>[](\A s \in row : host[s] = "successful" => deleting[s]) /\ []<>(raced = {})
    => <>[](\A s \in row : host[s] = "successful" => merged[s] /\ s \notin image)

(* A reference of a merge is not kept for ever, even if the process that took  *)
(* it died: the next attempt fails on it, and releases it.                    *)
MergeLocksReleased ==
  \A s \in Snap :
    (\E k \in Snap : MergeLock(s) \in refs[k]) ~> (\A k \in Snap : MergeLock(s) \notin refs[k])

=============================================================================
