----------------------- MODULE SpaceCollection_proofs -----------------------
(***************************************************************************)
(* Theorems about SpaceCollection, for any sets of snapshots and restores   *)
(* and any number of restarts.                                             *)
(***************************************************************************)
EXTENDS SpaceCollection, TLAPS

-----------------------------------------------------------------------------
(* TYPE CORRECTNESS.  Typing alone is not inductive: the worker and the      *)
(* backup write the rows of the snapshots they remember, so one has to know   *)
(* that these are snapshots.                                                 *)

MergePC == {"merge_list", "stage0", "merge_lock", "merging", "merge_unlock", "stage1",
            "reparent", "merge_delete", "to_stage2", "stage2", "condemn", "collect_new",
            "merge_finish"}

ClientShape ==
  /\ backup.pc # "idle" => backup.snap \in Snap
  /\ \A r \in Reader : reader[r].pc = "blocked" => reader[r].wait \in Snap
MergeShape  == \A s \in Snap : merge[s].stage # "none" =>
                 merge[s].new \in Snap /\ merge[s].prev \in Snap
WorkerShape ==
  /\ worker.pc \notin {"start", "idle"} => worker.snap \in Snap
  /\ worker.pc \in MergePC => merge[worker.snap].stage # "none"
  /\ worker.ret = "to_stage2" =>
       worker.snap \in Snap /\ merge[worker.snap].stage # "none"

TypeInv == TypeOK /\ ClientShape /\ MergeShape /\ WorkerShape

(* The names of the tasks, and what adding or removing one does to the        *)
(* references.                                                               *)
LEMMA Names ==
  /\ \A r \in Reader : RestoreLock(r) \in TaskName
  /\ \A s \in Snap : MergeLock(s) \in TaskName /\ DeleteLock(s) \in TaskName
  BY DEF TaskName

LEMMA LockedType ==
  ASSUME TablesOK, NEW name \in TaskName, NEW ss
  PROVE  /\ Locked({name}, ss) \in [Snap -> SUBSET TaskName]
         /\ Unlocked({name}, ss) \in [Snap -> SUBSET TaskName]
  BY DEF Locked, Unlocked, TablesOK

LEMMA UnlockedType ==
  ASSUME TablesOK, NEW names, NEW ss
  PROVE  Unlocked(names, ss) \in [Snap -> SUBSET TaskName]
  BY DEF Unlocked, TablesOK

LEMMA KeyNodesType == \A s : KeyNodes(s) \in SUBSET Snap
  BY DEF KeyNodes

(* The initial state is well typed. *)
LEMMA InitTyped == Init => TypeInv
  BY NullAssumption, BoundAssumption
     DEF Init, TypeInv, TypeOK, TablesOK, TasksOK, DiskOK, WorkerOK, ClientsOK, ClientShape,
         MergeShape, WorkerShape, Slot, TaskType, HostState, WorkerPC, MergePC, Idle, NoMerge,
         IdleReader, IdleBackup, SnapOrNull, MergeTask, WorkerState, ReaderState, BackupState

(* A step of a backup keeps everything well typed. *)
LEMMA BackupTyped == TypeInv /\ BackupStep => TypeInv'
  <1> USE NullAssumption, BoundAssumption DEF TypeInv, TypeOK, SnapOrNull, ReaderState,
          BackupState, WorkerState, MergeTask
  <1> SUFFICES ASSUME TypeInv, BackupStep PROVE TypeInv'
    OBVIOUS
  <1>1. CASE BackupQuery
    BY <1>1, KeyNodesType DEF BackupQuery, TablesOK, TasksOK, DiskOK, WorkerOK, ClientsOK, ClientShape, MergeShape, WorkerShape,
       tables, tasks, disk, BackupState
  <1>2. CASE BackupCreate
    <2>1. TablesOK'
      BY <1>2 DEF BackupCreate, TablesOK, ClientsOK, ClientShape, HostState
    <2>2. TasksOK' /\ DiskOK' /\ WorkerOK' /\ MergeShape' /\ WorkerShape'
      BY <1>2 DEF BackupCreate, TasksOK, DiskOK, WorkerOK, MergeShape, WorkerShape, tasks, disk, ClientShape
    <2>3. ClientsOK' /\ ClientShape'
      BY <1>2 DEF BackupCreate, ClientsOK, ClientShape
    <2> QED BY <2>1, <2>2, <2>3
  <1>3. CASE BackupSend
    <2>1. TablesOK'
      BY <1>3 DEF BackupSend, TablesOK, ClientShape, HostState
    <2>2. TasksOK' /\ DiskOK' /\ WorkerOK' /\ MergeShape' /\ WorkerShape'
      BY <1>3 DEF BackupSend, TasksOK, DiskOK, WorkerOK, MergeShape, WorkerShape, tasks, disk
    <2>3. ClientsOK' /\ ClientShape'
      BY <1>3 DEF BackupSend, ClientsOK, ClientShape, IdleBackup
    <2> QED BY <2>1, <2>2, <2>3
  <1>4. CASE BackupFinish
    <2>1. TablesOK'
      BY <1>4 DEF BackupFinish, TablesOK, ClientShape, HostState
    <2>2. TasksOK' /\ WorkerOK' /\ MergeShape' /\ WorkerShape'
      BY <1>4 DEF BackupFinish, TasksOK, WorkerOK, MergeShape, WorkerShape, tasks
    <2>3. ClientsOK' /\ ClientShape'
      BY <1>4 DEF BackupFinish, ClientsOK, ClientShape, IdleBackup
    <2>4. DiskOK'
      BY <1>4 DEF BackupFinish, DiskOK, ClientShape, disk, ClientsOK
    <2> QED BY <2>1, <2>2, <2>3, <2>4
  <1> QED BY <1>1, <1>2, <1>3, <1>4 DEF BackupStep

(* A step of a restore keeps everything well typed. *)
LEMMA ReaderFrame ==
  ASSUME TypeInv, UNCHANGED <<tables, tasks, disk, worker, txn, backup, crashes, raced, cut>>,
         refs' \in [Snap -> SUBSET TaskName], reader' \in [Reader -> ReaderState],
         locker' \in Reader \cup {NoReader},
         \A q \in Reader : reader'[q].pc = "blocked" => reader'[q].wait \in Snap
  PROVE  TypeInv'
  BY DEF TypeInv, TypeOK, TablesOK, TasksOK, DiskOK, WorkerOK, ClientsOK, ClientShape,
         MergeShape, WorkerShape, tables, tasks, disk

LEMMA ReaderTyped == ASSUME NEW r \in Reader PROVE TypeInv /\ ReaderStep(r) => TypeInv'
  <1> SUFFICES ASSUME TypeInv, ReaderStep(r) PROVE TypeInv'
    OBVIOUS
  <1>0. /\ refs \in [Snap -> SUBSET TaskName] /\ reader \in [Reader -> ReaderState]
        /\ locker \in Reader \cup {NoReader}
        /\ \A q \in Reader : reader[q].pc = "blocked" => reader[q].wait \in Snap
    BY DEF TypeInv, TypeOK, TablesOK, ClientsOK, ClientShape
  <1>1. CASE RestoreCreate(r)
    <2>1. PICK s \in row : reader' = [reader EXCEPT ![r] =
             [IdleReader EXCEPT !.pc = "locking", !.target = s, !.chain = KeyNodes(s)]]
      BY <1>1 DEF RestoreCreate
    <2>2. s \in Snap
      BY DEF TypeInv, TypeOK, TablesOK
    <2>3. [IdleReader EXCEPT !.pc = "locking", !.target = s, !.chain = KeyNodes(s)] \in ReaderState
      BY <2>2, KeyNodesType DEF IdleReader, ReaderState, SnapOrNull
    <2>4. \A q \in Reader : reader'[q].pc = "blocked" => reader'[q].wait \in Snap
      BY <1>0, <2>1 DEF IdleReader
    <2> QED BY <1>0, <1>1, <2>1, <2>3, <2>4, ReaderFrame DEF RestoreCreate
  <1>2. ASSUME NEW k \in Snap, NEW late \in BOOLEAN, AddReference(r, k, late)
        PROVE  /\ refs' \in [Snap -> SUBSET TaskName]
               /\ reader' \in [Reader -> ReaderState] /\ locker' \in Reader \cup {NoReader}
               /\ \A q \in Reader : reader'[q].pc = "blocked" => reader'[q].wait \in Snap
    <2>1. refs' \in [Snap -> SUBSET TaskName]
      BY <1>2, LockedType, Names DEF AddReference, TypeInv, TypeOK
    <2>2. reader' \in [Reader -> ReaderState] /\ locker' \in Reader \cup {NoReader}
      <3> DEFINE held == reader[r].locked \cup {k}
                 new == [reader[r] EXCEPT !.pc = IF held = reader[r].chain THEN "using" ELSE "locking",
                                          !.locked = held, !.late = reader[r].late \/ late,
                                          !.wait = NoSnap]
      <3>1. new \in ReaderState
        BY <1>0 DEF ReaderState, SnapOrNull
      <3>2. reader' = [reader EXCEPT ![r] = new] /\ locker' \in {NoReader, r}
        BY <1>2 DEF AddReference
      <3> QED BY <1>0, <3>1, <3>2
    <2>3. \A q \in Reader : reader'[q].pc = "blocked" => reader'[q].wait \in Snap
      BY <1>0, <1>2 DEF AddReference, ReaderState
    <2> QED BY <2>1, <2>2, <2>3
  <1>3. CASE LockFile(r)
    <2>1. PICK k \in reader[r].chain \ reader[r].locked :
            \/ /\ reader' = [reader EXCEPT ![r].pc = "ending"]
               /\ locker' = NoReader /\ UNCHANGED refs
            \/ /\ reader' = [reader EXCEPT ![r] = [@ EXCEPT !.pc = "blocked", !.wait = k]]
               /\ locker' = r /\ UNCHANGED refs
            \/ AddReference(r, k, FALSE)
      BY <1>3 DEF LockFile
    <2>2. k \in Snap
      BY <1>0, <2>1 DEF ReaderState
    <2>3. CASE AddReference(r, k, FALSE)
      BY <1>2, <1>3, <2>2, <2>3, ReaderFrame DEF LockFile
    <2>4. CASE /\ reader' = [reader EXCEPT ![r].pc = "ending"]
               /\ locker' = NoReader /\ UNCHANGED refs
      <3>1. reader' \in [Reader -> ReaderState]
        BY <1>0, <2>4 DEF ReaderState
      <3>2. \A q \in Reader : reader'[q].pc = "blocked" => reader'[q].wait \in Snap
        BY <1>0, <2>4 DEF ReaderState
      <3> QED BY <1>0, <1>3, <2>4, <3>1, <3>2, ReaderFrame DEF LockFile
    <2>5. CASE /\ reader' = [reader EXCEPT ![r] = [@ EXCEPT !.pc = "blocked", !.wait = k]]
               /\ locker' = r /\ UNCHANGED refs
      <3>1. reader' \in [Reader -> ReaderState]
        BY <1>0, <2>2, <2>5 DEF ReaderState, SnapOrNull
      <3>2. \A q \in Reader : reader'[q].pc = "blocked" => reader'[q].wait \in Snap
        BY <1>0, <2>2, <2>5 DEF ReaderState
      <3> QED BY <1>0, <1>3, <2>5, <3>1, <3>2, ReaderFrame DEF LockFile
    <2> QED BY <2>1, <2>3, <2>4, <2>5
  <1>4. CASE LockFileWaited(r)
    <2>1. reader[r].wait \in Snap
      BY <1>0, <1>4 DEF LockFileWaited
    <2> QED BY <1>2, <1>4, <2>1, ReaderFrame DEF LockFileWaited
  <1>5. CASE RestoreDone(r)
    <2>1. /\ reader' \in [Reader -> ReaderState]
          /\ \A q \in Reader : reader'[q].pc = "blocked" => reader'[q].wait \in Snap
      BY <1>0, <1>5 DEF RestoreDone, ReaderState
    <2> QED BY <1>0, <1>5, <2>1, ReaderFrame DEF RestoreDone
  <1>6. CASE UnlockFiles(r)
    <2>1. refs' \in [Snap -> SUBSET TaskName]
      BY <1>6, UnlockedType DEF UnlockFiles, TypeInv, TypeOK
    <2>2. IdleReader \in ReaderState /\ IdleReader.pc = "idle"
      BY DEF IdleReader, ReaderState, SnapOrNull
    <2>3. reader' = [reader EXCEPT ![r] = IdleReader]
      BY <1>6 DEF UnlockFiles
    <2>4. reader' \in [Reader -> ReaderState]
      BY <1>0, <2>2, <2>3
    <2>5. \A q \in Reader : reader'[q].pc = "blocked" => reader'[q].wait \in Snap
      BY <1>0, <2>2, <2>3
    <2> QED BY <1>0, <1>6, <2>1, <2>4, <2>5, ReaderFrame DEF UnlockFiles
  <1> QED BY <1>1, <1>3, <1>4, <1>5, <1>6 DEF ReaderStep

(* Moves of the worker. *)
LEMMA WorkerTypes ==
  /\ Idle \in WorkerState /\ Idle.pc = "idle" /\ Idle.ret = "idle"
  /\ \A pc \in WorkerPC, s \in Snap :
       /\ [Idle EXCEPT !.pc = pc, !.snap = s] \in WorkerState
       /\ \A k \in Slot : [Idle EXCEPT !.pc = pc, !.snap = s, !.slot = k] \in WorkerState
  /\ \A w \in WorkerState, pc \in WorkerPC : [w EXCEPT !.pc = pc] \in WorkerState
  /\ \A w \in WorkerState, pc \in WorkerPC, back \in {"idle", "check", "to_stage2"} :
       [w EXCEPT !.pc = pc, !.ret = back] \in WorkerState
  <1>1. Idle \in WorkerState /\ Idle.pc = "idle" /\ Idle.ret = "idle"
    BY DEF WorkerState, Idle, SnapOrNull, WorkerPC
  <1>2. \A pc \in WorkerPC, s \in Snap :
          /\ [Idle EXCEPT !.pc = pc, !.snap = s] \in WorkerState
          /\ \A k \in Slot : [Idle EXCEPT !.pc = pc, !.snap = s, !.slot = k] \in WorkerState
    BY DEF WorkerState, Idle, SnapOrNull
  <1>3. \A w \in WorkerState, pc \in WorkerPC : [w EXCEPT !.pc = pc] \in WorkerState
    BY DEF WorkerState
  <1>4. \A w \in WorkerState, pc \in WorkerPC, back \in {"idle", "check", "to_stage2"} :
          [w EXCEPT !.pc = pc, !.ret = back] \in WorkerState
    BY DEF WorkerState
  <1> QED BY <1>1, <1>2, <1>3, <1>4

LEMMA ReturnTyped ==
  ASSUME worker \in WorkerState, Return
  PROVE  /\ worker' \in WorkerState
         /\ \/ worker' = Idle
            \/ /\ worker.ret \in {"check", "to_stage2"}
               /\ worker' = [worker EXCEPT !.pc = worker.ret, !.ret = "idle"]
  <1>1. worker.ret \in {"idle", "check", "to_stage2"}
    BY DEF WorkerState
  <1>2. CASE worker.ret = "idle"
    BY <1>2, WorkerTypes DEF Return
  <1>3. CASE worker.ret \in {"check", "to_stage2"}
    BY <1>3, WorkerTypes DEF Return, WorkerPC
  <1> QED BY <1>1, <1>2, <1>3

(* What a step of the worker leaves to show: the parts it writes. *)
LEMMA WorkerFrame ==
  ASSUME TypeInv, TablesOK', TasksOK', DiskOK', MergeShape', worker' \in WorkerState,
         txn' \in SnapOrNull, WorkerShape', UNCHANGED <<locker, reader, backup, crashes>>
  PROVE  TypeInv'
  BY DEF TypeInv, TypeOK, WorkerOK, ClientsOK, ClientShape

LEMMA TablesFrame == TablesOK /\ UNCHANGED <<tables, refs>> => TablesOK'
  BY DEF TablesOK, tables
LEMMA TasksFrame == TasksOK /\ MergeShape /\ UNCHANGED tasks => TasksOK' /\ MergeShape'
  BY DEF TasksOK, MergeShape, tasks
LEMMA DiskFrame == DiskOK /\ UNCHANGED <<disk, raced, cut>> => DiskOK'
  BY DEF DiskOK, disk

(* What entering a task in the tables does to them. *)
LEMMA ListedType ==
  ASSUME TasksOK, NEW s \in Snap, NEW k, NEW x \in {"delete", "merge"}
  PROVE  [listed EXCEPT ![s][k] = @ \cup {x}] \in [Snap -> [Slot -> SUBSET {"delete", "merge"}]]
  <1> DEFINE new == [listed[s] EXCEPT ![k] = listed[s][k] \cup {x}]
  <1>1. listed[s] \in [Slot -> SUBSET {"delete", "merge"}]
    BY DEF TasksOK
  <1>2. new \in [Slot -> SUBSET {"delete", "merge"}]
    <2>1. CASE k \in Slot
      <3>1. listed[s][k] \cup {x} \in SUBSET {"delete", "merge"}
        BY <1>1, <2>1
      <3> QED BY <1>1, <3>1
    <2>2. CASE k \notin Slot
      BY <1>1, <2>2
    <2> QED BY <2>1, <2>2
  <1> QED BY <1>2 DEF TasksOK

LEMMA CollectType ==
  ASSUME TasksOK, NEW s \in Snap, NEW k, NEW type \in TaskType
  PROVE  [collect EXCEPT ![s][k] = type] \in [Snap -> [Slot -> TaskType]]
  <1>1. collect[s] \in [Slot -> TaskType]
    BY DEF TasksOK
  <1>2. [collect[s] EXCEPT ![k] = type] \in [Slot -> TaskType]
    BY <1>1
  <1> QED BY <1>2 DEF TasksOK

(* Choosing what to work on keeps everything well typed. *)
LEMMA PickTyped ==
  ASSUME NEW s \in Snap PROVE TypeInv /\ (Condemn(s) \/ PickTask(s)) => TypeInv'
  <1> SUFFICES ASSUME TypeInv, Condemn(s) \/ PickTask(s) PROVE TypeInv'
    OBVIOUS
  <1> USE DEF TypeInv, TypeOK, WorkerOK
  <1>1. CASE CreateDeleteTask(s)
    <2>1. TablesOK' /\ DiskOK'
      BY <1>1 DEF CreateDeleteTask, TablesOK, DiskOK, disk
    <2>2. collect' \in [Snap -> [Slot -> TaskType]]
      <3>1. PICK k \in Slot : collect' = [collect EXCEPT ![s] = [@ EXCEPT ![k] = "delete"]]
        BY <1>1 DEF CreateDeleteTask, Slot
      <3>2. [collect[s] EXCEPT ![k] = "delete"] \in [Slot -> TaskType]
        BY DEF TasksOK, TaskType
      <3> QED BY <3>1, <3>2 DEF TasksOK
    <2>3. TasksOK' /\ MergeShape' /\ WorkerShape'
      BY <1>1, <2>2 DEF CreateDeleteTask, TasksOK, MergeShape, WorkerShape
    <2> QED BY <1>1, <2>1, <2>3, WorkerFrame DEF CreateDeleteTask
  <1>2. ASSUME NEW pc \in WorkerPC \ {"start", "idle"}, worker' \in WorkerState,
               pc \in MergePC => merge[s].stage # "none",
               worker'.pc = pc, worker'.snap = s, worker'.ret = "idle",
               UNCHANGED <<tables, refs, tasks, disk, txn, locker, reader, backup, crashes, raced, cut>>
        PROVE  TypeInv'
    <2>1. WorkerShape'
      BY <1>2 DEF WorkerShape, tasks
    <2> QED BY <1>2, <2>1, TablesFrame, TasksFrame, DiskFrame, WorkerFrame
  <1>3. CASE Expire(s)
    <2>1. /\ worker' \in WorkerState
          /\ worker'.pc = "set_deleting" /\ worker'.snap = s /\ worker'.ret = "idle"
      <3>1. worker' = [Idle EXCEPT !.pc = "set_deleting", !.snap = s] /\ "set_deleting" \in WorkerPC
        BY <1>3 DEF Expire, WorkerPC
      <3>2. worker' \in WorkerState
        BY <3>1, WorkerTypes
      <3> QED BY <3>1, <3>2 DEF Idle
    <2> QED BY <1>2, <1>3, <2>1 DEF Expire, WorkerPC, MergePC
  <1>4. ASSUME NEW k \in Slot, StartCollect(s, k) PROVE TypeInv'
    <2>1. PICK pc \in {"close", "set_merged", "merge_create", "check"} :
            worker' = [Idle EXCEPT !.pc = pc, !.snap = s, !.slot = k]
      BY <1>4 DEF StartCollect
    <2>2. worker' \in WorkerState
      <3>1. pc \in WorkerPC
        BY DEF WorkerPC
      <3> QED BY <2>1, <3>1, WorkerTypes
    <2>3. worker'.pc = pc /\ worker'.snap = s /\ worker'.ret = "idle"
      BY <2>1 DEF Idle
    <2> QED BY <1>2, <1>4, <2>2, <2>3 DEF StartCollect, WorkerPC, MergePC
  <1>5. CASE StartDelete(s)
    <2>1. /\ worker' \in WorkerState
          /\ worker'.pc = "delete" /\ worker'.snap = s /\ worker'.ret = "idle"
      <3>1. worker' = [Idle EXCEPT !.pc = "delete", !.snap = s] /\ "delete" \in WorkerPC
        BY <1>5 DEF StartDelete, WorkerPC
      <3>2. worker' \in WorkerState
        BY <3>1, WorkerTypes
      <3> QED BY <3>1, <3>2 DEF Idle
    <2> QED BY <1>2, <1>5, <2>1 DEF StartDelete, WorkerPC, MergePC
  <1>6. CASE ResumeMerge(s)
    <2>1. PICK pc \in {"stage0", "stage1", "stage2"} :
            pc = merge[s].stage /\ worker' = [Idle EXCEPT !.pc = pc, !.snap = s]
      BY <1>6 DEF ResumeMerge
    <2>2. worker' \in WorkerState
      <3>1. pc \in WorkerPC
        BY DEF WorkerPC
      <3> QED BY <2>1, <3>1, WorkerTypes
    <2>3. worker'.pc = pc /\ worker'.snap = s /\ worker'.ret = "idle"
      BY <2>1 DEF Idle
    <2> QED BY <1>2, <1>6, <2>1, <2>2, <2>3 DEF ResumeMerge, WorkerPC, MergePC
  <1> QED BY <1>1, <1>3, <1>4, <1>5, <1>6 DEF Condemn, PickTask

(* Deleting a snapshot keeps everything well typed. *)
LEMMA GotoTyped ==
  ASSUME worker \in WorkerState, NEW pc \in WorkerPC, Goto(pc)
  PROVE  /\ worker' \in WorkerState /\ worker'.pc = pc /\ worker'.snap = worker.snap
         /\ worker'.ret = worker.ret /\ worker'.slot = worker.slot
  BY DEF Goto, WorkerState

LEMMA DeleteTyped == TypeInv /\ DeleteStep => TypeInv'
  <1> SUFFICES ASSUME TypeInv, DeleteStep PROVE TypeInv'
    OBVIOUS
  <1> USE DEF TypeInv, TypeOK, WorkerOK
  <1>0. worker.pc \notin {"start", "idle"} => worker.snap \in Snap
    BY DEF WorkerShape
  <1>a. ASSUME NEW pc \in WorkerPC \ MergePC, Goto(pc), worker.snap \in Snap, UNCHANGED merge
        PROVE  worker' \in WorkerState /\ WorkerShape'
    BY <1>a, GotoTyped DEF WorkerShape
  <1>b. ASSUME worker' = Idle PROVE worker' \in WorkerState /\ WorkerShape'
    <2>1. worker'.pc = "idle" /\ worker'.ret = "idle"
      BY <1>b, WorkerTypes
    <2> QED BY <1>b, <2>1, WorkerTypes DEF WorkerShape, MergePC
  <1>c. ASSUME Return, worker.snap \in Snap, UNCHANGED merge
        PROVE  worker' \in WorkerState /\ WorkerShape'
    <2>1. CASE worker' = Idle
      BY <2>1, <1>b
    <2>2. CASE /\ worker.ret \in {"check", "to_stage2"}
               /\ worker' = [worker EXCEPT !.pc = worker.ret, !.ret = "idle"]
      <3>1. worker' \in WorkerState
        BY <1>c, ReturnTyped
      <3>2. worker'.pc = worker.ret /\ worker'.ret = "idle" /\ worker'.snap = worker.snap
        BY <2>2 DEF WorkerState
      <3> QED BY <1>c, <2>2, <3>1, <3>2 DEF WorkerShape, MergePC
    <2> QED BY <1>c, <2>1, <2>2, ReturnTyped
  <1>1. CASE SetMerged
    <2>1. worker.snap \in Snap /\ txn' \in SnapOrNull
      BY <1>0, <1>1 DEF SetMerged, SnapOrNull
    <2>2. worker' \in WorkerState /\ WorkerShape'
      BY <1>1, <1>a, <2>1 DEF SetMerged, WorkerPC, MergePC, tasks
    <2> QED BY <1>1, <2>1, <2>2, TablesFrame, TasksFrame, DiskFrame, WorkerFrame DEF SetMerged
  <1>2. CASE Commit
    <2>0. worker.snap \in Snap
      BY <1>0, <1>2 DEF Commit
    <2>1. parent' \in [Snap -> SnapOrNull]
      BY <1>2, <2>0 DEF Commit, Reparented, TablesOK
    <2>2. TablesOK'
      BY <1>2, <2>0, <2>1 DEF Commit, TablesOK
    <2>3. TasksOK' /\ MergeShape' /\ DiskOK'
      BY <1>2, <2>0 DEF Commit, TasksOK, MergeShape, DiskOK, disk
    <2>4. worker' \in WorkerState /\ WorkerShape' /\ txn' \in SnapOrNull
      BY <1>2, <1>a, <2>0 DEF Commit, WorkerPC, MergePC, SnapOrNull
    <2> QED BY <1>2, <2>2, <2>3, <2>4, WorkerFrame DEF Commit
  <1>3. CASE ListDelete
    <2>0. worker.snap \in Snap
      BY <1>0, <1>3 DEF ListDelete
    <2>1. listed' \in [Snap -> [Slot -> SUBSET {"delete", "merge"}]]
      BY <1>3, <2>0, ListedType DEF ListDelete
    <2>2. TasksOK' /\ MergeShape'
      BY <1>3, <2>1 DEF ListDelete, TasksOK, MergeShape
    <2>3. worker' \in WorkerState
      BY <1>3, WorkerTypes DEF ListDelete, WorkerPC
    <2>4. WorkerShape'
      BY <1>3, <2>0 DEF ListDelete, WorkerState, WorkerShape, MergePC
    <2> QED BY <1>3, <2>2, <2>3, <2>4, TablesFrame, DiskFrame, WorkerFrame DEF ListDelete
  <1>4. CASE LockForDelete
    <2>0. worker.snap \in Snap
      BY <1>0, <1>4 DEF LockForDelete
    <2>1. refs' \in [Snap -> SUBSET TaskName]
      <3>1. refs' = refs \/ refs' = Locked({DeleteLock(worker.snap)}, {worker.snap})
        BY <1>4 DEF LockForDelete
      <3>2. DeleteLock(worker.snap) \in TaskName
        BY <2>0, Names
      <3>3. refs \in [Snap -> SUBSET TaskName]
        BY DEF TablesOK
      <3>4. Locked({DeleteLock(worker.snap)}, {worker.snap}) \in [Snap -> SUBSET TaskName]
        BY <3>2, LockedType
      <3> QED BY <3>1, <3>3, <3>4
    <2>2. TablesOK'
      BY <1>4, <2>1 DEF LockForDelete, TablesOK, tables
    <2>3. worker' \in WorkerState /\ WorkerShape'
      BY <1>4, <1>a, <2>0 DEF LockForDelete, WorkerPC, MergePC, tasks
    <2> QED BY <1>4, <2>2, <2>3, TasksFrame, DiskFrame, WorkerFrame DEF LockForDelete
  <1>5. CASE DeleteImage
    <2>0. worker.snap \in Snap
      BY <1>0, <1>5 DEF DeleteImage
    <2>1. DiskOK'
      BY <1>5 DEF DeleteImage, DiskOK
    <2>2. worker' \in WorkerState /\ WorkerShape'
      BY <1>5, <1>a, <2>0 DEF DeleteImage, WorkerPC, MergePC, tasks
    <2> QED BY <1>5, <2>1, <2>2, TablesFrame, TasksFrame, WorkerFrame DEF DeleteImage
  <1>6. CASE UnlockAfterDelete
    <2>0. worker.snap \in Snap
      BY <1>0, <1>6 DEF UnlockAfterDelete
    <2>1. TablesOK'
      BY <1>6, UnlockedType DEF UnlockAfterDelete, TablesOK, tables
    <2>2. worker' \in WorkerState /\ WorkerShape'
      BY <1>6, <1>a, <1>c, <2>0 DEF UnlockAfterDelete, WorkerPC, MergePC, tasks
    <2> QED BY <1>6, <2>1, <2>2, TasksFrame, DiskFrame, WorkerFrame DEF UnlockAfterDelete
  <1>7. CASE FinishDelete
    <2>0. worker.snap \in Snap
      BY <1>0, <1>7 DEF FinishDelete
    <2>1. TasksOK' /\ MergeShape'
      BY <1>7 DEF FinishDelete, TasksOK, MergeShape
    <2>2. worker' \in WorkerState /\ WorkerShape'
      BY <1>7, <1>c, <2>0 DEF FinishDelete
    <2> QED BY <1>7, <2>1, <2>2, TablesFrame, DiskFrame, WorkerFrame DEF FinishDelete
  <1>8. CASE SetDeleted
    <2>0. worker.snap \in Snap
      BY <1>0, <1>8 DEF SetDeleted
    <2>1. TablesOK'
      BY <1>8 DEF SetDeleted, TablesOK
    <2>2. worker' \in WorkerState /\ WorkerShape'
      BY <1>8, <1>a, <1>b, <2>0 DEF SetDeleted, WorkerPC, MergePC, tasks
    <2> QED BY <1>8, <2>1, <2>2, TasksFrame, DiskFrame, WorkerFrame DEF SetDeleted
  <1>9. CASE SetTaskFinished
    <2>1. collect' \in [Snap -> [Slot -> TaskType]]
      BY <1>9, <1>0, CollectType DEF SetTaskFinished, TaskType
    <2>2. TasksOK' /\ MergeShape'
      BY <1>9, <2>1 DEF SetTaskFinished, TasksOK, MergeShape
    <2>3. worker' \in WorkerState /\ WorkerShape'
      BY <1>9, <1>b DEF SetTaskFinished
    <2> QED BY <1>9, <2>2, <2>3, TablesFrame, DiskFrame, WorkerFrame DEF SetTaskFinished
  <1> QED BY <1>1, <1>2, <1>3, <1>4, <1>5, <1>6, <1>7, <1>8, <1>9 DEF DeleteStep

(* Merging a snapshot keeps everything well typed. *)
LEMMA DropNewTyped ==
  ASSUME TablesOK, NEW n \in Snap, DropNew(n), refs' \in [Snap -> SUBSET TaskName],
         UNCHANGED <<file, merged, deleted>>
  PROVE  TablesOK'
  BY DEF DropNew, TablesOK, SnapOrNull, HostState

LEMMA MergeRefs ==
  ASSUME TablesOK, NEW s \in Snap, NEW ns
  PROVE  /\ Unlocked({MergeLock(s)}, ns) \in [Snap -> SUBSET TaskName]
         /\ Locked({MergeLock(s)}, ns) \in [Snap -> SUBSET TaskName]
  <1>1. MergeLock(s) \in TaskName
    BY Names
  <1> QED BY <1>1, LockedType, UnlockedType

LEMMA MergeTyped == TypeInv /\ MergeStep => TypeInv'
  <1> SUFFICES ASSUME TypeInv, MergeStep PROVE TypeInv'
    OBVIOUS
  <1> USE DEF TypeInv, TypeOK, WorkerOK
  <1> DEFINE s == worker.snap
  <1>0. s \in Snap
    BY DEF WorkerShape, MergeStep, CreateMerge, ListMerge, RecreateNew, LockForMerge, MergeImage,
           UnlockAfterMerge, SetMergedStage1, Reparent, CreateDelete, ToStage2, FinishNew,
           CondemnNew, CollectNew, FinishMerge
  <1>1. worker.pc \in MergePC =>
          merge[s].stage # "none" /\ merge[s].new \in Snap /\ merge[s].prev \in Snap
    BY <1>0 DEF WorkerShape, MergeShape
  <1>a. ASSUME NEW pc \in WorkerPC, Goto(pc),
               pc \in MergePC \/ worker.ret = "to_stage2" => merge'[s].stage # "none"
        PROVE  worker' \in WorkerState /\ WorkerShape'
    BY <1>0, <1>a, GotoTyped DEF WorkerShape
  <1>b. ASSUME worker' = Idle PROVE worker' \in WorkerState /\ WorkerShape'
    <2>1. worker'.pc = "idle" /\ worker'.ret = "idle"
      BY <1>b, WorkerTypes
    <2> QED BY <1>b, <2>1, WorkerTypes DEF WorkerShape, MergePC
  <1>c. worker.ret = "to_stage2" => merge[s].stage # "none"
    BY DEF WorkerShape
  <1>d. ASSUME NEW st \in {"stage1", "stage2", "finished"}, worker.pc \in MergePC,
               merge' = [merge EXCEPT ![s].stage = st], UNCHANGED <<collect, listed, del>>
        PROVE  TasksOK' /\ MergeShape' /\ merge'[s].stage # "none"
    BY <1>0, <1>1, <1>d DEF TasksOK, MergeShape, MergeTask
  <1>2. CASE CreateMerge
    <2>1. PICK n \in Snap :
            merge' = [merge EXCEPT ![s] = [stage |-> "stage0", new |-> n, prev |-> parent[s]]]
      BY <1>2 DEF CreateMerge
    <2>2. parent[s] \in Snap
      BY <1>0, <1>2 DEF CreateMerge, TablesOK, SnapOrNull
    <2>3. [stage |-> "stage0", new |-> n, prev |-> parent[s]] \in MergeTask
      BY <2>2 DEF MergeTask, SnapOrNull
    <2>4. TasksOK' /\ MergeShape' /\ merge'[s].stage # "none"
      BY <1>0, <1>2, <2>1, <2>2, <2>3 DEF CreateMerge, TasksOK, MergeShape
    <2>5. worker' \in WorkerState /\ WorkerShape'
      BY <1>2, <1>a, <2>4 DEF CreateMerge, WorkerPC
    <2> QED BY <1>2, <2>4, <2>5, TablesFrame, DiskFrame, WorkerFrame DEF CreateMerge
  <1>3. CASE ListMerge
    <2>1. TasksOK' /\ MergeShape'
      BY <1>0, <1>3, ListedType DEF ListMerge, TasksOK, MergeShape
    <2>2. worker' \in WorkerState /\ WorkerShape'
      BY <1>1, <1>3, <1>a DEF ListMerge, WorkerPC, MergePC
    <2> QED BY <1>3, <2>1, <2>2, TablesFrame, DiskFrame, WorkerFrame DEF ListMerge
  <1>4. CASE RecreateNew
    <2>1. merge[s].new \in Snap /\ merge[s].prev \in Snap /\ merge[s].stage # "none"
      BY <1>1, <1>4 DEF RecreateNew, MergePC
    <2>2. TablesOK'
      <3>1. CASE UNCHANGED tables
        BY <1>4, <3>1, TablesFrame DEF RecreateNew
      <3>2. CASE /\ row' = row \cup {merge[s].new}
                 /\ parent' = [parent EXCEPT ![merge[s].new] = merge[s].prev]
                 /\ file' = [file EXCEPT ![merge[s].new] = file[merge[s].prev]]
                 /\ host' = [host EXCEPT ![merge[s].new] = "backuping"]
                 /\ deleting' = [deleting EXCEPT ![merge[s].new] = TRUE]
                 /\ UNCHANGED <<merged, deleted>>
        BY <1>4, <2>1, <3>2 DEF RecreateNew, TablesOK, SnapOrNull, HostState
      <3> QED BY <1>4, <3>1, <3>2 DEF RecreateNew
    <2>3. worker' \in WorkerState /\ WorkerShape'
      BY <1>4, <1>a, <1>b, <2>1 DEF RecreateNew, WorkerPC, tasks
    <2> QED BY <1>4, <2>2, <2>3, TasksFrame, DiskFrame, WorkerFrame DEF RecreateNew
  <1>5. CASE LockForMerge
    <2>0. merge[s].new \in Snap /\ merge[s].stage # "none"
      BY <1>1, <1>5 DEF LockForMerge, MergePC
    <2>1. PICK ns : \/ refs' = Unlocked({MergeLock(s)}, ns) /\ worker' = Idle
                    \/ refs' = Locked({MergeLock(s)}, ns) /\ Goto("merging")
      BY <1>5 DEF LockForMerge
    <2>2. refs' \in [Snap -> SUBSET TaskName]
      BY <1>0, <2>1, MergeRefs
    <2>3. /\ UNCHANGED <<file, merged, deleted>>
          /\ DropNew(merge[s].new) \/ UNCHANGED <<row, parent, host, deleting>>
      BY <1>5 DEF LockForMerge
    <2>4. UNCHANGED <<row, parent, host, deleting>> => TablesOK'
      BY <2>2, <2>3 DEF TablesOK
    <2>5. TablesOK'
      BY <2>0, <2>2, <2>3, <2>4, DropNewTyped
    <2>6. worker' \in WorkerState /\ WorkerShape'
      BY <1>5, <1>a, <1>b, <2>0, <2>1 DEF LockForMerge, WorkerPC, tasks
    <2> QED BY <1>5, <2>5, <2>6, TasksFrame, DiskFrame, WorkerFrame DEF LockForMerge
  <1>6. CASE MergeImage
    <2>0. merge[s].new \in Snap /\ merge[s].prev \in Snap /\ merge[s].stage # "none"
      BY <1>1, <1>6 DEF MergeImage, MergePC
    <2>1. CASE DropNew(merge[s].new) /\ worker' = Idle
      <3>1. refs' \in [Snap -> SUBSET TaskName]
        BY <1>6, <2>1, UnlockedType DEF MergeImage, TablesOK
      <3>2. UNCHANGED <<local, data>>
        BY <1>6, <2>1, GotoTyped, WorkerTypes DEF MergeImage, WorkerPC
      <3>3. DiskOK'
        BY <1>6, <2>0, <2>1, <3>2 DEF MergeImage, DiskOK
      <3> QED BY <1>6, <1>b, <2>0, <2>1, <3>1, <3>3, DropNewTyped, TasksFrame, WorkerFrame
              DEF MergeImage
    <2>2. CASE /\ image' = image \cup {merge[s].new}
               /\ local' = [local EXCEPT ![merge[s].new] = local[merge[s].prev] \cup local[s]]
               /\ data' = [data EXCEPT ![merge[s].new] = data[s]]
               /\ Goto("merge_unlock")
               /\ UNCHANGED <<row, parent, host, deleting, refs>>
      <3>1. DiskOK'
        BY <1>0, <1>6, <2>0, <2>2 DEF MergeImage, DiskOK
      <3>2. worker' \in WorkerState /\ WorkerShape'
        BY <1>6, <1>a, <2>0, <2>2 DEF MergeImage, WorkerPC, tasks
      <3>3. TablesOK'
        BY <1>6, <2>2 DEF MergeImage, TablesOK
      <3> QED BY <1>6, <3>1, <3>2, <3>3, TasksFrame, WorkerFrame DEF MergeImage
    <2> QED BY <1>6, <2>1, <2>2 DEF MergeImage
  <1>7. CASE UnlockAfterMerge
    <2>1. TasksOK' /\ MergeShape' /\ merge'[s].stage # "none"
      BY <1>7, <1>d DEF UnlockAfterMerge, MergePC
    <2>2. worker' \in WorkerState /\ WorkerShape'
      BY <1>7, <1>a, <2>1 DEF UnlockAfterMerge, WorkerPC
    <2>3. refs' \in [Snap -> SUBSET TaskName]
      BY <1>0, <1>7, MergeRefs DEF UnlockAfterMerge
    <2>4. TablesOK'
      BY <1>7, <2>3 DEF UnlockAfterMerge, TablesOK, tables
    <2> QED BY <1>7, <2>1, <2>2, <2>4, DiskFrame, WorkerFrame DEF UnlockAfterMerge
  <1>8. CASE SetMergedStage1
    <2>1. TablesOK'
      BY <1>8 DEF SetMergedStage1, TablesOK
    <2>2. worker' \in WorkerState /\ WorkerShape'
      BY <1>1, <1>8, <1>a, <1>b DEF SetMergedStage1, WorkerPC, MergePC, tasks
    <2> QED BY <1>8, <2>1, <2>2, TasksFrame, DiskFrame, WorkerFrame DEF SetMergedStage1
  <1>9. CASE Reparent
    <2>0. merge[s].new \in Snap /\ merge[s].stage # "none"
      BY <1>1, <1>9 DEF Reparent, MergePC
    <2>1. TablesOK'
      BY <1>9, <2>0 DEF Reparent, Reparented, TablesOK, SnapOrNull
    <2>2. worker' \in WorkerState /\ WorkerShape'
      BY <1>9, <1>a, <2>0 DEF Reparent, WorkerPC, tasks
    <2> QED BY <1>9, <2>1, <2>2, TasksFrame, DiskFrame, WorkerFrame DEF Reparent
  <1>10. CASE CreateDelete
    <2>1. TasksOK' /\ MergeShape'
      BY <1>10 DEF CreateDelete, TasksOK, MergeShape
    <2>2. worker' \in WorkerState
      BY <1>10, WorkerTypes DEF CreateDelete, WorkerPC
    <2>3. WorkerShape'
      BY <1>0, <1>1, <1>10 DEF CreateDelete, WorkerShape, WorkerState, MergePC
    <2> QED BY <1>10, <2>1, <2>2, <2>3, TablesFrame, DiskFrame, WorkerFrame DEF CreateDelete
  <1>11. CASE ToStage2
    <2>1. TasksOK' /\ MergeShape' /\ merge'[s].stage # "none"
      BY <1>11, <1>d DEF ToStage2, MergePC
    <2>2. worker' \in WorkerState /\ WorkerShape'
      BY <1>11, <1>a, <2>1 DEF ToStage2, WorkerPC
    <2> QED BY <1>11, <2>1, <2>2, TablesFrame, DiskFrame, WorkerFrame DEF ToStage2
  <1>12. CASE FinishNew
    <2>1. TablesOK'
      BY <1>12 DEF FinishNew, TablesOK, HostState
    <2>2. worker' \in WorkerState /\ WorkerShape'
      BY <1>1, <1>12, <1>a DEF FinishNew, WorkerPC, MergePC, tasks
    <2> QED BY <1>12, <2>1, <2>2, TasksFrame, DiskFrame, WorkerFrame DEF FinishNew
  <1>13. CASE CondemnNew
    <2>1. TablesOK'
      BY <1>13 DEF CondemnNew, TablesOK
    <2>2. Goto("merge_finish") \/ Goto("collect_new")
      BY <1>13 DEF CondemnNew
    <2>3. worker' \in WorkerState /\ WorkerShape'
      BY <1>1, <1>13, <1>a, <2>2 DEF CondemnNew, WorkerPC, MergePC, tasks
    <2> QED BY <1>13, <2>1, <2>3, TasksFrame, DiskFrame, WorkerFrame DEF CondemnNew
  <1>14. CASE CollectNew
    <2>1. merge[s].new \in Snap
      BY <1>1, <1>14 DEF CollectNew, MergePC
    <2>2. TasksOK' /\ MergeShape'
      BY <1>14, <2>1, CollectType DEF CollectNew, TasksOK, MergeShape, TaskType
    <2>3. worker' \in WorkerState /\ WorkerShape'
      BY <1>1, <1>14, <1>a DEF CollectNew, WorkerPC, MergePC
    <2> QED BY <1>14, <2>2, <2>3, TablesFrame, DiskFrame, WorkerFrame DEF CollectNew
  <1>15. CASE FinishMerge
    <2>1. TasksOK' /\ MergeShape' /\ merge'[s].stage # "none"
      BY <1>15, <1>d DEF FinishMerge, MergePC
    <2>2. worker' \in WorkerState /\ WorkerShape'
      BY <1>15, <1>b DEF FinishMerge
    <2> QED BY <1>15, <2>1, <2>2, TablesFrame, DiskFrame, WorkerFrame DEF FinishMerge
  <1> QED BY <1>2, <1>3, <1>4, <1>5, <1>6, <1>7, <1>8, <1>9, <1>10, <1>11, <1>12, <1>13, <1>14,
             <1>15 DEF MergeStep

(* The remaining steps of the worker, and a restart of the server. *)
LEMMA WorkerTyped == TypeInv /\ WorkerStep => TypeInv'
  <1> SUFFICES ASSUME TypeInv, WorkerStep PROVE TypeInv'
    OBVIOUS
  <1> USE DEF TypeInv, TypeOK, WorkerOK
  <1>b. ASSUME worker' = Idle PROVE worker' \in WorkerState /\ WorkerShape'
    <2>1. worker'.pc = "idle" /\ worker'.ret = "idle"
      BY <1>b, WorkerTypes
    <2> QED BY <1>b, <2>1, WorkerTypes DEF WorkerShape, MergePC
  <1>1. CASE SetDeleting
    <2>1. TablesOK'
      BY <1>1 DEF SetDeleting, TablesOK
    <2>2. worker.snap \in Snap
      BY <1>1 DEF SetDeleting, WorkerShape
    <2>3. worker' \in WorkerState /\ worker'.pc = "create_task" /\ worker'.snap = worker.snap
          /\ worker'.ret = worker.ret
      BY <1>1, GotoTyped DEF SetDeleting, WorkerPC
    <2>4. WorkerShape'
      BY <1>1, <2>2, <2>3 DEF SetDeleting, WorkerShape, MergePC, tasks
    <2> QED BY <1>1, <2>1, <2>3, <2>4, TasksFrame, DiskFrame, WorkerFrame DEF SetDeleting
  <1>2. CASE CreateTask
    <2>1. worker.snap \in Snap
      BY <1>2 DEF CreateTask, WorkerShape
    <2>2. TasksOK' /\ MergeShape'
      BY <1>2, <2>1, CollectType DEF CreateTask, TasksOK, MergeShape, TaskType
    <2> QED BY <1>2, <1>b, <2>2, TablesFrame, DiskFrame, WorkerFrame DEF CreateTask
  <1>3. CASE UnlockFilesByPrefix
    <2>1. TablesOK'
      BY <1>3, UnlockedType DEF UnlockFilesByPrefix, TablesOK, tables
    <2> QED BY <1>3, <1>b, <2>1, TasksFrame, DiskFrame, WorkerFrame DEF UnlockFilesByPrefix
  <1> QED BY <1>1, <1>2, <1>3, DeleteTyped, MergeTyped DEF WorkerStep

LEMMA CrashTyped == TypeInv /\ Crash => TypeInv'
  <1> SUFFICES ASSUME TypeInv, Crash PROVE TypeInv'
    OBVIOUS
  <1> USE NullAssumption, BoundAssumption DEF TypeInv, TypeOK, WorkerOK
  <1>1. TablesOK'
    <2>1. host' = host \/ host' = [host EXCEPT ![backup.snap] = "failed"]
      BY DEF Crash
    <2> QED BY <2>1 DEF Crash, TablesOK, HostState
  <1>2. TasksOK' /\ MergeShape' /\ DiskOK'
    <2>1. TasksOK' /\ MergeShape'
      BY TasksFrame DEF Crash
    <2>2. HalfDone \subseteq Snap
      BY DEF HalfDone, WorkerShape, MergeShape, MergePC
    <2>3. data \in [Snap -> SUBSET Snap]
      BY DEF DiskOK
    <2>4. worker.pc = "reparent" => data[worker.snap] \subseteq Snap
      BY <2>3 DEF WorkerShape
    <2>5. DiskOK'
      BY <2>2, <2>4 DEF Crash, DiskOK, disk
    <2> QED BY <2>1, <2>5
  <1>3. worker' \in WorkerState /\ worker'.pc = "start" /\ worker'.ret = "idle"
    <2>1. "start" \in WorkerPC /\ worker' = [Idle EXCEPT !.pc = "start"]
      BY DEF Crash, WorkerPC
    <2>2. worker' \in WorkerState
      BY <2>1, WorkerTypes
    <2> QED BY <2>1, <2>2 DEF Idle
  <1>4. WorkerShape' /\ WorkerOK'
    BY <1>3 DEF Crash, WorkerShape, MergePC, SnapOrNull
  <1>5. reader' \in [Reader -> ReaderState]
    BY DEF Crash, ClientsOK, ReaderState
  <1>6. backup' \in BackupState /\ (backup'.pc # "idle" => backup'.snap \in Snap)
    <2>1. IdleBackup \in BackupState /\ IdleBackup.pc = "idle"
      BY DEF IdleBackup, BackupState, SnapOrNull
    <2>2. backup' = IdleBackup \/ backup' = backup
      BY DEF Crash
    <2> QED BY <2>1, <2>2 DEF ClientsOK, ClientShape
  <1>7. crashes' \in 0..MaxCrashes
    BY DEF Crash, ClientsOK
  <1>8. \A r \in Reader : reader'[r].pc = "blocked" => reader'[r].wait \in Snap
    BY DEF Crash, ClientsOK, ClientShape, ReaderState
  <1> QED BY <1>1, <1>2, <1>4, <1>5, <1>6, <1>7, <1>8 DEF Crash, ClientsOK, ClientShape

(* The tables, the tasks and the threads are well typed in every reachable    *)
(* state, and the threads only remember snapshots that can exist.             *)
THEOREM TypesInvariant == Spec => []TypeInv
  <1>1. TypeInv /\ [Next]_vars => TypeInv'
    <2> SUFFICES ASSUME TypeInv, [Next]_vars PROVE TypeInv'
      OBVIOUS
    <2>1. CASE BackupStep
      BY <2>1, BackupTyped
    <2>2. CASE \E r \in Reader : ReaderStep(r)
      BY <2>2, ReaderTyped
    <2>3. CASE \E s \in Snap : Condemn(s) \/ PickTask(s)
      BY <2>3, PickTyped
    <2>4. CASE WorkerStep
      BY <2>4, WorkerTyped
    <2>5. CASE Crash
      BY <2>5, CrashTyped
    <2>6. CASE UNCHANGED vars
      BY <2>6 DEF vars, tables, tasks, disk, TypeInv, TypeOK, TablesOK, TasksOK, DiskOK, WorkerOK,
                  ClientsOK, ClientShape, MergeShape, WorkerShape
    <2> QED BY <2>1, <2>2, <2>3, <2>4, <2>5, <2>6 DEF Next
  <1> QED BY <1>1, InitTyped, PTL DEF Spec

THEOREM TypeCorrect == Spec => []TypeOK
  <1>1. TypeInv => TypeOK
    BY DEF TypeInv
  <1> QED BY <1>1, TypesInvariant, PTL

-----------------------------------------------------------------------------
(* WHAT A RESTORE HOLDS IS NOT MERGED.  The property is not inductive: one    *)
(* needs that what the restore has locked still carries its reference (so     *)
(* that set_merged refuses it) and is not the snapshot whose `merged` the     *)
(* open transaction has written already.                                     *)

TxnInv ==
  /\ txn # NoSnap => worker.pc = "txn"
  /\ worker.pc = "txn" => txn = worker.snap
HeldBy(r) ==
  reader[r].pc \in {"locking", "blocked", "using"} /\ ~reader[r].late =>
    \A k \in reader[r].locked : RestoreLock(r) \in refs[k] /\ ~merged[k] /\ k # txn
LockInv == TypeInv /\ TxnInv /\ (\A r \in Reader : HeldBy(r))

LEMMA LockNames ==
  \A r \in Reader :
    /\ \A s : RestoreLock(r) # MergeLock(s) /\ RestoreLock(r) # DeleteLock(s)
    /\ \A q \in Reader : RestoreLock(r) = RestoreLock(q) => r = q
  BY DEF RestoreLock, MergeLock, DeleteLock

(* Neither taking a lock nor dropping one of another task loses the lock of a *)
(* restore.                                                                  *)
LEMMA RefsKept ==
  ASSUME NEW r \in Reader, NEW k \in Snap, RestoreLock(r) \in refs[k], NEW names, NEW ss,
         RestoreLock(r) \notin names
  PROVE  /\ RestoreLock(r) \in Unlocked(names, ss)[k]
         /\ \A more : RestoreLock(r) \in Locked(more, ss)[k]
  BY DEF Unlocked, Locked

(* A step that merges nothing, opens no transaction and keeps the locks of    *)
(* the restores.                                                             *)
LEMMA HeldFrame ==
  ASSUME LockInv, UNCHANGED <<reader, merged, txn>>,
         \A r \in Reader, k \in Snap : RestoreLock(r) \in refs[k] => RestoreLock(r) \in refs'[k]
  PROVE  \A r \in Reader : HeldBy(r)'
  <1>1. \A r \in Reader : reader[r].locked \subseteq Snap
    BY DEF LockInv, TypeInv, TypeOK, ClientsOK, ReaderState
  <1> QED BY <1>1 DEF LockInv, HeldBy, RestoreLock

LEMMA InitLocks == Init => LockInv
  <1> SUFFICES ASSUME Init PROVE LockInv
    OBVIOUS
  <1>1. TypeInv
    BY InitTyped
  <1>2. worker.pc = "start" /\ txn = NoSnap
    BY DEF Init, Idle
  <1>3. \A r \in Reader : reader[r].pc = "idle"
    BY DEF Init, IdleReader
  <1> QED BY <1>1, <1>2, <1>3 DEF LockInv, TxnInv, HeldBy

LEMMA ReaderLocks ==
  ASSUME LockInv, NEW r \in Reader, ReaderStep(r)
  PROVE  TxnInv' /\ \A q \in Reader : HeldBy(q)'
  <1>1. TxnInv' /\ UNCHANGED <<merged, txn>>
    BY DEF ReaderStep, RestoreCreate, LockFile, LockFileWaited, RestoreDone, UnlockFiles, LockInv,
           TxnInv, tables
  <1>2. reader \in [Reader -> ReaderState] /\ \A q \in Reader : reader[q].locked \subseteq Snap
    BY DEF LockInv, TypeInv, TypeOK, ClientsOK, ReaderState
  <1>3. \A q \in Reader \ {r} : reader'[q] = reader[q]
    BY <1>2 DEF ReaderStep, RestoreCreate, LockFile, LockFileWaited, RestoreDone, UnlockFiles,
                AddReference
  <1>4. \A q \in Reader \ {r}, k \in Snap : RestoreLock(q) \in refs[k] => RestoreLock(q) \in refs'[k]
    <2>1. \/ UNCHANGED refs
          \/ \E ss : refs' = Locked({RestoreLock(r)}, ss)
          \/ \E ss : refs' = Unlocked({RestoreLock(r)}, ss)
      BY DEF ReaderStep, RestoreCreate, LockFile, LockFileWaited, RestoreDone, UnlockFiles,
             AddReference
    <2> QED BY <2>1, LockNames, RefsKept
  <1>5. \A q \in Reader \ {r} : HeldBy(q)'
    BY <1>1, <1>2, <1>3, <1>4 DEF LockInv, HeldBy, RestoreLock
  <1>6. HeldBy(r)'
    <2>1. CASE RestoreCreate(r)
      BY <1>2, <2>1 DEF RestoreCreate, HeldBy, IdleReader
    <2>2. ASSUME NEW k \in Snap, AddReference(r, k, FALSE), ~merged[k], k # txn,
                 reader[r].pc = "locking"
          PROVE  HeldBy(r)'
      <3>1. refs' = Locked({RestoreLock(r)}, {k})
        BY <2>2 DEF AddReference
      <3>2. reader'[r].locked = reader[r].locked \cup {k}
        BY <1>2, <2>2 DEF AddReference, ReaderState
      <3>3. ~reader'[r].late => ~reader[r].late
        BY <1>2, <2>2 DEF AddReference, ReaderState
      <3>4. RestoreLock(r) \in refs'[k]
        BY <3>1 DEF Locked
      <3>5. ASSUME ~reader[r].late, NEW x \in reader[r].locked
            PROVE  RestoreLock(r) \in refs'[x] /\ ~merged[x] /\ x # txn
        <4>1. RestoreLock(r) \in refs[x] /\ ~merged[x] /\ x # txn /\ x \in Snap
          BY <1>2, <2>2, <3>5 DEF LockInv, HeldBy
        <4> QED BY <3>1, <4>1 DEF Locked
      <3> QED BY <1>1, <2>2, <3>2, <3>3, <3>4, <3>5 DEF HeldBy, RestoreLock
    <2>3. CASE LockFile(r)
      <3>1. PICK k \in reader[r].chain \ reader[r].locked :
              \/ reader' = [reader EXCEPT ![r].pc = "ending"]
              \/ /\ reader' = [reader EXCEPT ![r] = [@ EXCEPT !.pc = "blocked", !.wait = k]]
                 /\ UNCHANGED refs
              \/ ~merged[k] /\ k # txn /\ AddReference(r, k, FALSE)
        BY <2>3 DEF LockFile
      <3>2. k \in Snap /\ reader[r].pc = "locking"
        BY <1>2, <2>3, <3>1 DEF LockFile, ReaderState
      <3>3. CASE reader' = [reader EXCEPT ![r].pc = "ending"]
        BY <1>2, <3>3 DEF HeldBy, ReaderState
      <3>4. CASE /\ reader' = [reader EXCEPT ![r] = [@ EXCEPT !.pc = "blocked", !.wait = k]]
                 /\ UNCHANGED refs
        <4>1. /\ reader'[r].locked = reader[r].locked
              /\ reader'[r].late = reader[r].late
          BY <1>2, <3>4 DEF ReaderState
        <4>2. HeldBy(r)
          BY DEF LockInv
        <4> QED BY <1>1, <3>2, <3>4, <4>1, <4>2 DEF HeldBy, RestoreLock
      <3> QED BY <2>2, <3>1, <3>2, <3>3, <3>4
    <2>4. CASE LockFileWaited(r)
      <3>1. reader'[r].late
        BY <1>2, <2>4 DEF LockFileWaited, AddReference, ReaderState
      <3> QED BY <3>1 DEF HeldBy
    <2>5. CASE RestoreDone(r)
      BY <1>2, <2>5 DEF RestoreDone, HeldBy, ReaderState
    <2>6. CASE UnlockFiles(r)
      BY <1>2, <2>6 DEF UnlockFiles, HeldBy, IdleReader
    <2> QED BY <2>1, <2>3, <2>4, <2>5, <2>6 DEF ReaderStep
  <1> QED BY <1>1, <1>5, <1>6

(* Backups, and choosing what to work on, touch no lock. *)
LEMMA BackupLocks ==
  ASSUME LockInv, BackupStep \/ \E s \in Snap : Condemn(s) \/ PickTask(s)
  PROVE  TxnInv' /\ \A r \in Reader : HeldBy(r)'
  <1>1. UNCHANGED <<reader, merged, txn, refs>>
    BY DEF BackupStep, BackupQuery, BackupCreate, BackupSend, BackupFinish, Condemn, PickTask,
           CreateDeleteTask, Expire, StartCollect, StartDelete, ResumeMerge, tables
  <1>2. UNCHANGED worker \/ (worker.pc # "txn" /\ worker'.pc # "txn")
    <2>1. CASE BackupStep
      BY <2>1 DEF BackupStep, BackupQuery, BackupCreate, BackupSend, BackupFinish
    <2>2. ASSUME NEW s \in Snap, Condemn(s) PROVE <1>2!1 \/ <1>2!2
      <3>1. CASE CreateDeleteTask(s)
        BY <3>1 DEF CreateDeleteTask
      <3>2. CASE Expire(s)
        <4>1. worker = Idle /\ worker' = [Idle EXCEPT !.pc = "set_deleting", !.snap = s]
          BY <3>2 DEF Expire
        <4> QED BY <4>1 DEF Idle
      <3> QED BY <2>2, <3>1, <3>2 DEF Condemn
    <2>3. ASSUME NEW s \in Snap, NEW k \in Slot, StartCollect(s, k) PROVE <1>2!2
      <3>1. PICK pc \in {"close", "set_merged", "merge_create", "check"} :
              worker' = [Idle EXCEPT !.pc = pc, !.snap = s, !.slot = k]
        BY <2>3 DEF StartCollect
      <3> QED BY <2>3, <3>1 DEF StartCollect, Idle
    <2>4. ASSUME NEW s \in Snap, StartDelete(s) \/ ResumeMerge(s) PROVE <1>2!2
      <3>1. PICK pc \in {"delete", "stage0", "stage1", "stage2"} :
              worker = Idle /\ worker' = [Idle EXCEPT !.pc = pc, !.snap = s]
        BY <2>4 DEF StartDelete, ResumeMerge
      <3> QED BY <3>1 DEF Idle
    <2> QED BY <2>1, <2>2, <2>3, <2>4 DEF PickTask
  <1>3. TxnInv'
    BY <1>1, <1>2 DEF LockInv, TxnInv
  <1> QED BY <1>1, <1>3, HeldFrame

(* The worker merges a snapshot only when no restore has locked it: it finds  *)
(* no reference on it, and restores of its file wait until the commit.        *)
LEMMA WorkerLocks ==
  ASSUME LockInv, WorkerStep
  PROVE  TxnInv' /\ \A r \in Reader : HeldBy(r)'
  <1> DEFINE s == worker.snap
  <1>0. worker \in WorkerState /\ \A r \in Reader : reader[r].locked \subseteq Snap
    BY DEF LockInv, TypeInv, TypeOK, WorkerOK, ClientsOK, ReaderState
  <1>1. CASE SetMerged
    <2>1. UNCHANGED <<reader, merged, refs>>
      BY <1>1 DEF SetMerged, tables
    <2>2. txn = NoSnap
      BY <1>1 DEF SetMerged, LockInv, TxnInv
    <2>3. CASE refs[s] = {} /\ txn' = s /\ Goto("txn")
      <3>1. TxnInv'
        BY <1>0, <2>3, GotoTyped DEF TxnInv, WorkerPC
      <3>2. \A r \in Reader : HeldBy(r)'
        BY <2>1, <2>3 DEF LockInv, HeldBy, RestoreLock
      <3> QED BY <3>1, <3>2
    <2>4. CASE Goto("check") /\ UNCHANGED txn
      <3>1. TxnInv'
        BY <1>0, <2>2, <2>4, GotoTyped DEF TxnInv, WorkerPC
      <3> QED BY <2>1, <2>4, <3>1, HeldFrame
    <2> QED BY <1>1, <2>3, <2>4 DEF SetMerged
  <1>2. CASE Commit
    <2>1. txn = s /\ txn' = NoSnap /\ UNCHANGED <<reader, refs>> /\ Goto("list_delete")
      BY <1>2 DEF Commit, LockInv, TxnInv
    <2>2. s \in Snap /\ merged \in [Snap -> BOOLEAN] /\ merged' = [merged EXCEPT ![s] = TRUE]
      BY <1>2 DEF Commit, LockInv, TypeInv, TypeOK, TablesOK, WorkerShape
    <2>3. TxnInv'
      BY <1>0, <2>1, GotoTyped DEF TxnInv, WorkerPC
    <2>4. \A r \in Reader : HeldBy(r)'
      BY <1>0, <2>1, <2>2, NullAssumption DEF LockInv, HeldBy, RestoreLock
    <2> QED BY <2>3, <2>4
  <1>3. CASE SetMergedStage1
    <2>1. txn = NoSnap /\ UNCHANGED <<reader, refs, txn>>
      BY <1>3 DEF SetMergedStage1, LockInv, TxnInv
    <2>2. s \in Snap /\ merged \in [Snap -> BOOLEAN]
      BY <1>3 DEF SetMergedStage1, LockInv, TypeInv, TypeOK, TablesOK, WorkerShape
    <2>3. TxnInv'
      <3>1. worker' = Idle \/ Goto("to_stage2") \/ Goto("reparent")
        BY <1>3 DEF SetMergedStage1
      <3>2. worker'.pc # "txn"
        BY <1>0, <3>1, GotoTyped, WorkerTypes DEF WorkerPC
      <3> QED BY <2>1, <3>2 DEF TxnInv
    <2>4. CASE UNCHANGED merged
      BY <2>1, <2>3, <2>4, HeldFrame
    <2>5. CASE refs[s] = {} /\ merged' = [merged EXCEPT ![s] = TRUE]
      BY <1>0, <2>1, <2>2, <2>3, <2>5 DEF LockInv, HeldBy, RestoreLock
    <2> QED BY <1>3, <2>4, <2>5 DEF SetMergedStage1
  <1>4. CASE ~SetMerged /\ ~Commit /\ ~SetMergedStage1
    <2>1. UNCHANGED <<reader, merged, txn>>
      BY <1>4 DEF WorkerStep, SetDeleting, CreateTask, UnlockFilesByPrefix, DeleteStep, ListDelete,
             LockForDelete, DeleteImage, UnlockAfterDelete, FinishDelete, SetDeleted,
             SetTaskFinished, MergeStep, CreateMerge, ListMerge, RecreateNew, LockForMerge,
             MergeImage, UnlockAfterMerge, Reparent, CreateDelete, ToStage2, FinishNew,
             CondemnNew, CollectNew, FinishMerge, tables
    <2>2. worker.pc # "txn"
      BY <1>4 DEF WorkerStep, SetDeleting, CreateTask, UnlockFilesByPrefix, DeleteStep, ListDelete,
             LockForDelete, DeleteImage, UnlockAfterDelete, FinishDelete, SetDeleted,
             SetTaskFinished, MergeStep, CreateMerge, ListMerge, RecreateNew, LockForMerge,
             MergeImage, UnlockAfterMerge, Reparent, CreateDelete, ToStage2, FinishNew,
             CondemnNew, CollectNew, FinishMerge
    <2>3. TxnInv'
      <3>1. \/ worker' = Idle
            \/ Return
            \/ \E pc \in WorkerPC \ {"txn"} : Goto(pc)
            \/ \E back : worker' = [worker EXCEPT !.pc = "delete", !.ret = back]
        BY <1>4 DEF WorkerStep, SetDeleting, CreateTask, UnlockFilesByPrefix, DeleteStep, ListDelete,
               LockForDelete, DeleteImage, UnlockAfterDelete, FinishDelete, SetDeleted,
               SetTaskFinished, MergeStep, CreateMerge, ListMerge, RecreateNew, LockForMerge,
               MergeImage, UnlockAfterMerge, Reparent, CreateDelete, ToStage2, FinishNew,
               CondemnNew, CollectNew, FinishMerge, WorkerPC
      <3>2. worker'.pc # "txn"
        <4>1. CASE worker' = Idle
          BY <4>1, WorkerTypes
        <4>2. CASE Return
          <5>1. CASE worker' = Idle
            BY <5>1, WorkerTypes
          <5>2. CASE /\ worker.ret \in {"check", "to_stage2"}
                     /\ worker' = [worker EXCEPT !.pc = worker.ret, !.ret = "idle"]
            BY <1>0, <5>2 DEF WorkerState
          <5> QED BY <1>0, <4>2, <5>1, <5>2, ReturnTyped
        <4>3. CASE \E pc \in WorkerPC \ {"txn"} : Goto(pc)
          BY <1>0, <4>3, GotoTyped
        <4>4. CASE \E back : worker' = [worker EXCEPT !.pc = "delete", !.ret = back]
          BY <1>0, <4>4 DEF WorkerState
        <4> QED BY <3>1, <4>1, <4>2, <4>3, <4>4
      <3> QED BY <2>1, <2>2, <3>2 DEF LockInv, TxnInv
    <2>4. \/ UNCHANGED refs
          \/ \E ss : refs' = Unlocked({DeleteLock(x) : x \in Snap}, ss)
          \/ \E ss, x : refs' = Unlocked({DeleteLock(x)}, ss)
          \/ \E ss, x : refs' = Unlocked({MergeLock(x)}, ss)
          \/ \E ss, x : refs' = Locked({x}, ss)
      BY <1>4 DEF WorkerStep, SetDeleting, CreateTask, UnlockFilesByPrefix, DeleteStep, ListDelete,
             LockForDelete, DeleteImage, UnlockAfterDelete, FinishDelete, SetDeleted,
             SetTaskFinished, MergeStep, CreateMerge, ListMerge, RecreateNew, LockForMerge,
             MergeImage, UnlockAfterMerge, Reparent, CreateDelete, ToStage2, FinishNew,
             CondemnNew, CollectNew, FinishMerge
    <2>5. \A r \in Reader, k \in Snap : RestoreLock(r) \in refs[k] => RestoreLock(r) \in refs'[k]
      BY <2>4, LockNames, RefsKept
    <2> QED BY <2>1, <2>3, <2>5, HeldFrame
  <1> QED BY <1>1, <1>2, <1>3, <1>4

LEMMA CrashLocks == ASSUME LockInv, Crash PROVE TxnInv' /\ \A r \in Reader : HeldBy(r)'
  <1>1. TxnInv'
    BY DEF Crash, TxnInv, Idle
  <1>2. UNCHANGED <<refs, merged>> /\ txn' = NoSnap
    BY DEF Crash
  <1>3. reader \in [Reader -> ReaderState] /\ \A r \in Reader : reader[r].locked \subseteq Snap
    BY DEF LockInv, TypeInv, TypeOK, ClientsOK, ReaderState
  <1>4. ASSUME NEW r \in Reader PROVE HeldBy(r)'
    <2>1. CASE reader'[r].pc = "ending"
      BY <2>1 DEF HeldBy
    <2>2. CASE reader'[r] = reader[r]
      BY <1>2, <1>3, <2>2, NullAssumption DEF LockInv, HeldBy, RestoreLock
    <2> QED BY <1>3, <2>1, <2>2 DEF Crash, ReaderState
  <1> QED BY <1>1, <1>4

THEOREM LocksInvariant == Spec => []LockInv
  <1>1. LockInv /\ TypeInv' /\ [Next]_vars => LockInv'
    <2> SUFFICES ASSUME LockInv, TypeInv', [Next]_vars PROVE TxnInv' /\ \A r \in Reader : HeldBy(r)'
      BY DEF LockInv
    <2>1. CASE BackupStep \/ \E s \in Snap : Condemn(s) \/ PickTask(s)
      BY <2>1, BackupLocks
    <2>2. CASE \E r \in Reader : ReaderStep(r)
      BY <2>2, ReaderLocks
    <2>3. CASE WorkerStep
      BY <2>3, WorkerLocks
    <2>4. CASE Crash
      BY <2>4, CrashLocks
    <2>5. CASE UNCHANGED vars
      BY <2>5 DEF vars, tables, LockInv, TxnInv, HeldBy
    <2> QED BY <2>1, <2>2, <2>3, <2>4, <2>5 DEF Next
  <1> QED BY <1>1, InitLocks, TypesInvariant, PTL DEF Spec

(* set_merged and lock_file exclude each other: what a restore has locked     *)
(* before the transaction that would merge it is not merged while it is held. *)
THEOREM LockedStaysUnmerged == Spec => []LockedNotMerged
  <1>1. LockInv => LockedNotMerged
    BY DEF LockInv, HeldBy, LockedNotMerged
  <1> QED BY <1>1, LocksInvariant, PTL

-----------------------------------------------------------------------------
(* ROWS, TASKS AND THE PLACE OF THE WORKER.  What the database, the disk and  *)
(* the worker know of each other, from which the promises about tasks follow. *)

DeletePC == {"delete", "deleting", "unlock", "abort", "finish"}
MadePC   == {"merge_lock", "merging", "merge_unlock"}

HasTask(s) == \E k \in Slot : collect[s][k] \in {"merge", "delete"}

RowSound(s) ==
  /\ s \in row <=> host[s] # "none"
  /\ merged[s] => host[s] = "successful" /\ deleting[s]
  /\ deleted[s] => merged[s]
  /\ del[s] # "none" => merged[s]
  /\ del[s] = "finished" => s \notin image
  /\ host[s] = "none" => ~deleting[s]
  /\ HasTask(s) => deleting[s]

(* A merge works on a condemned point; its new snapshot is condemned too, and *)
(* has no task of its own, until the merge finishes it.                      *)
MergeSound(s) ==
  LET n == merge[s].new
  IN  /\ merge[s].stage = "none" => n = NoSnap
      /\ \A t \in Snap : merge[t].new = n /\ n # NoSnap => t = s
      /\ merge[s].stage # "none" => host[s] = "successful" /\ deleting[s]
      /\ merge[s].stage = "stage0" => host[n] \in {"none", "backuping"}
      /\ merge[s].stage = "stage1" => host[n] = "backuping"
      /\ merge[s].stage = "stage2" => host[n] \in {"backuping", "successful"} /\ merged[s]
      /\ merge[s].stage = "finished" => host[n] = "successful" /\ merged[s]
      /\ merge[s].stage # "none" /\ host[n] = "backuping" => deleting[n]
      /\ merge[s].stage # "none" /\ host[n] # "successful" => ~HasTask(n)

BackupSound ==
  /\ backup.pc # "idle" => \A t \in Snap : merge[t].new # backup.snap
  /\ backup.pc \in {"created", "running"} => host[backup.snap] = "backuping"

(* What is true of the snapshot the worker has in hand. *)
WorkerSound ==
  LET s  == worker.snap
      n  == merge[s].new
      pc == worker.pc
  IN  /\ pc = "set_deleting" => host[s] = "successful"
      /\ pc \in {"create_task", "set_merged", "txn", "merge_create"} =>
           host[s] = "successful" /\ deleting[s]
      /\ pc \in {"list_delete"} \cup DeletePC => merged[s] /\ del[s] = "pending"
      /\ pc \in {"unlock", "finish"} => s \notin image
      /\ pc = "merge_create" => merge[s].stage = "none"
      /\ pc \in {"merge_list", "stage0"} \cup MadePC => merge[s].stage = "stage0"
      /\ pc \in MadePC => host[n] = "backuping"
      /\ pc \in {"stage1", "reparent", "merge_delete", "to_stage2"} => merge[s].stage = "stage1"
      /\ pc \in {"reparent", "merge_delete", "to_stage2"} => merged[s]
      /\ pc \in {"stage2", "condemn", "collect_new", "merge_finish"} => merge[s].stage = "stage2"
      /\ pc \in {"condemn", "collect_new", "merge_finish"} => host[n] = "successful"
      /\ pc = "collect_new" => deleting[n]
      /\ pc = "close" => deleted[s] \/ host[s] = "failed"
      /\ worker.ret = "to_stage2" => merge[s].stage = "stage1" /\ merged[s]
      /\ worker.ret # "idle" => pc \in DeletePC

(* A merged snapshot has its delete task, if no restart came in between. *)
DeleteKept(s) ==
  merged[s] => \/ del[s] # "none"
               \/ s \in cut
               \/ worker.snap = s /\ worker.pc \in {"reparent", "merge_delete"}

(* A condemned point has its collection task, if no restart came in between;  *)
(* the new snapshot of a merge gets one when the merge has finished it.       *)
Excused(s) == \/ s \in cut
              \/ worker.pc = "create_task" /\ worker.snap = s
              \/ worker.pc = "collect_new" /\ merge[worker.snap].new = s
TaskKept(s) ==
  /\ host[s] = "successful" /\ deleting[s] /\ ~deleted[s] => HasTask(s) \/ Excused(s)
  /\ host[s] = "backuping" /\ deleting[s] =>
       HasTask(s) \/ \E t \in Snap : merge[t].new = s /\ merge[t].stage # "finished"

TaskInv ==
  /\ \A s \in Snap : RowSound(s) /\ MergeSound(s) /\ DeleteKept(s) /\ TaskKept(s)
  /\ BackupSound /\ WorkerSound

LEMMA InitTasks == Init => TaskInv
  BY NullAssumption DEF Init, TaskInv, RowSound, MergeSound, DeleteKept, TaskKept, BackupSound, WorkerSound,
     HasTask, NoMerge, Idle, IdleBackup, DeletePC, MadePC

(* The parts that a step which leaves the rows and the tasks alone keeps. *)
LEMMA TaskFrame ==
  ASSUME TaskInv, UNCHANGED <<row, host, merged, deleting, deleted, collect, del, merge, image>>
  PROVE  /\ \A s \in Snap : RowSound(s)' /\ MergeSound(s)'
         /\ UNCHANGED backup => BackupSound'
         /\ UNCHANGED <<worker, cut>> =>
              WorkerSound' /\ \A s \in Snap : DeleteKept(s)' /\ TaskKept(s)'
  <1>1. \A s \in Snap : RowSound(s)' /\ MergeSound(s)'
    BY DEF TaskInv, RowSound, MergeSound, HasTask
  <1>2. UNCHANGED backup => BackupSound'
    BY DEF TaskInv, BackupSound
  <1>3. UNCHANGED <<worker, cut>> => WorkerSound'
    BY DEF TaskInv, WorkerSound
  <1>4. UNCHANGED <<worker, cut>> => \A s \in Snap : DeleteKept(s)' /\ TaskKept(s)'
    BY DEF TaskInv, DeleteKept, TaskKept, Excused, HasTask
  <1> QED BY <1>1, <1>2, <1>3, <1>4

LEMMA ReaderTasks == ASSUME TaskInv, NEW r \in Reader, ReaderStep(r) PROVE TaskInv'
  <1>1. UNCHANGED <<tables, tasks, disk, worker, backup, cut>>
    BY DEF ReaderStep, RestoreCreate, LockFile, LockFileWaited, RestoreDone, UnlockFiles
  <1> QED BY <1>1, TaskFrame DEF TaskInv, tables, tasks, disk

(* Backups write the row of an identifier that no merge has chosen. *)
LEMMA BackupTasks == ASSUME TypeInv, TaskInv, BackupStep PROVE TaskInv'
  <1> USE NullAssumption
  <1>0. /\ row \subseteq Snap /\ host \in [Snap -> HostState] /\ merge \in [Snap -> MergeTask]
        /\ backup \in BackupState /\ (backup.pc # "idle" => backup.snap \in Snap)
        /\ \A s \in Snap : merge[s].stage # "none" => merge[s].new \in Snap
    BY DEF TypeInv, TypeOK, TablesOK, TasksOK, ClientsOK, ClientShape, MergeShape
  <1>1. CASE BackupQuery
    <2>1. UNCHANGED <<tables, tasks, disk, worker, cut>>
      BY <1>1 DEF BackupQuery
    <2>2. PICK s \in NewBackup : Fresh(s) /\ backup'.snap = s /\ backup'.pc = "queried"
      BY <1>1 DEF BackupQuery
    <2>3. BackupSound'
      BY <2>1, <2>2 DEF BackupSound, Fresh, tasks
    <2> QED BY <2>1, <2>3, TaskFrame DEF TaskInv, tables, tasks, disk
  <1>2. CASE BackupCreate
    <2> DEFINE b == backup.snap
    <2>1. /\ b \in Snap /\ host[b] = "none" /\ \A t \in Snap : merge[t].new # b
          /\ row' = row \cup {b} /\ host' = [host EXCEPT ![b] = "backuping"]
          /\ UNCHANGED <<merged, deleting, deleted, tasks, disk, worker, cut>>
          /\ backup'.snap = b /\ backup'.pc = "created" /\ ~HasTask(b)
      BY <1>0, <1>2 DEF BackupCreate, Fresh, TaskInv, RowSound, BackupState
    <2>2. \A s \in Snap : RowSound(s)' /\ DeleteKept(s)' /\ TaskKept(s)'
      BY <1>0, <2>1 DEF TaskInv, RowSound, DeleteKept, TaskKept, Excused, HasTask, tasks, disk
    <2>3. \A s \in Snap : MergeSound(s)'
      BY <1>0, <2>1 DEF TaskInv, RowSound, MergeSound, HasTask, tasks
    <2>4. BackupSound' /\ WorkerSound'
      BY <1>0, <2>1 DEF TaskInv, BackupSound, WorkerSound, tasks, disk
    <2> QED BY <2>2, <2>3, <2>4 DEF TaskInv
  <1>3. CASE BackupSend \/ BackupFinish
    <2> DEFINE b == backup.snap
    <2>1. /\ b \in Snap /\ host[b] = "backuping" /\ \A t \in Snap : merge[t].new # b
          /\ \/ UNCHANGED host
             \/ host' = [host EXCEPT ![b] = "failed"]
             \/ host' = [host EXCEPT ![b] = "successful"]
          /\ image' \in {image, image \cup {b}}
          /\ UNCHANGED <<row, merged, deleting, deleted, tasks, worker, cut>>
          /\ backup' = IdleBackup \/ (UNCHANGED host /\ backup'.snap = b /\ backup'.pc = "running")
      BY <1>0, <1>3 DEF BackupSend, BackupFinish, TaskInv, BackupSound, BackupState, disk
    <2>2. \A s \in Snap : RowSound(s)' /\ DeleteKept(s)' /\ TaskKept(s)'
      BY <1>0, <2>1 DEF TaskInv, RowSound, DeleteKept, TaskKept, Excused, HasTask, tasks
    <2>3. \A s \in Snap : MergeSound(s)'
      BY <1>0, <2>1 DEF TaskInv, RowSound, MergeSound, HasTask, tasks, MergeTask, SnapOrNull
    <2>4. BackupSound' /\ WorkerSound'
      <3>1. BackupSound'
        BY <1>0, <2>1 DEF TaskInv, BackupSound, tasks, IdleBackup
      <3>2. merged' = merged /\ merge' = merge /\ del' = del /\ deleted' = deleted
        BY <2>1 DEF tasks
      <3>3. \A s \in Snap : /\ host[s] = "successful" => host'[s] = "successful"
                            /\ host[s] = "failed" => host'[s] = "failed"
        BY <1>0, <2>1
      <3>4. CASE worker.pc \in {"start", "idle"}
        <4>1. worker.ret = "idle" /\ worker' = worker
          BY <2>1, <3>4 DEF TaskInv, WorkerSound, DeletePC
        <4>2. WorkerSound'
          BY <3>4, <4>1 DEF WorkerSound, DeletePC, MadePC
        <4> QED BY <3>1, <4>2
      <3>5. CASE worker.pc \notin {"start", "idle"}
        <4>1. worker.snap \in Snap /\ merge[worker.snap].new # b
          BY <2>1, <3>5 DEF TypeInv, WorkerShape
        <4>2. merged[worker.snap] => worker.snap # b
          BY <2>1, <4>1 DEF TaskInv, RowSound
        <4>3. worker.pc \in MergePC => merge[worker.snap].new \in Snap
          BY <1>0, <4>1 DEF TypeInv, WorkerShape
        <4>4. WorkerSound'
          BY <1>0, <2>1, <3>2, <3>3, <4>1, <4>2, <4>3 DEF TaskInv, WorkerSound, MergePC, MadePC, DeletePC
        <4> QED BY <3>1, <4>4
      <3> QED BY <3>4, <3>5
    <2> QED BY <2>2, <2>3, <2>4 DEF TaskInv
  <1> QED BY <1>1, <1>2, <1>3 DEF BackupStep

(* Choosing what to work on finds in the tables what the worker then relies on. *)
LEMMA PickTasks ==
  ASSUME TypeInv, TaskInv, NEW s \in Snap, Condemn(s) \/ PickTask(s) PROVE TaskInv'
  <1>0. /\ row \subseteq Snap /\ host \in [Snap -> HostState] /\ merge \in [Snap -> MergeTask]
        /\ deleting \in [Snap -> BOOLEAN] /\ collect \in [Snap -> [Slot -> TaskType]]
        /\ \A x \in Snap : merge[x].stage # "none" => merge[x].new \in Snap
    BY DEF TypeInv, TypeOK, TablesOK, TasksOK, MergeShape
  <1>1. CASE CreateDeleteTask(s)
    <2>1. /\ UNCHANGED <<row, host, merged, deleted, del, merge, image, worker, backup, cut>>
          /\ s \in row /\ host[s] \in {"backuping", "successful"}
      BY <1>1 DEF CreateDeleteTask, disk
    <2>2. /\ deleting' = [deleting EXCEPT ![s] = TRUE]
          /\ HasTask(s)' 
          /\ \A x \in Snap : x # s => collect'[x] = collect[x]
          /\ deleting[s] => HasTask(s)
      BY <1>0, <1>1 DEF CreateDeleteTask, HasTask, Slot
    <2>2a. \A x \in Snap : (x # s => (HasTask(x)' <=> HasTask(x)))
      BY <2>2 DEF HasTask
    <2>3. \A x \in Snap : RowSound(x)' /\ DeleteKept(x)' /\ TaskKept(x)'
      BY <1>0, <2>1, <2>2, <2>2a DEF TaskInv, RowSound, DeleteKept, TaskKept, Excused
    <2>4. \A x \in Snap : MergeSound(x)'
      BY <1>0, <2>1, <2>2, <2>2a DEF TaskInv, MergeSound
    <2>5. BackupSound' /\ WorkerSound'
      BY <1>0, <2>1, <2>2 DEF TaskInv, BackupSound, WorkerSound, TypeInv, WorkerShape, MergeShape, MergePC
    <2> QED BY <2>3, <2>4, <2>5 DEF TaskInv
  <1>2. ASSUME UNCHANGED <<tables, tasks, disk, backup, cut>>, worker = Idle, WorkerSound',
               worker'.snap = s, worker'.pc \notin {"idle"}
        PROVE  TaskInv'
    <2>1. worker.pc = "idle"
      BY <1>2 DEF Idle
    <2>2. \A x \in Snap : DeleteKept(x)' /\ TaskKept(x)'
      BY <1>2, <2>1 DEF TaskInv, DeleteKept, TaskKept, Excused, HasTask, tables, tasks
    <2> QED BY <1>2, <2>2, TaskFrame DEF TaskInv, tables, tasks, disk
  <1>3. CASE Expire(s)
    <2>1. worker'.pc = "set_deleting" /\ worker'.snap = s /\ worker'.ret = "idle" /\ worker = Idle
      BY <1>3 DEF Expire, Idle
    <2>2. WorkerSound'
      BY <1>3, <2>1 DEF Expire, WorkerSound, DeletePC, MadePC, tables
    <2> QED BY <1>2, <1>3, <2>1, <2>2 DEF Expire
  <1>4. ASSUME NEW k \in Slot, StartCollect(s, k) PROVE TaskInv'
    <2>1. PICK pc \in {"close", "set_merged", "merge_create", "check"} :
            worker' = [Idle EXCEPT !.pc = pc, !.snap = s, !.slot = k]
      BY <1>4 DEF StartCollect
    <2>2. worker'.pc = pc /\ worker'.snap = s /\ worker'.ret = "idle" /\ worker = Idle
      BY <1>4, <2>1 DEF StartCollect, Idle
    <2>3. /\ pc = "close" => deleted[s] \/ host[s] = "failed"
          /\ pc # "close" => host[s] = "successful"
          /\ pc = "merge_create" => merge[s].stage = "none"
      BY <1>4, <2>1, <2>2 DEF StartCollect, Idle
    <2>4. deleting[s]
      BY <1>4 DEF StartCollect, TaskInv, RowSound, HasTask
    <2>5. WorkerSound'
      BY <1>4, <2>2, <2>3, <2>4 DEF StartCollect, WorkerSound, DeletePC, MadePC, tables, tasks
    <2> QED BY <1>2, <1>4, <2>2, <2>5 DEF StartCollect
  <1>5. CASE StartDelete(s)
    <2>1. worker'.pc = "delete" /\ worker'.snap = s /\ worker'.ret = "idle" /\ worker = Idle
      BY <1>5 DEF StartDelete, Idle
    <2>2. WorkerSound'
      BY <1>5, <2>1 DEF StartDelete, WorkerSound, DeletePC, MadePC, tables, tasks, TaskInv, RowSound
    <2> QED BY <1>2, <1>5, <2>1, <2>2 DEF StartDelete
  <1>6. CASE ResumeMerge(s)
    <2>1. /\ worker'.pc = merge[s].stage /\ worker'.snap = s /\ worker'.ret = "idle" /\ worker = Idle
          /\ merge[s].stage \in {"stage0", "stage1", "stage2"}
      BY <1>6 DEF ResumeMerge, Idle
    <2>2. WorkerSound'
      BY <1>6, <2>1 DEF ResumeMerge, WorkerSound, DeletePC, MadePC, tables, tasks
    <2> QED BY <1>2, <1>6, <2>1, <2>2 DEF ResumeMerge
  <1> QED BY <1>1, <1>3, <1>4, <1>5, <1>6 DEF Condemn, PickTask

(* A move of the worker that leaves nothing half done. *)
LEMMA AtRest ==
  ASSUME worker'.pc \in {"start", "idle", "check"}, worker'.ret = "idle" PROVE WorkerSound'
  BY DEF WorkerSound, DeletePC, MadePC

LEMMA WorkerMove ==
  ASSUME TaskInv, WorkerSound',
         UNCHANGED <<row, host, merged, deleting, deleted, collect, del, merge, image, backup, cut>>,
         worker.pc \notin {"create_task", "collect_new", "reparent", "merge_delete"}
  PROVE  TaskInv'
  <1>1. \A x \in Snap : DeleteKept(x)' /\ TaskKept(x)'
    BY DEF TaskInv, DeleteKept, TaskKept, Excused, HasTask
  <1> QED BY <1>1, TaskFrame DEF TaskInv

LEMMA DeleteTasks == ASSUME TypeInv, TaskInv, DeleteStep PROVE TaskInv'
  <1> DEFINE s == worker.snap
  <1>0. /\ s \in Snap
        /\ merged \in [Snap -> BOOLEAN] /\ deleted \in [Snap -> BOOLEAN]
        /\ del \in [Snap -> {"none", "pending", "finished"}]
        /\ collect \in [Snap -> [Slot -> TaskType]] /\ worker \in WorkerState
    BY DEF TypeInv, TypeOK, TablesOK, TasksOK, WorkerOK, WorkerShape, DeleteStep, SetMerged, Commit,
           ListDelete, LockForDelete, DeleteImage, UnlockAfterDelete, FinishDelete, SetDeleted,
           SetTaskFinished
  <1>1. CASE SetMerged
    <2>1. /\ worker.pc = "set_merged" /\ worker'.pc \in {"txn", "check"}
          /\ worker'.snap = s /\ worker'.ret = worker.ret
          /\ UNCHANGED <<tables, tasks, disk, backup, cut>>
      BY <1>0, <1>1, GotoTyped DEF SetMerged, WorkerPC
    <2>2. WorkerSound'
      BY <2>1 DEF TaskInv, WorkerSound, DeletePC, MadePC, tables
    <2> QED BY <2>1, <2>2, WorkerMove DEF tables, tasks, disk
  <1>2. CASE Commit
    <2>1. /\ worker.pc = "txn" /\ worker'.pc = "list_delete"
          /\ worker'.snap = s /\ worker'.ret = worker.ret
          /\ UNCHANGED <<row, host, deleting, deleted, collect, merge, image, backup, cut>>
          /\ merged' = [merged EXCEPT ![s] = TRUE] /\ del' = [del EXCEPT ![s] = "pending"]
          /\ host[s] = "successful" /\ deleting[s]
      BY <1>0, <1>2, GotoTyped DEF Commit, WorkerPC, disk, TaskInv, WorkerSound
    <2>2. WorkerSound'
      BY <1>0, <2>1 DEF TaskInv, WorkerSound, DeletePC, MadePC
    <2>3. \A x \in Snap : RowSound(x)' /\ MergeSound(x)'
      BY <1>0, <2>1 DEF TaskInv, RowSound, MergeSound, HasTask
    <2>4. BackupSound' /\ \A x \in Snap : DeleteKept(x)' /\ TaskKept(x)'
      BY <1>0, <2>1 DEF TaskInv, BackupSound, DeleteKept, TaskKept, Excused, HasTask
    <2> QED BY <2>2, <2>3, <2>4 DEF TaskInv
  <1>3. CASE ListDelete
    <2>1. /\ worker.pc = "list_delete" /\ worker'.pc = "delete" /\ worker'.ret = "check"
          /\ worker'.snap = s
          /\ UNCHANGED <<tables, collect, del, merge, disk, backup, cut>>
      BY <1>0, <1>3 DEF ListDelete, WorkerState
    <2>2. WorkerSound'
      BY <2>1 DEF TaskInv, WorkerSound, DeletePC, MadePC, tables, disk
    <2> QED BY <2>1, <2>2, WorkerMove DEF tables, disk
  <1>4. CASE LockForDelete
    <2>1. /\ worker.pc = "delete" /\ worker'.pc \in {"finish", "abort", "deleting"}
          /\ worker'.pc = "finish" => s \notin image
          /\ worker'.snap = s /\ worker'.ret = worker.ret
          /\ UNCHANGED <<tables, tasks, disk, backup, cut>>
      BY <1>0, <1>4, GotoTyped DEF LockForDelete, FileExists, WorkerPC
    <2>2. WorkerSound'
      BY <2>1 DEF TaskInv, WorkerSound, DeletePC, MadePC, tables, tasks, disk
    <2> QED BY <2>1, <2>2, WorkerMove DEF tables, tasks, disk
  <1>5. CASE DeleteImage
    <2>1. /\ worker.pc = "deleting" /\ worker'.pc \in {"unlock", "abort"}
          /\ worker'.pc = "unlock" => s \notin image'
          /\ image' \subseteq image
          /\ worker'.snap = s /\ worker'.ret = worker.ret
          /\ UNCHANGED <<tables, tasks, backup, cut>>
      BY <1>0, <1>5, GotoTyped DEF DeleteImage, WorkerPC
    <2>2. WorkerSound'
      BY <2>1 DEF TaskInv, WorkerSound, DeletePC, MadePC, tables, tasks
    <2>3. \A x \in Snap : RowSound(x)' /\ MergeSound(x)' /\ DeleteKept(x)' /\ TaskKept(x)'
      BY <2>1 DEF TaskInv, RowSound, MergeSound, DeleteKept, TaskKept, Excused, HasTask, tables, tasks
    <2>4. BackupSound'
      BY <2>1 DEF TaskInv, BackupSound, tables, tasks
    <2> QED BY <2>2, <2>3, <2>4 DEF TaskInv
  <1>6. ASSUME Return, worker.pc \in DeletePC, UNCHANGED <<merged, merge>> PROVE WorkerSound'
    <2>1. CASE worker' = Idle
      BY <2>1, AtRest DEF Idle
    <2>2. CASE /\ worker.ret \in {"check", "to_stage2"}
               /\ worker' = [worker EXCEPT !.pc = worker.ret, !.ret = "idle"]
      <3>1. worker'.pc = worker.ret /\ worker'.ret = "idle" /\ worker'.snap = s
        BY <1>0, <2>2 DEF WorkerState
      <3> QED BY <1>6, <2>2, <3>1 DEF TaskInv, WorkerSound, DeletePC, MadePC
    <2> QED BY <1>0, <1>6, <2>1, <2>2, ReturnTyped
  <1>7. CASE UnlockAfterDelete
    <2>1. /\ worker.pc \in {"unlock", "abort"}
          /\ UNCHANGED <<tables, tasks, disk, backup, cut>>
          /\ worker.pc = "unlock" => Goto("finish")
          /\ worker.pc = "abort" => Return
      BY <1>7 DEF UnlockAfterDelete
    <2>2. CASE worker.pc = "unlock"
      <3>1. worker'.pc = "finish" /\ worker'.snap = s /\ worker'.ret = worker.ret
        BY <1>0, <2>1, <2>2, GotoTyped DEF WorkerPC
      <3>2. WorkerSound'
        BY <2>1, <2>2, <3>1 DEF TaskInv, WorkerSound, DeletePC, MadePC, tables, tasks, disk
      <3> QED BY <2>1, <3>2, WorkerMove DEF tables, tasks, disk
    <2>3. CASE worker.pc = "abort"
      <3>1. WorkerSound'
        BY <1>6, <2>1, <2>3 DEF DeletePC, tables, tasks
      <3> QED BY <2>1, <3>1, WorkerMove DEF tables, tasks, disk
    <2> QED BY <2>1, <2>2, <2>3
  <1>8. CASE FinishDelete
    <2>1. /\ worker.pc = "finish" /\ Return /\ del' = [del EXCEPT ![s] = "finished"]
          /\ UNCHANGED <<row, host, merged, deleting, deleted, collect, merge, image, backup, cut>>
          /\ merged[s] /\ s \notin image
      BY <1>8 DEF FinishDelete, tables, disk, TaskInv, WorkerSound, DeletePC
    <2>2. WorkerSound'
      BY <1>6, <2>1 DEF DeletePC
    <2>3. \A x \in Snap : RowSound(x)' /\ MergeSound(x)' /\ DeleteKept(x)' /\ TaskKept(x)'
      BY <1>0, <2>1 DEF TaskInv, RowSound, MergeSound, DeleteKept, TaskKept, Excused, HasTask
    <2>4. BackupSound'
      BY <2>1 DEF TaskInv, BackupSound
    <2> QED BY <2>2, <2>3, <2>4 DEF TaskInv
  <1>9. CASE SetDeleted
    <2>0. worker.pc = "check" /\ worker.ret = "idle"
      BY <1>9 DEF SetDeleted, TaskInv, WorkerSound, DeletePC
    <2>1. CASE worker' = Idle /\ UNCHANGED deleted
      <3>1. WorkerSound'
        BY <2>1, AtRest DEF Idle
      <3> QED BY <1>9, <2>0, <2>1, <3>1, WorkerMove DEF SetDeleted, tasks, disk
    <2>2. CASE merged[s] /\ deleted' = [deleted EXCEPT ![s] = TRUE] /\ Goto("close")
      <3>1. worker'.pc = "close" /\ worker'.snap = s /\ worker'.ret = "idle"
        BY <1>0, <2>0, <2>2, GotoTyped DEF WorkerPC
      <3>2. UNCHANGED <<row, host, merged, deleting, collect, del, merge, image, backup, cut>>
        BY <1>9 DEF SetDeleted, tasks, disk
      <3>3. WorkerSound' /\ BackupSound'
        BY <1>0, <2>2, <3>1, <3>2 DEF TaskInv, WorkerSound, BackupSound, DeletePC, MadePC
      <3>4. \A x \in Snap : RowSound(x)' /\ MergeSound(x)' /\ DeleteKept(x)' /\ TaskKept(x)'
        BY <1>0, <2>0, <2>2, <3>1, <3>2
           DEF TaskInv, RowSound, MergeSound, DeleteKept, TaskKept, Excused, HasTask
      <3> QED BY <3>3, <3>4 DEF TaskInv
    <2> QED BY <1>9, <2>1, <2>2 DEF SetDeleted
  <1>10. CASE SetTaskFinished
    <2>1. /\ worker.pc = "close" /\ worker' = Idle
          /\ UNCHANGED <<row, host, merged, deleting, deleted, del, merge, image, backup, cut>>
          /\ deleted[s] \/ host[s] = "failed"
      BY <1>10 DEF SetTaskFinished, tables, disk, TaskInv, WorkerSound
    <2>2. \A x \in Snap : (x # s => (HasTask(x)' <=> HasTask(x))) /\ (HasTask(x)' => HasTask(x))
      <3>1. collect' = [collect EXCEPT ![s][worker.slot] = "finished"]
        BY <1>10 DEF SetTaskFinished
      <3>2. \A x \in Snap : x # s => collect'[x] = collect[x]
        BY <1>0, <3>1
      <3>3. \A k \in Slot : collect'[s][k] \in {collect[s][k], "finished"}
        BY <1>0, <3>1
      <3> QED BY <3>2, <3>3 DEF HasTask
    <2>3. WorkerSound' /\ BackupSound'
      BY <2>1, AtRest DEF Idle, TaskInv, BackupSound
    <2>4. \A x \in Snap : RowSound(x)' /\ MergeSound(x)' /\ DeleteKept(x)'
      BY <1>0, <2>1, <2>2 DEF TaskInv, RowSound, DeleteKept, MergeSound, TypeInv, MergeShape
    <2>5. \A x \in Snap : TaskKept(x)'
      <3>1. RowSound(s) /\ (host[s] = "failed" \/ host[s] = "successful")
        BY <1>0, <2>1 DEF TaskInv, RowSound
      <3> QED BY <1>0, <2>1, <2>2, <3>1 DEF TaskInv, TaskKept, Excused
    <2> QED BY <2>3, <2>4, <2>5 DEF TaskInv
  <1> QED BY <1>1, <1>2, <1>3, <1>4, <1>5, <1>7, <1>8, <1>9, <1>10 DEF DeleteStep

(* The new snapshot of a merge of stage 0: nothing is known of it elsewhere. *)
LEMMA NewTasks ==
  ASSUME TypeInv, TaskInv, NEW s \in Snap, merge[s].stage = "stage0",
         host'[merge[s].new] \in {"none", "backuping"},
         \A x \in Snap : x \in row' <=> host'[x] # "none",
         host'[merge[s].new] = "backuping" => deleting'[merge[s].new],
         host'[merge[s].new] = "none" => ~deleting'[merge[s].new],
         \A x \in Snap \ {merge[s].new} : host'[x] = host[x] /\ deleting'[x] = deleting[x],
         UNCHANGED <<merged, deleted, collect, del, merge, cut>>,
         worker.pc \notin {"create_task", "collect_new"},
         image' \in {image, image \cup {merge[s].new}}
  PROVE  \A x \in Snap : RowSound(x)' /\ MergeSound(x)' /\ TaskKept(x)'
  <1> DEFINE n == merge[s].new
  <1>0. n \in Snap /\ (\A x \in Snap : merge[x].stage # "none" => merge[x].new \in Snap)
    BY DEF TypeInv, MergeShape
  <1>1. host[n] \in {"none", "backuping"} /\ ~HasTask(n) /\ ~merged[n] /\ ~deleted[n]
    BY <1>0 DEF TaskInv, MergeSound, RowSound
  <1>2. \A x \in Snap : HasTask(x)' <=> HasTask(x)
    BY DEF HasTask
  <1>3. \A x \in Snap : RowSound(x)'
    BY <1>0, <1>1, <1>2 DEF TaskInv, RowSound
  <1>4. \A x \in Snap : MergeSound(x)'
    <2> SUFFICES ASSUME NEW x \in Snap PROVE MergeSound(x)'
      OBVIOUS
    <2>1. x # s /\ merge[x].stage # "none" => merge[x].new # n
      BY <1>0, NullAssumption DEF TaskInv, MergeSound
    <2>2. merge[x].stage # "none" => x # n
      BY <1>1 DEF TaskInv, MergeSound
    <2> QED BY <1>0, <1>1, <1>2, <2>1, <2>2 DEF TaskInv, MergeSound
  <1>5. \A x \in Snap : TaskKept(x)'
    <2> SUFFICES ASSUME NEW x \in Snap PROVE TaskKept(x)'
      OBVIOUS
    <2>0. merge[s].stage # "finished"
      OBVIOUS
    <2>1. CASE x = n
      BY <1>0, <2>0, <2>1 DEF TaskKept
    <2>2. CASE x # n
      BY <1>0, <1>2, <2>2 DEF TaskInv, TaskKept, Excused
    <2> QED BY <2>1, <2>2
  <1> QED BY <1>3, <1>4, <1>5

LEMMA NewDropped ==
  ASSUME TypeInv, NEW n \in Snap, DropNew(n), \A x \in Snap : RowSound(x)
  PROVE  /\ host'[n] = "none" /\ ~deleting'[n]
         /\ \A x \in Snap : x \in row' <=> host'[x] # "none"
         /\ \A x \in Snap \ {n} : host'[x] = host[x] /\ deleting'[x] = deleting[x]
  BY DEF DropNew, TypeInv, TypeOK, TablesOK, RowSound

LEMMA MergeTasks == ASSUME TypeInv, TaskInv, MergeStep PROVE TaskInv'
  <1> DEFINE s == worker.snap
             n == merge[s].new
  <1>0. /\ s \in Snap /\ worker \in WorkerState /\ row \subseteq Snap
        /\ merged \in [Snap -> BOOLEAN] /\ deleting \in [Snap -> BOOLEAN]
        /\ host \in [Snap -> HostState] /\ del \in [Snap -> {"none", "pending", "finished"}]
        /\ collect \in [Snap -> [Slot -> TaskType]] /\ merge \in [Snap -> MergeTask]
        /\ worker.pc \in MergePC => merge[s].stage # "none"
        /\ \A x \in Snap : merge[x].stage # "none" => merge[x].new \in Snap
    BY DEF TypeInv, TypeOK, TablesOK, TasksOK, WorkerOK, WorkerShape, MergeShape, MergeStep,
           CreateMerge, ListMerge, RecreateNew, LockForMerge, MergeImage, UnlockAfterMerge,
           SetMergedStage1, Reparent, CreateDelete, ToStage2, FinishNew, CondemnNew, CollectNew,
           FinishMerge
  <1>a. worker.pc \in {"merge_create", "merge_list", "stage0", "merge_lock", "merging",
                       "merge_unlock", "stage1", "reparent", "merge_delete", "to_stage2",
                       "stage2", "condemn", "collect_new", "merge_finish"} => worker.ret = "idle"
    BY DEF TaskInv, WorkerSound, DeletePC, WorkerState
  <1>b. \A x \in Snap : RowSound(x)
    BY DEF TaskInv
  <1>1. CASE CreateMerge
    <2>1. /\ worker.pc = "merge_create" /\ worker'.pc = "merge_list" /\ worker'.snap = s
          /\ worker'.ret = "idle"
          /\ UNCHANGED <<row, host, merged, deleting, deleted, collect, del, image, backup, cut>>
      BY <1>0, <1>1, <1>a, GotoTyped DEF CreateMerge, WorkerPC, tables, disk
    <2>2. PICK m \in Snap :
            /\ Fresh(m) /\ backup.snap # m
            /\ merge' = [merge EXCEPT ![s] = [stage |-> "stage0", new |-> m, prev |-> parent[s]]]
      BY <1>1 DEF CreateMerge
    <2>3. /\ merge[s].stage = "none" /\ merge[s].new = NoSnap /\ host[s] = "successful" /\ deleting[s]
          /\ host[m] = "none" /\ ~HasTask(m) /\ \A x \in Snap : merge[x].new # m
      BY <1>0, <2>1, <2>2 DEF TaskInv, WorkerSound, RowSound, MergeSound, Fresh
    <2>4. /\ merge'[s].stage = "stage0" /\ merge'[s].new = m
          /\ \A x \in Snap \ {s} : merge'[x] = merge[x]
      BY <1>0, <2>2
    <2>5. WorkerSound' /\ BackupSound'
      BY <1>0, <2>1, <2>2, <2>4 DEF TaskInv, WorkerSound, BackupSound, DeletePC, MadePC
    <2>6. \A x \in Snap : HasTask(x)' <=> HasTask(x)
      BY <2>1 DEF HasTask
    <2>7. \A x \in Snap : RowSound(x)' /\ DeleteKept(x)'
      BY <2>1, <2>6 DEF TaskInv, RowSound, DeleteKept
    <2>9. ASSUME NEW x \in Snap PROVE TaskKept(x)'
      <3>1. ASSUME NEW t \in Snap, merge[t].new = x, merge[t].stage # "finished"
            PROVE  merge'[t].new = x /\ merge'[t].stage # "finished"
        BY <2>3, <2>4, <3>1, NullAssumption
      <3> QED BY <2>1, <2>6, <3>1 DEF TaskInv, TaskKept, Excused
    <2>8. ASSUME NEW x \in Snap PROVE MergeSound(x)'
      <3>1. CASE x = s
        BY <1>0, <2>1, <2>3, <2>4, <2>6, <3>1 DEF MergeSound
      <3>2. CASE x # s
        <4>1. merge'[x] = merge[x] /\ merge[x].new # m /\ MergeSound(x)
          BY <2>3, <2>4, <3>2 DEF TaskInv
        <4>2. \A t \in Snap : merge'[t].new = merge[x].new /\ merge[x].new # NoSnap => t = x
          BY <2>3, <2>4, <4>1 DEF MergeSound
        <4>3. merge[x].stage # "none" => merge[x].new \in Snap
          BY <1>0
        <4> QED BY <2>1, <2>6, <4>1, <4>2, <4>3 DEF MergeSound
      <3> QED BY <3>1, <3>2
    <2> QED BY <2>5, <2>7, <2>8, <2>9 DEF TaskInv
  <1>2. CASE ListMerge
    <2>1. /\ worker.pc = "merge_list" /\ worker'.pc = "stage0" /\ worker'.snap = s
          /\ worker'.ret = "idle" /\ UNCHANGED <<tables, collect, del, merge, disk, backup, cut>>
      BY <1>0, <1>2, <1>a, GotoTyped DEF ListMerge, WorkerPC
    <2>2. WorkerSound'
      BY <2>1 DEF TaskInv, WorkerSound, DeletePC, MadePC
    <2> QED BY <2>1, <2>2, WorkerMove DEF tables, disk
  <1>3. CASE RecreateNew
    <2>0. worker.pc = "stage0" /\ merge[s].stage = "stage0" /\ n \in Snap
      BY <1>0, <1>3 DEF RecreateNew, TaskInv, WorkerSound
    <2>1. CASE worker' = Idle /\ UNCHANGED tables
      <3>1. WorkerSound'
        BY <2>1, AtRest DEF Idle
      <3> QED BY <1>3, <2>0, <2>1, <3>1, WorkerMove DEF RecreateNew, tables, tasks, disk
    <2>2. CASE /\ row' = row \cup {n}
               /\ host' = [host EXCEPT ![n] = "backuping"]
               /\ deleting' = [deleting EXCEPT ![n] = TRUE]
               /\ Goto("merge_lock")
               /\ UNCHANGED <<merged, deleted>>
      <3>1. worker'.pc = "merge_lock" /\ worker'.snap = s /\ worker'.ret = "idle"
        BY <1>0, <1>a, <2>0, <2>2, GotoTyped DEF WorkerPC
      <3>2. /\ host'[n] = "backuping" /\ deleting'[n]
            /\ \A x \in Snap \ {n} : host'[x] = host[x] /\ deleting'[x] = deleting[x]
            /\ \A x \in Snap : x \in row' <=> host'[x] # "none"
        BY <1>0, <1>b, <2>0, <2>2 DEF RowSound
      <3>3. UNCHANGED <<merged, deleted, collect, del, merge, image, backup, cut>>
        BY <1>3, <2>2 DEF RecreateNew, tasks, disk
      <3>4. \A x \in Snap : RowSound(x)' /\ MergeSound(x)' /\ TaskKept(x)'
        BY <1>0, <2>0, <3>2, <3>3, NewTasks
      <3>5. WorkerSound'
        BY <2>0, <3>1, <3>2, <3>3 DEF WorkerSound, DeletePC, MadePC
      <3>6. BackupSound'
        BY <1>0, <3>2, <3>3 DEF TaskInv, BackupSound, TypeInv, ClientShape
      <3>7. \A x \in Snap : DeleteKept(x)'
        BY <2>0, <3>1, <3>3 DEF TaskInv, DeleteKept
      <3> QED BY <3>4, <3>5, <3>6, <3>7 DEF TaskInv
    <2> QED BY <1>3, <2>1, <2>2 DEF RecreateNew
  <1>4. ASSUME worker.pc \in MadePC, DropNew(n), worker' = Idle,
               UNCHANGED <<merged, deleted, tasks, backup, cut>>, image' \in {image, image \cup {n}}
        PROVE  TaskInv'
    <2>0. merge[s].stage = "stage0" /\ n \in Snap
      BY <1>0, <1>4 DEF TaskInv, WorkerSound
    <2>1. /\ host'[n] = "none" /\ ~deleting'[n]
          /\ \A x \in Snap : x \in row' <=> host'[x] # "none"
          /\ \A x \in Snap \ {n} : host'[x] = host[x] /\ deleting'[x] = deleting[x]
      <3>1. \A x \in Snap : RowSound(x)
        BY DEF TaskInv
      <3>2. DropNew(n)
        BY <1>4
      <3> HIDE DEF n
      <3> QED BY <2>0, <3>1, <3>2, NewDropped
    <2>2. \A x \in Snap : RowSound(x)' /\ MergeSound(x)' /\ TaskKept(x)'
      <3>1. /\ UNCHANGED <<merged, deleted, collect, del, merge, cut>>
            /\ worker.pc \notin {"create_task", "collect_new"}
            /\ image' \in {image, image \cup {n}}
        BY <1>4 DEF tasks, MadePC
      <3>2. /\ host'[n] \in {"none", "backuping"}
            /\ host'[n] = "backuping" => deleting'[n]
            /\ host'[n] = "none" => ~deleting'[n]
        BY <2>1
      <3> QED BY <1>0, <2>0, <2>1, <3>1, <3>2, NewTasks
    <2>3. WorkerSound' /\ worker'.pc = "idle"
      BY <1>4, AtRest DEF Idle
    <2>4. BackupSound'
      BY <1>0, <1>4, <2>0, <2>1 DEF TaskInv, BackupSound, TypeInv, ClientShape, tasks
    <2>5. \A x \in Snap : DeleteKept(x)'
      BY <1>4 DEF TaskInv, DeleteKept, MadePC, tasks
    <2> QED BY <2>2, <2>3, <2>4, <2>5 DEF TaskInv
  <1>5. CASE LockForMerge
    <2>1. /\ worker.pc = "merge_lock"
          /\ UNCHANGED <<merged, deleted, tasks, image, backup, cut>>
          /\ \/ worker' = Idle /\ UNCHANGED <<row, host, deleting>>
             \/ Goto("merging") /\ UNCHANGED <<row, host, deleting>>
             \/ worker' = Idle /\ DropNew(n)
      BY <1>5 DEF LockForMerge, disk
    <2>2. CASE worker' = Idle /\ UNCHANGED <<row, host, deleting>>
      <3>1. WorkerSound'
        BY <2>2, AtRest DEF Idle
      <3> QED BY <2>1, <2>2, <3>1, WorkerMove DEF tasks
    <2>3. CASE Goto("merging") /\ UNCHANGED <<row, host, deleting>>
      <3>1. worker'.pc = "merging" /\ worker'.snap = s /\ worker'.ret = "idle"
        BY <1>0, <1>a, <2>1, <2>3, GotoTyped DEF WorkerPC
      <3>2. WorkerSound'
        BY <2>1, <2>3, <3>1 DEF TaskInv, WorkerSound, DeletePC, MadePC, tasks
      <3> QED BY <2>1, <2>3, <3>2, WorkerMove DEF tasks
    <2>4. CASE worker' = Idle /\ DropNew(n)
      BY <1>4, <2>1, <2>4 DEF MadePC
    <2> QED BY <2>1, <2>2, <2>3, <2>4
  <1>6. CASE MergeImage
    <2>1. /\ worker.pc = "merging" /\ UNCHANGED <<merged, deleted, tasks, backup, cut>>
          /\ image' \in {image, image \cup {n}}
          /\ \/ Goto("merge_unlock") /\ UNCHANGED <<row, host, deleting>>
             \/ worker' = Idle /\ DropNew(n)
      BY <1>6 DEF MergeImage
    <2>2. CASE Goto("merge_unlock") /\ UNCHANGED <<row, host, deleting>>
      <3>1. worker'.pc = "merge_unlock" /\ worker'.snap = s /\ worker'.ret = "idle"
        BY <1>0, <1>a, <2>1, <2>2, GotoTyped DEF WorkerPC
      <3>2. WorkerSound'
        BY <2>1, <2>2, <3>1 DEF TaskInv, WorkerSound, DeletePC, MadePC, tasks
      <3>3. merge[s].stage = "stage0" /\ n \in Snap /\ ~merged[n]
        BY <1>0, <1>b, <2>1 DEF TaskInv, WorkerSound, MadePC, RowSound
      <3>4. \A x \in Snap : RowSound(x)' /\ MergeSound(x)' /\ DeleteKept(x)' /\ TaskKept(x)'
        BY <2>1, <2>2, <3>1, <3>3
           DEF TaskInv, RowSound, MergeSound, DeleteKept, TaskKept, Excused, HasTask, tasks
      <3>5. BackupSound'
        BY <2>1, <2>2 DEF TaskInv, BackupSound, tasks
      <3> QED BY <3>2, <3>4, <3>5 DEF TaskInv
    <2>3. CASE worker' = Idle /\ DropNew(n)
      BY <1>4, <2>1, <2>3 DEF MadePC
    <2> QED BY <2>1, <2>2, <2>3
  <1>7. ASSUME NEW st \in {"stage1", "stage2", "finished"}, worker.pc \in MergePC,
               worker.pc \notin {"create_task", "collect_new", "reparent", "merge_delete"},
               merge' = [merge EXCEPT ![s].stage = st],
               st = "stage1" => host[n] = "backuping",
               st = "stage2" => merge[s].stage = "stage1" /\ merged[s],
               st = "finished" => merged[s] /\ host[n] = "successful" /\ merge[s].stage = "stage2",
               UNCHANGED <<row, host, merged, deleting, deleted, collect, del, image, backup, cut>>,
               st = "finished" => worker'.pc = "idle"
        PROVE  BackupSound' /\ \A x \in Snap : RowSound(x)' /\ MergeSound(x)' /\ DeleteKept(x)' /\ TaskKept(x)'
    <2>1. /\ merge'[s].stage = st /\ merge'[s].new = n
          /\ \A x \in Snap \ {s} : merge'[x] = merge[x]
      BY <1>0, <1>7 DEF MergeTask
    <2>2. \A x \in Snap : HasTask(x)' <=> HasTask(x)
      BY <1>7 DEF HasTask
    <2>3. \A x \in Snap : MergeSound(x)'
      BY <1>0, <1>7, <2>1, <2>2 DEF TaskInv, MergeSound
    <2>4. \A x \in Snap : RowSound(x)' /\ DeleteKept(x)'
      BY <1>7, <2>2 DEF TaskInv, RowSound, DeleteKept
    <2>5. \A x \in Snap : TaskKept(x)'
      BY <1>0, <1>7, <2>1, <2>2 DEF TaskInv, TaskKept, Excused
    <2>6. BackupSound'
      BY <1>7, <2>1 DEF TaskInv, BackupSound
    <2> QED BY <2>3, <2>4, <2>5, <2>6
  <1>8. CASE UnlockAfterMerge
    <2>1. /\ worker.pc = "merge_unlock" /\ worker'.pc = "stage1" /\ worker'.snap = s
          /\ worker'.ret = "idle" /\ merge' = [merge EXCEPT ![s].stage = "stage1"]
          /\ UNCHANGED <<row, host, merged, deleting, deleted, collect, del, image, backup, cut>>
      BY <1>0, <1>8, <1>a, GotoTyped DEF UnlockAfterMerge, WorkerPC, tables, disk
    <2>2. host[n] = "backuping" /\ merge'[s].stage = "stage1"
      BY <1>0, <2>1 DEF TaskInv, WorkerSound, MadePC
    <2>3. WorkerSound'
      BY <2>1, <2>2 DEF WorkerSound, DeletePC, MadePC
    <2> QED BY <1>7, <2>1, <2>2, <2>3 DEF TaskInv, MergePC
  <1>9. CASE SetMergedStage1
    <2>1. /\ worker.pc = "stage1" /\ UNCHANGED <<row, host, deleting, deleted, tasks, disk, backup, cut>>
          /\ merge[s].stage = "stage1"
          /\ \/ merged[s] /\ Goto("to_stage2") /\ UNCHANGED merged
             \/ worker' = Idle /\ UNCHANGED merged
             \/ merged' = [merged EXCEPT ![s] = TRUE] /\ Goto("reparent")
      BY <1>9 DEF SetMergedStage1, TaskInv, WorkerSound
    <2>2. CASE merged[s] /\ Goto("to_stage2") /\ UNCHANGED merged
      <3>1. worker'.pc = "to_stage2" /\ worker'.snap = s /\ worker'.ret = "idle"
        BY <1>0, <1>a, <2>1, <2>2, GotoTyped DEF WorkerPC
      <3>2. WorkerSound'
        BY <2>1, <2>2, <3>1 DEF WorkerSound, DeletePC, MadePC, tasks
      <3> QED BY <2>1, <2>2, <3>2, WorkerMove DEF tasks, disk
    <2>3. CASE worker' = Idle /\ UNCHANGED merged
      <3>1. WorkerSound'
        BY <2>3, AtRest DEF Idle
      <3> QED BY <2>1, <2>3, <3>1, WorkerMove DEF tasks, disk
    <2>4. CASE merged' = [merged EXCEPT ![s] = TRUE] /\ Goto("reparent")
      <3>1. worker'.pc = "reparent" /\ worker'.snap = s /\ worker'.ret = "idle"
        BY <1>0, <1>a, <2>1, <2>4, GotoTyped DEF WorkerPC
      <3>2. WorkerSound' /\ BackupSound'
        BY <1>0, <2>1, <2>4, <3>1 DEF TaskInv, WorkerSound, BackupSound, DeletePC, MadePC, tasks
      <3>3. host[s] = "successful" /\ deleting[s]
        BY <1>0, <2>1 DEF TaskInv, MergeSound
      <3>4. \A x \in Snap : RowSound(x)' /\ MergeSound(x)' /\ DeleteKept(x)' /\ TaskKept(x)'
        BY <1>0, <2>1, <2>4, <3>1, <3>3
           DEF TaskInv, RowSound, MergeSound, DeleteKept, TaskKept, Excused, HasTask, tasks, disk
      <3> QED BY <3>2, <3>4 DEF TaskInv
    <2> QED BY <2>1, <2>2, <2>3, <2>4
  <1>10. CASE Reparent
    <2>1. /\ worker.pc = "reparent" /\ worker'.pc = "merge_delete" /\ worker'.snap = s
          /\ worker'.ret = "idle"
          /\ UNCHANGED <<row, host, merged, deleting, deleted, tasks, disk, backup, cut>>
      BY <1>0, <1>10, <1>a, GotoTyped DEF Reparent, WorkerPC
    <2>2. WorkerSound'
      BY <2>1 DEF TaskInv, WorkerSound, DeletePC, MadePC, tasks
    <2>3. \A x \in Snap : DeleteKept(x)' /\ TaskKept(x)'
      BY <2>1 DEF TaskInv, DeleteKept, TaskKept, Excused, HasTask, tasks
    <2> QED BY <2>1, <2>2, <2>3, TaskFrame DEF TaskInv, tasks, disk
  <1>11. CASE CreateDelete
    <2>1. /\ worker.pc = "merge_delete" /\ worker'.pc = "delete" /\ worker'.ret = "to_stage2"
          /\ worker'.snap = s /\ del' = [del EXCEPT ![s] = "pending"]
          /\ UNCHANGED <<row, host, merged, deleting, deleted, collect, merge, image, backup, cut>>
          /\ merged[s] /\ merge[s].stage = "stage1"
      BY <1>0, <1>11 DEF CreateDelete, WorkerState, tables, disk, TaskInv, WorkerSound
    <2>2. WorkerSound' /\ BackupSound'
      BY <1>0, <2>1 DEF TaskInv, WorkerSound, BackupSound, DeletePC, MadePC
    <2>3. \A x \in Snap : RowSound(x)' /\ MergeSound(x)' /\ DeleteKept(x)' /\ TaskKept(x)'
      BY <1>0, <2>1 DEF TaskInv, RowSound, MergeSound, DeleteKept, TaskKept, Excused, HasTask
    <2> QED BY <2>2, <2>3 DEF TaskInv
  <1>12. CASE ToStage2
    <2>1. /\ worker.pc = "to_stage2" /\ worker'.pc = "stage2" /\ worker'.snap = s
          /\ worker'.ret = "idle" /\ merge' = [merge EXCEPT ![s].stage = "stage2"]
          /\ UNCHANGED <<row, host, merged, deleting, deleted, collect, del, image, backup, cut>>
          /\ merged[s] /\ merge[s].stage = "stage1"
      BY <1>0, <1>12, <1>a, GotoTyped DEF ToStage2, WorkerPC, tables, disk, TaskInv, WorkerSound
    <2>2. merge'[s].stage = "stage2"
      BY <1>0, <2>1
    <2>3. WorkerSound'
      BY <2>1, <2>2 DEF WorkerSound, DeletePC, MadePC
    <2> QED BY <1>7, <2>1, <2>3 DEF TaskInv, MergePC
  <1>13. CASE FinishNew
    <2>1. /\ worker.pc = "stage2" /\ worker'.pc = "condemn" /\ worker'.snap = s
          /\ worker'.ret = "idle" /\ n \in Snap /\ merge[s].stage = "stage2"
          /\ UNCHANGED <<row, merged, deleted, tasks, disk, backup, cut>>
          /\ host[n] \in {"backuping", "successful"}
          /\ \/ /\ host[n] = "backuping"
                /\ host' = [host EXCEPT ![n] = "successful"]
                /\ deleting' = [deleting EXCEPT ![n] = FALSE]
             \/ host[n] # "backuping" /\ UNCHANGED <<host, deleting>>
      BY <1>0, <1>13, <1>a, GotoTyped DEF FinishNew, WorkerPC, TaskInv, WorkerSound, MergeSound, MergePC
    <2>2. WorkerSound'
      BY <1>0, <2>1 DEF WorkerSound, DeletePC, MadePC, tasks
    <2>3. ~merged[n] \/ UNCHANGED <<host, deleting>>
      BY <2>1 DEF TaskInv, RowSound
    <2>4. \A x \in Snap : HasTask(x)' <=> HasTask(x)
      BY <2>1 DEF HasTask, tasks
    <2>5. host[n] = "backuping" => ~HasTask(n)
      BY <1>0, <2>1 DEF TaskInv, MergeSound
    <2>6. \A x \in Snap : RowSound(x)' /\ DeleteKept(x)' /\ TaskKept(x)'
      BY <1>0, <2>1, <2>3, <2>4, <2>5 DEF TaskInv, RowSound, DeleteKept, TaskKept, Excused, tasks, disk
    <2>7. \A x \in Snap \ {s} : merge[x].stage # "none" => merge[x].new # n
      BY <1>0, <2>1, NullAssumption DEF TaskInv, MergeSound
    <2>8. \A x \in Snap : MergeSound(x)'
      BY <1>0, <2>1, <2>4, <2>7 DEF TaskInv, MergeSound, tasks
    <2>9. BackupSound'
      BY <1>0, <2>1 DEF TaskInv, BackupSound, TypeInv, ClientShape, tasks
    <2> QED BY <2>2, <2>6, <2>8, <2>9 DEF TaskInv
  <1>14. CASE CondemnNew
    <2>1. /\ worker.pc = "condemn" /\ worker'.snap = s /\ worker'.ret = "idle"
          /\ worker'.pc = IF deleting[n] THEN "merge_finish" ELSE "collect_new"
          /\ n \in Snap /\ merge[s].stage = "stage2" /\ host[n] = "successful"
          /\ deleting' = [deleting EXCEPT ![n] = TRUE]
          /\ UNCHANGED <<row, host, merged, deleted, tasks, disk, backup, cut>>
      BY <1>0, <1>14, <1>a, GotoTyped DEF CondemnNew, WorkerPC, TaskInv, WorkerSound, MergePC
    <2>2. WorkerSound'
      BY <1>0, <2>1 DEF TaskInv, WorkerSound, DeletePC, MadePC, tasks
    <2>3. \A x \in Snap : HasTask(x)' <=> HasTask(x)
      BY <2>1 DEF HasTask, tasks
    <2>4. \A x \in Snap : RowSound(x)' /\ DeleteKept(x)' /\ TaskKept(x)'
      BY <1>0, <2>1, <2>3 DEF TaskInv, RowSound, DeleteKept, TaskKept, Excused, tasks, disk
    <2>5. \A x \in Snap : MergeSound(x)'
      BY <1>0, <2>1, <2>3 DEF TaskInv, MergeSound, tasks
    <2>6. BackupSound'
      BY <2>1 DEF TaskInv, BackupSound, tasks
    <2> QED BY <2>2, <2>4, <2>5, <2>6 DEF TaskInv
  <1>15. CASE CollectNew
    <2>1. /\ worker.pc = "collect_new" /\ worker'.pc = "merge_finish" /\ worker'.snap = s
          /\ worker'.ret = "idle" /\ n \in Snap /\ host[n] = "successful" /\ deleting[n]
          /\ collect' = [collect EXCEPT ![n]["expire"] = "merge"]
          /\ UNCHANGED <<row, host, merged, deleting, deleted, del, merge, image, backup, cut>>
      BY <1>0, <1>15, <1>a, GotoTyped
         DEF CollectNew, WorkerPC, tables, disk, TaskInv, WorkerSound, MergePC
    <2>2. HasTask(n)' /\ \A x \in Snap \ {n} : HasTask(x)' <=> HasTask(x)
      BY <1>0, <2>1 DEF HasTask, Slot
    <2>3. WorkerSound' /\ BackupSound'
      BY <2>1 DEF TaskInv, WorkerSound, BackupSound, DeletePC, MadePC
    <2>4. \A x \in Snap : RowSound(x)' /\ DeleteKept(x)' /\ TaskKept(x)'
      BY <1>0, <2>1, <2>2 DEF TaskInv, RowSound, DeleteKept, TaskKept, Excused
    <2>5. \A x \in Snap : MergeSound(x)'
      BY <1>0, <2>1, <2>2 DEF TaskInv, MergeSound
    <2> QED BY <2>3, <2>4, <2>5 DEF TaskInv
  <1>16. CASE FinishMerge
    <2>1. /\ worker.pc = "merge_finish" /\ worker' = Idle
          /\ merge' = [merge EXCEPT ![s].stage = "finished"]
          /\ UNCHANGED <<row, host, merged, deleting, deleted, collect, del, image, backup, cut>>
          /\ merged[s] /\ merge[s].stage = "stage2" /\ host[n] = "successful"
      BY <1>0, <1>16 DEF FinishMerge, tables, disk, TaskInv, WorkerSound, MergeSound
    <2>2. WorkerSound' /\ worker'.pc = "idle"
      BY <2>1, AtRest DEF Idle
    <2> QED BY <1>7, <2>1, <2>2 DEF TaskInv, MergePC
  <1> QED BY <1>1, <1>2, <1>3, <1>5, <1>6, <1>8, <1>9, <1>10, <1>11, <1>12, <1>13, <1>14, <1>15,
             <1>16 DEF MergeStep

LEMMA WorkerTasks == ASSUME TypeInv, TaskInv, WorkerStep PROVE TaskInv'
  <1> DEFINE s == worker.snap
  <1>0. /\ worker \in WorkerState /\ deleting \in [Snap -> BOOLEAN]
        /\ collect \in [Snap -> [Slot -> TaskType]]
        /\ \A x \in Snap : merge[x].stage # "none" => merge[x].new \in Snap
    BY DEF TypeInv, TypeOK, TablesOK, TasksOK, WorkerOK, MergeShape
  <1>1. CASE SetDeleting
    <2>1. /\ worker.pc = "set_deleting" /\ worker'.pc = "create_task" /\ worker'.snap = s
          /\ worker'.ret = "idle" /\ host[s] = "successful" /\ s \in Snap
          /\ deleting' = [deleting EXCEPT ![s] = TRUE]
          /\ UNCHANGED <<row, host, merged, deleted, tasks, disk, backup, cut>>
      BY <1>0, <1>1, GotoTyped DEF SetDeleting, WorkerPC, TypeInv, WorkerShape, TaskInv, WorkerSound,
         DeletePC, WorkerState
    <2>2. WorkerSound' /\ BackupSound'
      BY <1>0, <2>1 DEF TaskInv, WorkerSound, BackupSound, DeletePC, MadePC, tasks
    <2>3. \A x \in Snap : HasTask(x)' <=> HasTask(x)
      BY <2>1 DEF HasTask, tasks
    <2>4. \A x \in Snap : RowSound(x)' /\ MergeSound(x)' /\ DeleteKept(x)' /\ TaskKept(x)'
      BY <1>0, <2>1, <2>3
         DEF TaskInv, RowSound, MergeSound, DeleteKept, TaskKept, Excused, tasks, disk
    <2> QED BY <2>2, <2>4 DEF TaskInv
  <1>2. CASE CreateTask
    <2>0. PICK z \in Snap : z = worker.snap
      BY <1>2 DEF CreateTask, TypeInv, WorkerShape
    <2>1. /\ worker.pc = "create_task" /\ worker' = Idle
          /\ host[z] = "successful" /\ deleting[z]
          /\ collect' = [collect EXCEPT ![z]["expire"] = "merge"]
          /\ UNCHANGED <<row, host, merged, deleting, deleted, del, merge, image, backup, cut>>
      BY <1>2, <2>0 DEF CreateTask, TaskInv, WorkerSound, tables, disk
    <2>2. HasTask(z)' /\ \A x \in Snap \ {z} : HasTask(x)' <=> HasTask(x)
      BY <1>0, <2>1 DEF HasTask, Slot
    <2>3. WorkerSound' /\ BackupSound'
      BY <2>1, AtRest DEF Idle, TaskInv, BackupSound
    <2>4. \A x \in Snap : RowSound(x)' /\ DeleteKept(x)'
      BY <1>0, <2>1, <2>2 DEF TaskInv, RowSound, DeleteKept
    <2>5. ASSUME NEW x \in Snap PROVE TaskKept(x)'
      BY <2>0, <2>1, <2>2 DEF TaskInv, TaskKept, Excused
    <2>6. ASSUME NEW x \in Snap PROVE MergeSound(x)'
      <3>1. merge[x].stage # "none" => merge[x].new \in Snap
        BY <1>0
      <3>2. MergeSound(x)
        BY DEF TaskInv
      <3> QED BY <2>1, <2>2, <3>1, <3>2 DEF MergeSound
    <2> QED BY <2>3, <2>4, <2>5, <2>6 DEF TaskInv
  <1>3. CASE UnlockFilesByPrefix
    <2>1. /\ worker.pc = "start" /\ worker' = Idle
          /\ UNCHANGED <<tables, tasks, disk, backup, cut>>
      BY <1>3 DEF UnlockFilesByPrefix
    <2>2. WorkerSound'
      BY <2>1, AtRest DEF Idle
    <2> QED BY <2>1, <2>2, WorkerMove DEF tables, tasks, disk
  <1> QED BY <1>1, <1>2, <1>3, DeleteTasks, MergeTasks DEF WorkerStep

(* A restart leaves half done exactly what HalfDone says. *)
LEMMA CrashTasks == ASSUME TypeInv, TaskInv, Crash PROVE TaskInv'
  <1>0. /\ host \in [Snap -> HostState] /\ backup \in BackupState
        /\ backup.pc # "idle" => backup.snap \in Snap
        /\ \A x \in Snap : merge[x].stage # "none" => merge[x].new \in Snap
    BY DEF TypeInv, TypeOK, TablesOK, ClientsOK, ClientShape, MergeShape
  <1>1. /\ UNCHANGED <<row, merged, deleting, deleted, tasks, disk>>
        /\ worker'.pc = "start" /\ worker'.ret = "idle" /\ cut' = cut \cup HalfDone
        /\ \/ UNCHANGED host /\ backup' \in {backup, IdleBackup}
           \/ /\ backup.pc = "created" /\ backup' = IdleBackup
              /\ host' = [host EXCEPT ![backup.snap] = "failed"]
    BY DEF Crash, Idle
  <1>2. WorkerSound' /\ BackupSound'
    BY <1>1, AtRest DEF TaskInv, BackupSound, IdleBackup, tasks
  <1>3. \A x \in Snap : HasTask(x)' <=> HasTask(x)
    BY <1>1 DEF HasTask, tasks
  <1>4. \A x \in Snap : DeleteKept(x)'
    BY <1>1 DEF TaskInv, DeleteKept, HalfDone, tasks
  <1>5. \A x \in Snap : Excused(x) => x \in cut'
    BY <1>1 DEF Excused, HalfDone
  <1>6. backup.pc = "created" =>
          /\ host[backup.snap] = "backuping"
          /\ \A t \in Snap : merge[t].new # backup.snap
    BY DEF TaskInv, BackupSound
  <1>7. \A x \in Snap : RowSound(x)' /\ TaskKept(x)'
    <2> SUFFICES ASSUME NEW x \in Snap PROVE RowSound(x)' /\ TaskKept(x)'
      OBVIOUS
    <2>1. RowSound(x)'
      BY <1>0, <1>1, <1>3, <1>6 DEF TaskInv, RowSound, tasks, disk
    <2>2. TaskKept(x)'
      BY <1>0, <1>1, <1>3, <1>5, <1>6 DEF TaskInv, TaskKept, Excused, tasks
    <2> QED BY <2>1, <2>2
  <1>8. \A x \in Snap : MergeSound(x)'
    BY <1>0, <1>1, <1>3, <1>6 DEF TaskInv, MergeSound, tasks
  <1> QED BY <1>2, <1>4, <1>7, <1>8 DEF TaskInv

(* What the rows, the tasks, the images and the worker know of each other holds *)
(* in every reachable state.                                                 *)
THEOREM TasksInvariant == Spec => []TaskInv
  <1>1. TaskInv /\ TypeInv /\ [Next]_vars => TaskInv'
    <2> SUFFICES ASSUME TaskInv, TypeInv, [Next]_vars PROVE TaskInv'
      OBVIOUS
    <2>1. CASE UNCHANGED vars
      BY <2>1, TaskFrame DEF vars, tables, tasks, disk, TaskInv
    <2> QED BY <2>1, BackupTasks, ReaderTasks, PickTasks, WorkerTasks, CrashTasks DEF Next
  <1> QED BY <1>1, InitTasks, TypesInvariant, PTL DEF Spec

(* Space is not lost, for any number of restarts but those that come between  *)
(* set_merged and the creation of the delete task: a merged snapshot that is  *)
(* on the disk has an unfinished delete task, and only a merged snapshot is   *)
(* shown as deleted.                                                         *)
THEOREM SpaceNotLost == Spec => []NothingLeaks
  <1>1. TypeInv /\ TaskInv => NothingLeaks
    <2> SUFFICES ASSUME TypeInv, TaskInv, NEW s \in row
                 PROVE  /\ deleted[s] => merged[s]
                        /\ merged[s] /\ s \in image \ cut =>
                             \/ del[s] = "pending"
                             \/ worker.snap = s /\ worker.pc \in {"reparent", "merge_delete"}
      BY DEF NothingLeaks
    <2>1. s \in Snap /\ del[s] \in {"none", "pending", "finished"}
      BY DEF TypeInv, TypeOK, TablesOK, TasksOK
    <2> QED BY <2>1 DEF TaskInv, RowSound, DeleteKept
  <1> QED BY <1>1, TypesInvariant, TasksInvariant, PTL

(* A condemned point keeps a task until it is deleted, but for a restart      *)
(* between set_deleting and the creation of the task.                        *)
THEOREM CondemnedKeepsTask == Spec => []CondemnedHasTask
  <1>1. TypeInv /\ TaskInv => CondemnedHasTask
    <2> SUFFICES ASSUME TypeInv, TaskInv, NEW s \in row \ cut,
                        deleting[s], ~deleted[s], host[s] # "failed"
                 PROVE  \/ HasTask(s)
                        \/ worker.pc = "create_task" /\ worker.snap = s
                        \/ \E t \in Snap : merge[t].new = s /\ merge[t].stage # "finished"
      BY DEF CondemnedHasTask, HasTask
    <2>1. s \in Snap /\ host[s] \in {"backuping", "successful"}
      BY DEF TypeInv, TypeOK, TablesOK, HostState, TaskInv, RowSound
    <2>2. worker.pc = "collect_new" => worker.snap \in Snap /\ merge[worker.snap].stage = "stage2"
      BY DEF TypeInv, WorkerShape, TaskInv, WorkerSound
    <2> QED BY <2>1, <2>2 DEF TaskInv, TaskKept, Excused
  <1> QED BY <1>1, TypesInvariant, TasksInvariant, PTL

=============================================================================
