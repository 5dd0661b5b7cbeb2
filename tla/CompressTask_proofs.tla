------------------------ MODULE CompressTask_proofs ------------------------
(***************************************************************************)
(* Theorems about CompressTask, for any snapshots, files, users and restarts. *)
(***************************************************************************)
EXTENDS CompressTask, TLAPS

-----------------------------------------------------------------------------
(* THE INDUCTIVE INVARIANT.                                                  *)

Active(d) == thread.at \in {"fetched", "armed", "launched", "running"} /\ thread.cur = d

(* What the thread has shown of its task to a cancel, in each of its steps.     *)
ThreadIsKnown ==
  /\ thread.at \in {"idle", "fetched", "updating"} => task_id = None /\ ~ pid
  /\ thread.at \in {"armed", "launched"} => task_id = thread.cur /\ ~ pid
  /\ thread.at = "running" => task_id = thread.cur /\ pid
  /\ thread.at # "idle" => thread.cur \in Snapshot /\ task[thread.cur].exists
  /\ proc # None => thread.at \in {"launched", "running"} /\ proc = thread.cur
  /\ thread.at \in {"launched", "running"} => task[thread.cur].lines < Slices

(* While a cancel waits, the thread cannot take the next task.                 *)
WaitHoldsLock ==
  /\ \A u \in User : user[u].at = "waiting" => lock = u
  /\ lock # None => thread.at \in {"idle", "running", "updating"}

(* Names tell the users apart; only a cancel has a current file.               *)
UsersAreNamed ==
  /\ \A u \in Reader : user[u].name = u
  /\ user[Worker].name \in {"cdp_merge", "delete"}
  /\ \A u \in User : user[u].cur # None <=> user[u].at \in {"cancelling", "waiting"}

(* A reference on the file the thread works on belongs to a user that has yet    *)
(* to cancel, or that cancelled too early.                                   *)
Told(u, d) == user[u].cur = d \/ <<u, d>> \in unseen

ReferencesAreTold ==
  \A d \in Snapshot : Active(d) =>
    \A nm \in refs[d] : \E u \in User : user[u].at # "idle" /\ user[u].name = nm /\ Told(u, d)

(* next_start_lines counts slices that were compressed.                       *)
LinesAreDone ==
  /\ \A d \in Snapshot : 1 .. task[d].lines \subseteq done[d]
  /\ thread.at \in {"launched", "running"} /\ proc = None /\ thread.ok
       => task[thread.cur].lines + 1 \in done[thread.cur]

DeletesCondemned ==
  \A u \in User : user[u].name = "delete" =>
    user[u].todo \subseteq condemned /\ user[u].cur \in condemned \cup {None}

IInv == /\ TypeOK /\ ThreadIsKnown /\ WaitHoldsLock /\ UsersAreNamed
        /\ ReferencesAreTold /\ LinesAreDone /\ DeletesCondemned /\ CompletedIsDone

-----------------------------------------------------------------------------
(* TYPES OF THE PARTS.                                                       *)

LEMMA IdleTyped ==
  ASSUME NEW u \in User
  PROVE  Idle(u) \in Use /\ Idle(u).at = "idle" /\ Idle(u).cur = None /\ Idle(u).todo = {}
         /\ (u \in Reader => Idle(u).name = u) /\ (u = Worker => Idle(u).name = "delete")
  BY UserAssumption DEF Idle, Use, UserAt, Name, User

LEMMA AsleepTyped == Asleep \in Run /\ Asleep.at = "idle"
  BY DEF Asleep, Run, ThreadAt

LEMMA NoneIsNoSnapshot == None \notin Snapshot /\ None \notin User
  BY UserAssumption DEF None, Snapshot

-----------------------------------------------------------------------------
THEOREM InitIInv == Init => IInv
  <1> SUFFICES ASSUME Init PROVE IInv
    OBVIOUS
  <1>1. Slices \in Nat /\ 0 \in 0 .. Slices /\ 0 \in 0 .. MaxRestarts
    BY SliceAssumption, BoundAssumption
  <1>0. 0 \in 0 .. Looks + 1
    BY LooksAssumption
  <1>2. task \in [Snapshot -> TaskRow] /\ thread \in Run
    BY <1>0, <1>1, AsleepTyped DEF Init, Quiet, TaskRow
  <1>3. user \in [User -> Use]
    BY IdleTyped DEF Init, Quiet
  <1>4. TypeOK
    BY <1>1, <1>2, <1>3 DEF Init, Quiet, TypeOK
  <1>5. ThreadIsKnown /\ LinesAreDone /\ CompletedIsDone
    BY <1>1, AsleepTyped DEF Init, Quiet, ThreadIsKnown, LinesAreDone, CompletedIsDone
  <1>6. WaitHoldsLock /\ UsersAreNamed /\ ReferencesAreTold /\ DeletesCondemned
    BY AsleepTyped, IdleTyped DEF Init, Quiet, WaitHoldsLock, UsersAreNamed, ReferencesAreTold, Active, DeletesCondemned, User
  <1> QED BY <1>4, <1>5, <1>6 DEF IInv

-----------------------------------------------------------------------------
(* WHAT THE OPERATIONS WRITE.                                                *)

LEMMA TaskTyped ==
  ASSUME TypeOK, NEW d \in Snapshot
  PROVE  /\ task[d].exists \in BOOLEAN /\ task[d].completed \in BOOLEAN
         /\ task[d].lines \in 0 .. Slices /\ task[d].postponed \in 0 .. Looks + 1
  BY DEF TypeOK, TaskRow

LEMMA ThreadTyped ==
  ASSUME TypeOK
  PROVE  thread.at \in ThreadAt /\ thread.cur \in Snapshot \cup {None} /\ thread.ok \in BOOLEAN
  BY DEF TypeOK, Run

LEMMA UserTyped ==
  ASSUME TypeOK, NEW u \in User
  PROVE  /\ user[u].at \in UserAt /\ user[u].name \in Name
         /\ user[u].todo \subseteq Snapshot /\ user[u].cur \in Snapshot \cup {None}
  BY DEF TypeOK, Use

(* The thread goes on. *)
LEMMA ThreadMoves ==
  ASSUME TypeOK, NEW at \in ThreadAt, thread' = [thread EXCEPT !.at = at]
  PROVE  thread' \in Run /\ thread'.at = at /\ thread'.cur = thread.cur /\ thread'.ok = thread.ok
  BY DEF TypeOK, Run

LEMMA GiveUpWrites ==
  ASSUME TypeOK, thread.cur \in Snapshot, GiveUp
  PROVE  /\ task' \in [Snapshot -> TaskRow] /\ thread' \in Run /\ thread'.at = "idle"
         /\ task_id' = None /\ pid' = FALSE
         /\ \A d \in Snapshot : task'[d].exists = task[d].exists /\ task'[d].completed = task[d].completed
                                /\ task'[d].lines = task[d].lines
  <1>1. Looks + 1 \in 0 .. Looks + 1
    BY LooksAssumption
  <1> QED BY <1>1, AsleepTyped DEF TypeOK, TaskRow, GiveUp, Clear

LEMMA CompletedIsSet ==
  ASSUME TypeOK, NEW d \in Snapshot, NEW b \in BOOLEAN, task' = [task EXCEPT ![d].completed = b]
  PROVE  /\ task' \in [Snapshot -> TaskRow]
         /\ \A e \in Snapshot : task'[e].exists = task[e].exists /\ task'[e].lines = task[e].lines
         /\ \A e \in Snapshot \ {d} : task'[e].completed = task[e].completed
         /\ task'[d].completed = b
  BY DEF TypeOK, TaskRow

(* A user moves to another row. *)
LEMMA UserMoves ==
  ASSUME TypeOK, NEW u \in User, NEW row \in Use, user' = [user EXCEPT ![u] = row]
  PROVE  user' \in [User -> Use] /\ user'[u] = row /\ \A v \in User \ {u} : user'[v] = user[v]
  BY DEF TypeOK

LEMMA BeginsWrites ==
  ASSUME TypeOK, NEW u \in User, NEW name \in Name, NEW files \in SUBSET Snapshot, Begins(u, name, files)
  PROVE  /\ user' \in [User -> Use] /\ \A v \in User \ {u} : user'[v] = user[v]
         /\ user'[u].at = "locking" /\ user'[u].name = name /\ user'[u].todo = files /\ user'[u].cur = None
  <1> DEFINE row == [at |-> "locking", name |-> name, todo |-> files, cur |-> None]
  <1>1. row \in Use
    BY DEF Use, UserAt
  <1>2. user' = [user EXCEPT ![u] = row]
    BY DEF Begins
  <1> HIDE DEF row
  <1>3. user' \in [User -> Use] /\ user'[u] = row /\ \A v \in User \ {u} : user'[v] = user[v]
    BY <1>1, <1>2, UserMoves
  <1> QED BY <1>3 DEF row

LEMMA LockFileWrites ==
  ASSUME TypeOK, NEW u \in User, NEW d \in Snapshot, LockFile(u, d)
  PROVE  /\ user' \in [User -> Use] /\ \A v \in User \ {u} : user'[v] = user[v]
         /\ user'[u].at = "cancelling" /\ user'[u].name = user[u].name
         /\ user'[u].todo = user[u].todo \ {d} /\ user'[u].cur = d
         /\ refs' \in [Snapshot -> SUBSET Name]
         /\ \A e \in Snapshot \ {d} : refs'[e] = refs[e]
         /\ refs'[d] = refs[d] \cup {user[u].name}
  <1> DEFINE row == [user[u] EXCEPT !.at = "cancelling", !.cur = d, !.todo = @ \ {d}]
  <1>1. row \in Use /\ row.at = "cancelling" /\ row.name = user[u].name
          /\ row.todo = user[u].todo \ {d} /\ row.cur = d
    BY DEF TypeOK, Use, UserAt
  <1>2. user' = [user EXCEPT ![u] = row]
    BY DEF LockFile
  <1> HIDE DEF row
  <1>3. user' \in [User -> Use] /\ user'[u] = row /\ \A v \in User \ {u} : user'[v] = user[v]
    BY <1>1, <1>2, UserMoves
  <1>4. user[u].name \in Name
    BY UserTyped
  <1>5. /\ refs' \in [Snapshot -> SUBSET Name]
        /\ \A e \in Snapshot \ {d} : refs'[e] = refs[e]
        /\ refs'[d] = refs[d] \cup {user[u].name}
    BY <1>4 DEF LockFile, TypeOK
  <1> QED BY <1>1, <1>3, <1>5

LEMMA ReleaseWrites ==
  ASSUME TypeOK, NEW u \in User, Release(u)
  PROVE  /\ user' \in [User -> Use] /\ \A v \in User \ {u} : user'[v] = user[v]
         /\ user'[u] = Idle(u)
         /\ refs' \in [Snapshot -> SUBSET Name]
         /\ \A e \in Snapshot : refs'[e] = refs[e] \ {user[u].name}
         /\ unseen' \subseteq User \X Snapshot
         /\ \A v \in User \ {u}, e \in Snapshot : <<v, e>> \in unseen => <<v, e>> \in unseen'
         /\ disk_lock' \in User \cup {None}
  <1>1. Idle(u) \in Use /\ user' = [user EXCEPT ![u] = Idle(u)]
    BY IdleTyped DEF Release
  <1>2. user' \in [User -> Use] /\ user'[u] = Idle(u) /\ \A v \in User \ {u} : user'[v] = user[v]
    BY <1>1, UserMoves
  <1>3. refs' \in [Snapshot -> SUBSET Name] /\ \A e \in Snapshot : refs'[e] = refs[e] \ {user[u].name}
    BY DEF Release, TypeOK
  <1>4. unseen' \subseteq User \X Snapshot
    BY DEF Release, TypeOK
  <1>5. ASSUME NEW v \in User \ {u}, NEW e \in Snapshot, <<v, e>> \in unseen PROVE <<v, e>> \in unseen'
    <2>1. <<v, e>>[1] = v
      OBVIOUS
    <2> QED BY <1>5, <2>1 DEF Release
  <1>6. disk_lock' \in User \cup {None}
    BY DEF Release, TypeOK
  <1> QED BY <1>2, <1>3, <1>4, <1>5, <1>6

LEMMA GoOnWrites ==
  ASSUME TypeOK, NEW u \in User, user[u].cur \in Snapshot, GoOn(u)
  PROVE  /\ user' \in [User -> Use] /\ \A v \in User \ {u} : user'[v] = user[v]
         /\ user'[u].at \in {"using", "locking"} /\ user'[u].name = user[u].name
         /\ user'[u].todo = user[u].todo /\ user'[u].cur = None
         /\ task' \in [Snapshot -> TaskRow]
         /\ \A e \in Snapshot : task'[e].exists = task[e].exists /\ task'[e].lines = task[e].lines
         /\ \A e \in Snapshot : task'[e].completed =>
               task[e].completed \/ (user[u].name = "delete" /\ e = user[u].cur)
         /\ disk_lock' \in User \cup {None}
  <1> DEFINE row == [user[u] EXCEPT !.at = IF user[u].todo = {} THEN "using" ELSE "locking", !.cur = None]
  <1>1. row \in Use /\ row.at \in {"using", "locking"} /\ row.name = user[u].name
          /\ row.todo = user[u].todo /\ row.cur = None
    BY DEF TypeOK, Use, UserAt
  <1>2. user' = [user EXCEPT ![u] = row]
    BY DEF GoOn
  <1> HIDE DEF row
  <1>3. user' \in [User -> Use] /\ user'[u] = row /\ \A v \in User \ {u} : user'[v] = user[v]
    BY <1>1, <1>2, UserMoves
  <1>6. disk_lock' \in User \cup {None}
    BY DEF GoOn, TypeOK
  <1>4. CASE user[u].name = "delete"
    <2> DEFINE d == user[u].cur
               b == task[d].completed \/ task[d].exists
    <2>1. task' = [task EXCEPT ![d].completed = b] /\ b \in BOOLEAN
      BY <1>4 DEF GoOn
    <2> HIDE DEF b
    <2>2. /\ task' \in [Snapshot -> TaskRow]
          /\ \A e \in Snapshot : task'[e].exists = task[e].exists /\ task'[e].lines = task[e].lines
          /\ \A e \in Snapshot \ {d} : task'[e].completed = task[e].completed
      BY <2>1, CompletedIsSet
    <2>3. /\ user'[u].at \in {"using", "locking"} /\ user'[u].name = user[u].name
          /\ user'[u].todo = user[u].todo /\ user'[u].cur = None
      BY <1>1, <1>3
    <2>4. ASSUME NEW e \in Snapshot, task'[e].completed
          PROVE  task[e].completed \/ (user[u].name = "delete" /\ e = user[u].cur)
      <3>1. CASE e = d
        BY <1>4, <3>1
      <3>2. CASE e # d
        <4>1. task'[e].completed = task[e].completed
          BY <2>2, <3>2
        <4> QED BY <2>4, <4>1
      <3> QED BY <3>1, <3>2
    <2> QED BY <1>3, <1>6, <2>2, <2>3, <2>4
  <1>5. CASE user[u].name # "delete"
    <2>1. task' = task
      BY <1>5 DEF GoOn
    <2>2. task' \in [Snapshot -> TaskRow]
      BY <2>1 DEF TypeOK
    <2>3. /\ user'[u].at \in {"using", "locking"} /\ user'[u].name = user[u].name
          /\ user'[u].todo = user[u].todo /\ user'[u].cur = None
      BY <1>1, <1>3
    <2>4. ASSUME NEW e \in Snapshot, task'[e].completed
          PROVE  task[e].completed \/ (user[u].name = "delete" /\ e = user[u].cur)
      BY <2>1, <2>4
    <2>5. \A e \in Snapshot : task'[e].exists = task[e].exists /\ task'[e].lines = task[e].lines
      BY <2>1
    <2> QED BY <1>3, <1>6, <2>2, <2>3, <2>4, <2>5
  <1> QED BY <1>4, <1>5

-----------------------------------------------------------------------------
(* EVERY STEP KEEPS THE INVARIANT.                                           *)

LEMMA CurIsSnapshot ==
  ASSUME IInv
  PROVE  /\ thread.at # "idle" => thread.cur \in Snapshot
         /\ \A u \in User : user[u].at \in {"cancelling", "waiting"} => user[u].cur \in Snapshot
  BY UserTyped DEF IInv, ThreadIsKnown, UsersAreNamed

LEMMA TypesKept ==
  ASSUME IInv, Next
  PROVE  TypeOK'
  <1> USE DEF taskVars, threadVars, diskVars, userVars
  <1>0. TypeOK /\ ThreadIsKnown
    BY DEF IInv
  <1>1. CASE Fetch
    <2>1. thread' \in Run
      BY <1>0, <1>1 DEF Fetch, TypeOK, Run, ThreadAt, Valid, Waiting
    <2>2. ASSUME NEW d \in Snapshot
          PROVE  task[d] \in TaskRow /\ (task[d].postponed > 1 => [task[d] EXCEPT !.postponed = @ - 1] \in TaskRow)
      <3>1. task[d].postponed > 1 => task[d].postponed - 1 \in 0 .. Looks + 1
        BY <1>0, LooksAssumption, TaskTyped
      <3> QED BY <1>0, <3>1 DEF TypeOK, TaskRow
    <2>3. task' \in [Snapshot -> TaskRow]
      BY <1>1, <2>2 DEF Fetch
    <2> QED BY <1>0, <1>1, <2>1, <2>3 DEF Fetch, TypeOK
  <1>2. CASE Begin
    <2>1. thread' \in Run
      BY <1>0, <1>2, ThreadMoves DEF Begin, ThreadAt
    <2> QED BY <1>0, <1>2, <2>1, CurIsSnapshot DEF Begin, TypeOK
  <1>3. CASE Missing \/ Fail
    <2>1. GiveUp /\ thread.cur \in Snapshot
      BY <1>3, CurIsSnapshot DEF Missing, Fail
    <2>2. task' \in [Snapshot -> TaskRow] /\ thread' \in Run /\ task_id' = None /\ pid' = FALSE
      BY <1>0, <2>1, GiveUpWrites
    <2> QED BY <1>0, <1>3, <2>2 DEF Missing, Fail, TypeOK
  <1>4. CASE NothingLeft
    <2>1. thread' \in Run
      BY <1>0, <1>4, ThreadMoves DEF NothingLeft, ThreadAt
    <2>2. task' \in [Snapshot -> TaskRow]
      BY <1>0, <1>4, CurIsSnapshot, CompletedIsSet DEF NothingLeft
    <2> QED BY <1>0, <1>4, <2>1, <2>2 DEF NothingLeft, Clear, TypeOK
  <1>5. CASE Launch
    <2>1. thread' \in Run
      BY <1>0, <1>5, ThreadMoves DEF Launch, ThreadAt
    <2> QED BY <1>0, <1>5, <2>1, ThreadTyped DEF Launch, TypeOK
  <1>6. CASE SetPid
    <2>1. thread' \in Run
      BY <1>0, <1>6, ThreadMoves DEF SetPid, ThreadAt
    <2> QED BY <1>0, <1>6, <2>1 DEF SetPid, TypeOK
  <1>7. CASE Succeed
    <2>1. thread' \in Run
      BY <1>0, <1>7, ThreadMoves DEF Succeed, ThreadAt
    <2>2. thread.cur \in Snapshot /\ task[thread.cur].lines + 1 \in 0 .. Slices
      BY <1>0, <1>7, CurIsSnapshot, TaskTyped, SliceAssumption DEF Succeed, ThreadIsKnown
    <2>3. task' \in [Snapshot -> TaskRow]
      BY <1>0, <1>7, <2>2 DEF Succeed, TypeOK, TaskRow
    <2> QED BY <1>0, <1>7, <2>1, <2>3 DEF Succeed, Clear, TypeOK
  <1>8. CASE Update
    <2>1. thread.cur \in Snapshot
      BY <1>8, CurIsSnapshot DEF Update
    <2>2. task' \in [Snapshot -> TaskRow]
      BY <1>0, <1>8, <2>1 DEF Update, TypeOK, TaskRow
    <2> QED BY <1>0, <1>8, <2>2, AsleepTyped DEF Update, TypeOK
  <1>9. CASE ProcEnds
    <2>1. proc \in Snapshot /\ task[proc].lines + 1 \in 1 .. Slices
      BY <1>0, <1>9, TaskTyped, SliceAssumption DEF ProcEnds, ThreadIsKnown, TypeOK
    <2>2. done' \in [Snapshot -> SUBSET (1 .. Slices)]
      BY <1>0, <1>9, <2>1 DEF ProcEnds, TypeOK
    <2>3. thread' \in Run
      BY <1>0, <1>9 DEF ProcEnds, TypeOK, Run
    <2> QED BY <1>0, <1>9, <2>2, <2>3 DEF ProcEnds, TypeOK
  <1>10. ASSUME NEW d \in Snapshot, Create(d) \/ Due(d) PROVE TypeOK'
    <2>1. CASE Create(d)
      BY <1>0, <2>1 DEF Create, TypeOK, TaskRow
    <2>2. CASE Due(d)
      BY <1>0, <2>2, LooksAssumption DEF Due, TypeOK, TaskRow
    <2> QED BY <1>10, <2>1, <2>2
  <1>11. ASSUME NEW d \in Snapshot, StartMerge(d) \/ StartDelete(d) PROVE TypeOK'
    <2>1. Worker \in User /\ "cdp_merge" \in Name /\ "delete" \in Name
      BY DEF User, Name
    <2>2. Chain(d) \subseteq Snapshot /\ {d} \subseteq Snapshot
      BY SnapshotAssumption DEF Chain, Snapshot
    <2>3. user' \in [User -> Use]
      BY <1>0, <1>11, <2>1, <2>2, BeginsWrites DEF StartMerge, StartDelete
    <2> QED BY <1>0, <1>11, <2>3 DEF StartMerge, StartDelete, Begins, TypeOK
  <1>12. ASSUME NEW u \in User, NEW d \in Snapshot, StartRead(u, d) PROVE TypeOK'
    <2>1. u \in Name
      BY <1>12 DEF StartRead, Name
    <2>2. Chain(d) \subseteq Snapshot
      BY SnapshotAssumption DEF Chain, Snapshot
    <2>3. user' \in [User -> Use]
      BY <1>0, <1>12, <2>1, <2>2, BeginsWrites DEF StartRead
    <2> QED BY <1>0, <1>12, <2>3 DEF StartRead, Begins, TypeOK
  <1>13. ASSUME NEW u \in User, NEW d \in Snapshot, LockFile(u, d) PROVE TypeOK'
    BY <1>0, <1>13, LockFileWrites DEF LockFile, TypeOK
  <1>14. ASSUME NEW u \in User, NEW d \in Snapshot, LockRefused(u, d) PROVE TypeOK'
    <2>1. Release(u)
      BY <1>14 DEF LockRefused
    <2> QED BY <1>0, <1>14, <2>1, ReleaseWrites DEF LockRefused, Release, TypeOK
  <1>15. ASSUME NEW u \in User, CancelNothing(u) PROVE TypeOK'
    <2>1. GoOn(u) /\ user[u].cur \in Snapshot
      BY <1>15, CurIsSnapshot DEF CancelNothing
    <2>2. unseen' \subseteq User \X Snapshot
      BY <1>0, <1>15, <2>1 DEF CancelNothing, TypeOK
    <2> QED BY <1>0, <1>15, <2>1, <2>2, GoOnWrites DEF CancelNothing, TypeOK
  <1>16. ASSUME NEW u \in User, CancelBegin(u) PROVE TypeOK'
    <2>1. [user[u] EXCEPT !.at = "waiting"] \in Use /\ user' = [user EXCEPT ![u] = [user[u] EXCEPT !.at = "waiting"]]
      BY <1>0, <1>16 DEF CancelBegin, TypeOK, Use, UserAt
    <2>2. user' \in [User -> Use]
      BY <1>0, <2>1, UserMoves
    <2> QED BY <1>0, <1>16, <2>2 DEF CancelBegin, TypeOK
  <1>17. ASSUME NEW u \in User, CancelEnd(u) PROVE TypeOK'
    <2>1. GoOn(u) /\ user[u].cur \in Snapshot
      BY <1>17, CurIsSnapshot DEF CancelEnd
    <2> QED BY <1>0, <1>17, <2>1, GoOnWrites DEF CancelEnd, TypeOK
  <1>18. ASSUME NEW u \in User, EndUse(u) PROVE TypeOK'
    <2>1. Release(u) /\ file' \subseteq Snapshot
      BY <1>0, <1>18 DEF EndUse, TypeOK
    <2> QED BY <1>0, <1>18, <2>1, ReleaseWrites DEF Release, TypeOK
  <1>19. CASE Restart
    <2>1. user' \in [User -> Use] /\ thread' \in Run
      BY <1>19, IdleTyped, AsleepTyped DEF Restart
    <2>2. refs' \in [Snapshot -> SUBSET Name]
      BY <1>0, <1>19 DEF Restart, TypeOK
    <2>3. restarts' \in 0 .. MaxRestarts
      BY <1>0, <1>19, BoundAssumption DEF Restart, TypeOK
    <2> QED BY <1>0, <1>19, <2>1, <2>2, <2>3 DEF Restart, Clear, TypeOK
  <1> QED BY <1>1, <1>2, <1>3, <1>4, <1>5, <1>6, <1>7, <1>8, <1>9, <1>10, <1>11, <1>12, <1>13, <1>14, <1>15,
             <1>16, <1>17, <1>18, <1>19 DEF Next, ThreadStep, UserStep, Locking

(* The users leave the thread, its lines and the history of the slices alone.   *)
UserAction ==
  \/ \E d \in Snapshot : StartMerge(d) \/ StartDelete(d)
  \/ \E u \in User : UserStep(u)

LEMMA UsersLeaveThread ==
  ASSUME IInv, UserAction
  PROVE  /\ UNCHANGED <<thread, task_id, pid, proc, done>>
         /\ \A d \in Snapshot : task'[d].exists = task[d].exists /\ task'[d].lines = task[d].lines
  <1> USE DEF taskVars, threadVars, diskVars, userVars
  <1>1. ASSUME NEW u \in User, CancelNothing(u) \/ CancelEnd(u)
        PROVE  /\ UNCHANGED <<thread, task_id, pid, proc, done>>
               /\ \A d \in Snapshot : task'[d].exists = task[d].exists /\ task'[d].lines = task[d].lines
    <2>1. GoOn(u) /\ user[u].cur \in Snapshot /\ TypeOK
      BY <1>1, CurIsSnapshot DEF CancelNothing, CancelEnd, IInv
    <2>2. \A d \in Snapshot : task'[d].exists = task[d].exists /\ task'[d].lines = task[d].lines
      BY <2>1, GoOnWrites
    <2> QED BY <1>1, <2>2 DEF CancelNothing, CancelEnd
  <1>2. ASSUME NEW u \in User, NEW d \in Snapshot, StartRead(u, d) \/ LockFile(u, d) \/ LockRefused(u, d)
                                                     \/ CancelBegin(u) \/ EndUse(u)
        PROVE  UNCHANGED <<thread, task_id, pid, proc, done, task>>
    BY <1>2 DEF StartRead, Begins, LockFile, LockRefused, Release, CancelBegin, EndUse
  <1>3. ASSUME NEW d \in Snapshot, StartMerge(d) \/ StartDelete(d)
        PROVE  UNCHANGED <<thread, task_id, pid, proc, done, task>>
    BY <1>3 DEF StartMerge, StartDelete, Begins
  <1>4. 1 \in Snapshot
    BY SnapshotAssumption DEF Snapshot
  <1> QED BY <1>1, <1>2, <1>3, <1>4 DEF UserAction, UserStep, Locking

LEMMA ThreadKept ==
  ASSUME IInv, Next
  PROVE  ThreadIsKnown'
  <1> USE DEF taskVars, threadVars, diskVars, userVars
  <1>0. TypeOK /\ ThreadIsKnown
    BY DEF IInv
  <1>1. CASE Fetch
    <2>1. \A d \in Snapshot : task'[d].exists = task[d].exists /\ task'[d].lines = task[d].lines
      BY <1>0, <1>1, TaskTyped DEF Fetch, TypeOK, TaskRow
    <2>2. CASE UNCHANGED thread
      BY <1>0, <1>1, <2>1, <2>2 DEF Fetch, ThreadIsKnown
    <2>3. CASE \E d \in Valid : thread' = [thread EXCEPT !.at = "fetched", !.cur = d]
      <3>1. thread'.at = "fetched" /\ thread'.cur \in Snapshot /\ task[thread'.cur].exists
        BY <1>0, <2>3 DEF TypeOK, Run, Valid, Waiting
      <3> QED BY <1>0, <1>1, <2>1, <3>1 DEF Fetch, ThreadIsKnown
    <2> QED BY <1>1, <2>2, <2>3 DEF Fetch
  <1>2. CASE Begin
    <2>1. thread'.at = "armed" /\ thread'.cur = thread.cur
      BY <1>0, <1>2, ThreadMoves DEF Begin, ThreadAt
    <2> QED BY <1>0, <1>2, <2>1 DEF Begin, ThreadIsKnown
  <1>3. CASE Missing \/ Fail
    <2>1. GiveUp /\ thread.cur \in Snapshot /\ proc' = None
      BY <1>0, <1>3, CurIsSnapshot DEF Missing, Fail, ThreadIsKnown
    <2> QED BY <1>0, <2>1, GiveUpWrites DEF ThreadIsKnown
  <1>4. CASE NothingLeft
    <2>1. thread'.at = "updating" /\ thread'.cur = thread.cur
      BY <1>0, <1>4, ThreadMoves DEF NothingLeft, ThreadAt
    <2>2. \A d \in Snapshot : task'[d].exists = task[d].exists
      BY <1>0, <1>4, CurIsSnapshot, CompletedIsSet DEF NothingLeft
    <2> QED BY <1>0, <1>4, <2>1, <2>2 DEF NothingLeft, Clear, ThreadIsKnown
  <1>5. CASE Launch
    <2>1. thread'.at = "launched" /\ thread'.cur = thread.cur
      BY <1>0, <1>5, ThreadMoves DEF Launch, ThreadAt
    <2> QED BY <1>0, <1>5, <2>1 DEF Launch, ThreadIsKnown
  <1>6. CASE SetPid
    <2>1. thread'.at = "running" /\ thread'.cur = thread.cur
      BY <1>0, <1>6, ThreadMoves DEF SetPid, ThreadAt
    <2> QED BY <1>0, <1>6, <2>1 DEF SetPid, ThreadIsKnown
  <1>7. CASE Succeed
    <2>1. thread'.at = "updating" /\ thread'.cur = thread.cur
      BY <1>0, <1>7, ThreadMoves DEF Succeed, ThreadAt
    <2>2. \A d \in Snapshot : task'[d].exists = task[d].exists
      BY <1>0, <1>7, CurIsSnapshot DEF Succeed, TypeOK, TaskRow
    <2> QED BY <1>0, <1>7, <2>1, <2>2 DEF Succeed, Clear, ThreadIsKnown
  <1>8. CASE Update
    BY <1>0, <1>8, AsleepTyped DEF Update, ThreadIsKnown
  <1>9. CASE ProcEnds
    <2>1. thread'.at = thread.at /\ thread'.cur = thread.cur
      BY <1>0, <1>9 DEF ProcEnds, TypeOK, Run
    <2> QED BY <1>0, <1>9, <2>1 DEF ProcEnds, ThreadIsKnown
  <1>10. ASSUME NEW d \in Snapshot, Create(d) \/ Due(d) PROVE ThreadIsKnown'
    <2>1. \A e \in Snapshot : (task[e].exists => task'[e].exists) /\ task'[e].lines = task[e].lines
      <3>1. CASE Create(d)
        BY <1>0, <3>1 DEF Create, TypeOK, TaskRow
      <3>2. CASE Due(d)
        BY <1>0, <3>2 DEF Due, TypeOK, TaskRow
      <3> QED BY <1>10, <3>1, <3>2
    <2> QED BY <1>0, <1>10, <2>1 DEF Create, Due, ThreadIsKnown
  <1>11. CASE UserAction
    BY <1>0, <1>11, UsersLeaveThread DEF ThreadIsKnown
  <1>12. CASE Restart
    BY <1>12, AsleepTyped DEF Restart, Clear, ThreadIsKnown
  <1> QED BY <1>1, <1>2, <1>3, <1>4, <1>5, <1>6, <1>7, <1>8, <1>9, <1>10, <1>11, <1>12 DEF Next, ThreadStep, UserAction

(* The thread leaves the users, their references and _compress_task_lock alone.  *)
ThreadAction == ThreadStep \/ ProcEnds \/ \E d \in Snapshot : Create(d) \/ Due(d)

LEMMA ThreadLeavesUsers ==
  ASSUME ThreadAction
  PROVE  UNCHANGED <<diskVars, userVars>>
  BY DEF ThreadAction, ThreadStep, ProcEnds, Create, Due, Fetch, Begin, Missing, NothingLeft, Launch, SetPid,
         Succeed, Fail, Update, threadVars, diskVars, userVars

LEMMA WaitKept ==
  ASSUME IInv, Next
  PROVE  WaitHoldsLock'
  <1> USE DEF threadVars, diskVars, userVars
  <1>0. TypeOK /\ WaitHoldsLock /\ UsersAreNamed
    BY DEF IInv
  <1>1. CASE ThreadAction
    <2>1. UNCHANGED <<lock, user>>
      BY <1>1, ThreadLeavesUsers
    <2>2. CASE lock = None
      BY <1>0, <2>1, <2>2 DEF WaitHoldsLock
    <2>3. CASE lock # None
      <3>1. thread'.at \in {"idle", "running", "updating"}
        <4>1. CASE NothingLeft \/ Launch \/ SetPid \/ Missing \/ Fetch \/ Begin \/ Update
          BY <1>0, <2>3, <4>1 DEF NothingLeft, Launch, SetPid, Missing, Fetch, Begin, Update, WaitHoldsLock
        <4>2. CASE Succeed
          BY <1>0, <4>2, ThreadMoves DEF Succeed, ThreadAt
        <4>3. CASE Fail
          BY <4>3, AsleepTyped DEF Fail, GiveUp
        <4>4. CASE ProcEnds
          <5>1. thread'.at = thread.at
            BY <1>0, <4>4 DEF ProcEnds, TypeOK, Run
          <5> QED BY <1>0, <2>3, <5>1 DEF WaitHoldsLock
        <4>5. CASE \E d \in Snapshot : Create(d) \/ Due(d)
          BY <1>0, <2>3, <4>5 DEF Create, Due, WaitHoldsLock
        <4> QED BY <1>1, <4>1, <4>2, <4>3, <4>4, <4>5 DEF ThreadAction, ThreadStep
      <3> QED BY <1>0, <2>1, <3>1 DEF WaitHoldsLock
    <2> QED BY <2>2, <2>3
  <1>2. ASSUME NEW u \in User, NEW name \in Name, NEW files \in SUBSET Snapshot, Begins(u, name, files)
        PROVE  WaitHoldsLock'
    <2>1. user'[u].at = "locking" /\ \A v \in User \ {u} : user'[v] = user[v]
      BY <1>0, <1>2, BeginsWrites
    <2> QED BY <1>0, <1>2, <2>1 DEF Begins, WaitHoldsLock
  <1>3. ASSUME NEW u \in User, NEW d \in Snapshot, LockFile(u, d) PROVE WaitHoldsLock'
    <2>1. user'[u].at = "cancelling" /\ \A v \in User \ {u} : user'[v] = user[v]
      BY <1>0, <1>3, LockFileWrites
    <2> QED BY <1>0, <1>3, <2>1 DEF LockFile, WaitHoldsLock
  <1>4. ASSUME NEW u \in User, Release(u) PROVE WaitHoldsLock'
    <2>1. user'[u].at = "idle" /\ \A v \in User \ {u} : user'[v] = user[v]
      BY <1>0, <1>4, ReleaseWrites, IdleTyped
    <2> QED BY <1>0, <1>4, <2>1 DEF Release, WaitHoldsLock
  <1>5. ASSUME NEW u \in User, CancelNothing(u) \/ CancelEnd(u) PROVE WaitHoldsLock'
    <2>1. GoOn(u) /\ user[u].cur \in Snapshot
      BY <1>5, CurIsSnapshot DEF CancelNothing, CancelEnd
    <2>2. user'[u].at \in {"using", "locking"} /\ \A v \in User \ {u} : user'[v] = user[v]
      BY <1>0, <2>1, GoOnWrites
    <2>3. CASE CancelNothing(u)
      BY <1>0, <2>2, <2>3 DEF CancelNothing, WaitHoldsLock
    <2>4. CASE CancelEnd(u)
      BY <1>0, <2>2, <2>4, NoneIsNoSnapshot DEF CancelEnd, WaitHoldsLock
    <2> QED BY <1>5, <2>3, <2>4
  <1>6. ASSUME NEW u \in User, CancelBegin(u) PROVE WaitHoldsLock'
    <2>1. user' = [user EXCEPT ![u].at = "waiting"] /\ lock = None /\ lock' = u /\ thread' = thread
      BY <1>6 DEF CancelBegin
    <2>2. thread.at = "running"
      <3>1. pid
        BY <1>6 DEF CancelBegin, IsRunning
      <3> QED BY <1>0, <3>1, ThreadTyped DEF IInv, ThreadIsKnown, ThreadAt
    <2>3. \A v \in User \ {u} : user'[v] = user[v]
      BY <1>0, <2>1 DEF TypeOK
    <2> QED BY <1>0, <2>1, <2>2, <2>3, NoneIsNoSnapshot DEF WaitHoldsLock
  <1>7. CASE Restart
    BY <1>7, IdleTyped DEF Restart, WaitHoldsLock
  <1>8. ASSUME NEW d \in Snapshot, StartMerge(d) \/ StartDelete(d) PROVE WaitHoldsLock'
    <2>1. Worker \in User /\ "cdp_merge" \in Name /\ "delete" \in Name /\ Chain(d) \in SUBSET Snapshot
      BY SnapshotAssumption DEF User, Name, Chain, Snapshot
    <2> QED BY <1>2, <1>8, <2>1 DEF StartMerge, StartDelete
  <1>9. ASSUME NEW u \in User, NEW d \in Snapshot, StartRead(u, d) PROVE WaitHoldsLock'
    <2>1. u \in Name /\ Chain(d) \in SUBSET Snapshot
      BY <1>9, SnapshotAssumption DEF StartRead, Name, Chain, Snapshot
    <2> QED BY <1>2, <1>9, <2>1 DEF StartRead
  <1> QED BY <1>1, <1>3, <1>4, <1>5, <1>6, <1>7, <1>8, <1>9
          DEF Next, ThreadAction, UserStep, Locking, LockRefused, EndUse

(* The three ways to begin. *)
Starts(d) == StartMerge(d) \/ StartDelete(d) \/ \E u \in User : StartRead(u, d)

LEMMA StartBegins ==
  ASSUME NEW d \in Snapshot, Starts(d)
  PROVE  \E u \in User, name \in Name, files \in SUBSET Snapshot :
           /\ Begins(u, name, files)
           /\ u \in Reader => name = u
           /\ u = Worker => name \in {"cdp_merge", "delete"}
           /\ name = "delete" => files \subseteq condemned'
           /\ condemned \subseteq condemned'
  <1>1. Worker \in User /\ Worker \notin Reader /\ "cdp_merge" \in Name /\ "delete" \in Name
          /\ Chain(d) \in SUBSET Snapshot /\ {d} \in SUBSET Snapshot
    BY SnapshotAssumption, UserAssumption DEF User, Name, Chain, Snapshot
  <1>2. CASE StartMerge(d)
    BY <1>1, <1>2 DEF StartMerge
  <1>3. CASE StartDelete(d)
    BY <1>1, <1>3 DEF StartDelete
  <1>4. ASSUME NEW u \in User, StartRead(u, d)
        PROVE  Begins(u, u, Chain(d)) /\ u \in Name /\ u \in Reader /\ u # Worker /\ u # "delete" /\ condemned' = condemned
    BY <1>4, UserAssumption DEF StartRead, Name
  <1> QED BY <1>1, <1>2, <1>3, <1>4 DEF Starts

LEMMA NamesKept ==
  ASSUME IInv, Next
  PROVE  UsersAreNamed' /\ DeletesCondemned'
  <1> USE DEF threadVars, diskVars, userVars
  <1>0. TypeOK /\ UsersAreNamed /\ DeletesCondemned
    BY DEF IInv
  <1>1. CASE ThreadAction
    <2>1. UNCHANGED <<user, condemned>>
      BY <1>1, ThreadLeavesUsers
    <2> QED BY <1>0, <2>1 DEF UsersAreNamed, DeletesCondemned
  <1>2. ASSUME NEW d \in Snapshot, Starts(d) PROVE UsersAreNamed' /\ DeletesCondemned'
    <2>1. PICK u \in User, name \in Name, files \in SUBSET Snapshot :
             /\ Begins(u, name, files)
             /\ u \in Reader => name = u
             /\ u = Worker => name \in {"cdp_merge", "delete"}
             /\ name = "delete" => files \subseteq condemned'
             /\ condemned \subseteq condemned'
      BY <1>2, StartBegins
    <2>2. /\ user'[u].at = "locking" /\ user'[u].name = name /\ user'[u].todo = files /\ user'[u].cur = None
          /\ \A v \in User \ {u} : user'[v] = user[v]
      BY <1>0, <2>1, BeginsWrites
    <2> QED BY <1>0, <2>1, <2>2 DEF UsersAreNamed, DeletesCondemned, User
  <1>3. ASSUME NEW u \in User, NEW d \in Snapshot, LockFile(u, d) PROVE UsersAreNamed' /\ DeletesCondemned'
    <2>1. /\ user'[u].at = "cancelling" /\ user'[u].name = user[u].name
          /\ user'[u].todo = user[u].todo \ {d} /\ user'[u].cur = d
          /\ \A v \in User \ {u} : user'[v] = user[v]
      BY <1>0, <1>3, LockFileWrites
    <2>2. condemned' = condemned /\ d \in user[u].todo
      BY <1>3 DEF LockFile, NextFile
    <2> QED BY <1>0, <2>1, <2>2, NoneIsNoSnapshot DEF UsersAreNamed, DeletesCondemned, User
  <1>4. ASSUME NEW u \in User, Release(u) PROVE UsersAreNamed' /\ DeletesCondemned'
    <2>1. user'[u] = Idle(u) /\ condemned' = condemned /\ \A v \in User \ {u} : user'[v] = user[v]
      BY <1>0, <1>4, ReleaseWrites DEF Release
    <2> QED BY <1>0, <2>1, IdleTyped DEF UsersAreNamed, DeletesCondemned, User
  <1>5. ASSUME NEW u \in User, CancelNothing(u) \/ CancelEnd(u) PROVE UsersAreNamed' /\ DeletesCondemned'
    <2>1. GoOn(u) /\ user[u].cur \in Snapshot /\ condemned' = condemned
      BY <1>5, CurIsSnapshot DEF CancelNothing, CancelEnd
    <2>2. /\ user'[u].at \in {"using", "locking"} /\ user'[u].name = user[u].name
          /\ user'[u].todo = user[u].todo /\ user'[u].cur = None
          /\ \A v \in User \ {u} : user'[v] = user[v]
      BY <1>0, <2>1, GoOnWrites
    <2> QED BY <1>0, <2>1, <2>2 DEF UsersAreNamed, DeletesCondemned, User
  <1>6. ASSUME NEW u \in User, CancelBegin(u) PROVE UsersAreNamed' /\ DeletesCondemned'
    <2>1. user' = [user EXCEPT ![u].at = "waiting"] /\ condemned' = condemned /\ user[u].at = "cancelling"
      BY <1>6 DEF CancelBegin
    <2>2. /\ user'[u].at = "waiting" /\ user'[u].name = user[u].name
          /\ user'[u].todo = user[u].todo /\ user'[u].cur = user[u].cur
          /\ \A v \in User \ {u} : user'[v] = user[v]
      BY <1>0, <2>1 DEF TypeOK, Use
    <2> QED BY <1>0, <2>1, <2>2 DEF UsersAreNamed, DeletesCondemned, User
  <1>7. CASE Restart
    <2>1. condemned' = condemned /\ \A u \in User : user'[u] = Idle(u)
      BY <1>7 DEF Restart
    <2> QED BY <2>1, IdleTyped DEF UsersAreNamed, DeletesCondemned, User
  <1> QED BY <1>1, <1>2, <1>3, <1>4, <1>5, <1>6, <1>7
          DEF Next, ThreadAction, Starts, UserStep, Locking, LockRefused, EndUse

LEMMA LinesKept ==
  ASSUME IInv, Next
  PROVE  LinesAreDone'
  <1> USE DEF taskVars, threadVars, diskVars, userVars
  <1>0. TypeOK /\ ThreadIsKnown /\ LinesAreDone
    BY DEF IInv
  <1>1. CASE Fetch
    <2>1. \A d \in Snapshot : task'[d].lines = task[d].lines
      BY <1>0, <1>1 DEF Fetch, TypeOK, TaskRow
    <2>2. UNCHANGED thread \/ thread'.at = "fetched"
      BY <1>0, <1>1 DEF Fetch, TypeOK, Run
    <2> QED BY <1>0, <1>1, <2>1, <2>2 DEF Fetch, LinesAreDone
  <1>2. CASE Begin
    <2>1. thread'.at = "armed"
      BY <1>0, <1>2, ThreadMoves DEF Begin, ThreadAt
    <2> QED BY <1>0, <1>2, <2>1 DEF Begin, LinesAreDone
  <1>3. CASE Missing \/ Fail
    <2>1. GiveUp /\ thread.cur \in Snapshot /\ done' = done
      BY <1>0, <1>3, CurIsSnapshot DEF Missing, Fail
    <2> QED BY <1>0, <2>1, GiveUpWrites DEF LinesAreDone
  <1>4. CASE NothingLeft
    <2>1. thread'.at = "updating" /\ \A d \in Snapshot : task'[d].lines = task[d].lines
      BY <1>0, <1>4, CurIsSnapshot, CompletedIsSet, ThreadMoves DEF NothingLeft, ThreadAt
    <2> QED BY <1>0, <1>4, <2>1 DEF NothingLeft, LinesAreDone
  <1>5. CASE Launch
    <2>1. thread.cur \in Snapshot
      BY <1>5, CurIsSnapshot DEF Launch
    <2> QED BY <1>0, <1>5, <2>1, NoneIsNoSnapshot DEF Launch, LinesAreDone
  <1>6. CASE SetPid
    <2>1. thread'.cur = thread.cur /\ thread'.ok = thread.ok
      BY <1>0, <1>6, ThreadMoves DEF SetPid, ThreadAt
    <2> QED BY <1>0, <1>6, <2>1 DEF SetPid, LinesAreDone
  <1>7. CASE Succeed
    <2> DEFINE d == thread.cur
    <2>1. d \in Snapshot /\ thread'.at = "updating" /\ done' = done
      BY <1>0, <1>7, CurIsSnapshot, ThreadMoves DEF Succeed, ThreadAt
    <2>2. task[d].lines + 1 \in done[d]
      BY <1>0, <1>7 DEF Succeed, LinesAreDone
    <2>3. task'[d].lines = task[d].lines + 1 /\ \A e \in Snapshot \ {d} : task'[e].lines = task[e].lines
      BY <1>0, <1>7, <2>1 DEF Succeed, TypeOK, TaskRow
    <2>4. 1 .. task'[d].lines \subseteq done[d]
      BY <1>0, <2>1, <2>2, <2>3, TaskTyped DEF LinesAreDone
    <2> QED BY <1>0, <2>1, <2>3, <2>4 DEF LinesAreDone
  <1>8. CASE Update
    <2>1. \A d \in Snapshot : task'[d].lines = task[d].lines
      BY <1>0, <1>8, CurIsSnapshot DEF Update, TypeOK, TaskRow
    <2> QED BY <1>0, <1>8, <2>1, AsleepTyped DEF Update, LinesAreDone
  <1>9. CASE ProcEnds
    <2>1. proc \in Snapshot /\ proc = thread.cur /\ task' = task /\ thread'.cur = thread.cur
      BY <1>0, <1>9 DEF ProcEnds, ThreadIsKnown, TypeOK, Run
    <2>2. \A d \in Snapshot : done[d] \subseteq done'[d]
      BY <1>0, <1>9 DEF ProcEnds, TypeOK
    <2>3. thread'.ok => task[proc].lines + 1 \in done'[proc]
      <3>1. CASE done' = [done EXCEPT ![proc] = @ \cup {task[proc].lines + 1}]
        BY <1>0, <2>1, <3>1 DEF TypeOK
      <3>2. CASE thread' = [thread EXCEPT !.ok = FALSE]
        BY <1>0, <3>2 DEF TypeOK, Run
      <3> QED BY <1>9, <3>1, <3>2 DEF ProcEnds
    <2> QED BY <1>0, <2>1, <2>2, <2>3 DEF LinesAreDone
  <1>10. ASSUME NEW d \in Snapshot, Create(d) \/ Due(d) PROVE LinesAreDone'
    <2>1. \A e \in Snapshot : task'[e].lines = task[e].lines
      <3>1. CASE Create(d)
        BY <1>0, <3>1 DEF Create, TypeOK, TaskRow
      <3>2. CASE Due(d)
        BY <1>0, <3>2 DEF Due, TypeOK, TaskRow
      <3> QED BY <1>10, <3>1, <3>2
    <2>2. UNCHANGED <<done, thread, proc>>
      BY <1>10 DEF Create, Due
    <2>3. thread.at # "idle" => thread.cur \in Snapshot
      BY CurIsSnapshot
    <2> QED BY <1>0, <2>1, <2>2, <2>3 DEF LinesAreDone
  <1>11. CASE UserAction
    <2>1. thread.at # "idle" => thread.cur \in Snapshot
      BY CurIsSnapshot
    <2> QED BY <1>0, <1>11, <2>1, UsersLeaveThread DEF LinesAreDone
  <1>12. CASE Restart
    BY <1>0, <1>12, AsleepTyped DEF Restart, LinesAreDone
  <1> QED BY <1>1, <1>2, <1>3, <1>4, <1>5, <1>6, <1>7, <1>8, <1>9, <1>10, <1>11, <1>12 DEF Next, ThreadStep, UserAction

LEMMA CompletedKept ==
  ASSUME IInv, Next
  PROVE  CompletedIsDone'
  <1> USE DEF taskVars, threadVars, diskVars, userVars
  <1>0. TypeOK /\ LinesAreDone /\ DeletesCondemned /\ CompletedIsDone
    BY DEF IInv
  (* It is enough that nothing new is completed, nor a slice or a deletion undone. *)
  <1>1. ASSUME \A d \in Snapshot : task'[d].completed => task[d].completed,
               \A d \in Snapshot : done[d] = 1 .. Slices => done'[d] = 1 .. Slices,
               condemned \subseteq condemned'
        PROVE  CompletedIsDone'
    BY <1>0, <1>1 DEF CompletedIsDone
  <1>2. ASSUME NEW d \in Snapshot, task[d].lines >= Slices PROVE done[d] = 1 .. Slices
    <2>1. task[d].lines = Slices
      BY <1>0, <1>2, TaskTyped, SliceAssumption
    <2> QED BY <1>0, <2>1 DEF TypeOK, LinesAreDone
  <1>3. CASE Fetch \/ Succeed \/ \E d \in Snapshot : Create(d) \/ Due(d)
    <2>1. UNCHANGED <<done, condemned>>
      BY <1>3 DEF Fetch, Succeed, Create, Due
    <2>2. \A d \in Snapshot : task'[d].completed = task[d].completed
      <3>1. CASE Fetch
        BY <1>0, <3>1 DEF Fetch, TypeOK, TaskRow
      <3>2. CASE Succeed
        BY <1>0, <3>2, CurIsSnapshot DEF Succeed, TypeOK, TaskRow
      <3>3. ASSUME NEW d \in Snapshot, Create(d)
            PROVE  \A e \in Snapshot : task'[e].completed = task[e].completed
        BY <1>0, <3>3 DEF Create, TypeOK, TaskRow
      <3>4. ASSUME NEW d \in Snapshot, Due(d)
            PROVE  \A e \in Snapshot : task'[e].completed = task[e].completed
        BY <1>0, <3>4 DEF Due, TypeOK, TaskRow
      <3> QED BY <1>3, <3>1, <3>2, <3>3, <3>4
    <2> QED BY <1>1, <2>1, <2>2
  <1>4. CASE Missing \/ Fail
    <2>1. GiveUp /\ thread.cur \in Snapshot /\ UNCHANGED <<done, condemned>>
      BY <1>0, <1>4, CurIsSnapshot DEF Missing, Fail
    <2>2. \A d \in Snapshot : task'[d].completed = task[d].completed
      BY <1>0, <2>1, GiveUpWrites
    <2> QED BY <1>1, <2>1, <2>2
  <1>5. CASE NothingLeft
    <2>1. thread.cur \in Snapshot /\ done[thread.cur] = 1 .. Slices
      BY <1>2, <1>5, CurIsSnapshot, SliceAssumption DEF NothingLeft
    <2>2. \A e \in Snapshot \ {thread.cur} : task'[e].completed = task[e].completed
      BY <1>0, <1>5, <2>1, CompletedIsSet DEF NothingLeft
    <2>3. UNCHANGED <<done, condemned>>
      BY <1>5 DEF NothingLeft
    <2> QED BY <1>0, <2>1, <2>2, <2>3 DEF CompletedIsDone
  <1>6. CASE Update
    <2> DEFINE d == thread.cur
               b == task[d].completed \/ task[d].lines >= Slices
    <2>1. d \in Snapshot /\ UNCHANGED <<done, condemned>>
      BY <1>6, CurIsSnapshot DEF Update
    <2>2. task' = [task EXCEPT ![d].completed = b] /\ b \in BOOLEAN
      BY <1>6 DEF Update
    <2>3. b => done[d] = 1 .. Slices \/ d \in condemned
      BY <1>0, <1>2, <2>1 DEF CompletedIsDone
    <2> HIDE DEF b
    <2>4. task'[d].completed = b /\ \A e \in Snapshot \ {d} : task'[e].completed = task[e].completed
      BY <1>0, <2>1, <2>2, CompletedIsSet
    <2> QED BY <1>0, <2>1, <2>3, <2>4 DEF CompletedIsDone
  <1>7. CASE ProcEnds
    <2>1. UNCHANGED <<task, condemned>>
      BY <1>7 DEF ProcEnds
    <2>2. \A d \in Snapshot : done[d] \subseteq done'[d] /\ done'[d] \subseteq 1 .. Slices
      BY <1>0, <1>7, TypesKept DEF ProcEnds, TypeOK
    <2> QED BY <1>1, <2>1, <2>2
  <1>8. CASE Begin \/ Launch \/ SetPid \/ Restart
    BY <1>1, <1>8 DEF Begin, Launch, SetPid, Restart
  <1>9. ASSUME NEW u \in User, CancelNothing(u) \/ CancelEnd(u) PROVE CompletedIsDone'
    <2>1. GoOn(u) /\ user[u].cur \in Snapshot /\ UNCHANGED <<done, condemned>>
      BY <1>9, CurIsSnapshot DEF CancelNothing, CancelEnd
    <2>2. \A e \in Snapshot : task'[e].completed =>
            task[e].completed \/ (user[u].name = "delete" /\ e = user[u].cur)
      BY <1>0, <2>1, GoOnWrites
    <2>3. user[u].name = "delete" => user[u].cur \in condemned
      BY <1>0, <2>1, NoneIsNoSnapshot DEF DeletesCondemned
    <2> QED BY <1>0, <2>1, <2>2, <2>3 DEF CompletedIsDone
  <1>10. ASSUME NEW d \in Snapshot, Starts(d) PROVE CompletedIsDone'
    <2>1. UNCHANGED <<task, done>> /\ condemned \subseteq condemned'
      BY <1>10 DEF Starts, StartMerge, StartDelete, StartRead, Begins
    <2> QED BY <1>1, <2>1
  <1>11. ASSUME NEW u \in User, NEW d \in Snapshot,
                LockFile(u, d) \/ LockRefused(u, d) \/ CancelBegin(u)
         PROVE  CompletedIsDone'
    BY <1>1, <1>11 DEF LockFile, LockRefused, Release, CancelBegin
  <1>12. ASSUME NEW u \in User, EndUse(u) PROVE CompletedIsDone'
    BY <1>1, <1>12 DEF EndUse, Release
  <1>13. 1 \in Snapshot
    BY SnapshotAssumption DEF Snapshot
  <1> QED BY <1>3, <1>4, <1>5, <1>6, <1>7, <1>8, <1>9, <1>10, <1>11, <1>12, <1>13
          DEF Next, ThreadStep, Starts, UserStep, Locking

(* No reference appears on the file the thread works on without an owner that    *)
(* cancels, and no owner goes on without a cancel.                           *)
LEMMA ToldKept ==
  ASSUME IInv, Next
  PROVE  ReferencesAreTold'
  <1> USE DEF taskVars, threadVars, diskVars, userVars
  <1>0. TypeOK /\ ThreadIsKnown /\ WaitHoldsLock /\ UsersAreNamed /\ ReferencesAreTold
    BY DEF IInv
  <1>1. CASE Fetch
    <2>1. UNCHANGED <<refs, user, unseen>>
      BY <1>1 DEF Fetch
    <2>2. CASE UNCHANGED thread
      BY <1>0, <2>1, <2>2 DEF ReferencesAreTold, Active, Told
    <2>3. CASE \E d \in Valid : thread' = [thread EXCEPT !.at = "fetched", !.cur = d]
      <3>1. refs[thread'.cur] = {}
        BY <1>0, <2>3 DEF TypeOK, Run, Valid, CheckTaskOk
      <3> QED BY <2>1, <3>1 DEF ReferencesAreTold, Active
    <2> QED BY <1>1, <2>2, <2>3 DEF Fetch
  <1>2. CASE ThreadAction /\ ~ Fetch
    <2>1. UNCHANGED <<refs, user, unseen>>
      BY <1>2, ThreadLeavesUsers
    <2>2. \A d \in Snapshot : Active(d)' => Active(d)
      <3>1. CASE Begin \/ Launch \/ SetPid
        BY <1>0, <3>1 DEF Begin, Launch, SetPid, Active, TypeOK, Run
      <3>2. CASE NothingLeft \/ Succeed
        BY <1>0, <3>2, ThreadMoves DEF NothingLeft, Succeed, Active, ThreadAt
      <3>3. CASE Missing \/ Fail \/ Update
        BY <3>3, AsleepTyped DEF Missing, Fail, GiveUp, Update, Active
      <3>4. CASE ProcEnds
        BY <1>0, <3>4 DEF ProcEnds, Active, TypeOK, Run
      <3>5. CASE \E d \in Snapshot : Create(d) \/ Due(d)
        BY <3>5 DEF Create, Due, Active
      <3> QED BY <1>2, <3>1, <3>2, <3>3, <3>4, <3>5 DEF ThreadAction, ThreadStep
    <2> QED BY <1>0, <2>1, <2>2 DEF ReferencesAreTold, Told
  <1>3. ASSUME NEW s \in Snapshot, Starts(s) PROVE ReferencesAreTold'
    <2>1. PICK u \in User, name \in Name, files \in SUBSET Snapshot : Begins(u, name, files)
      BY <1>3, StartBegins
    <2>2. user[u].at = "idle" /\ UNCHANGED <<thread, refs, unseen>>
      BY <2>1 DEF Begins
    <2>3. \A v \in User \ {u} : user'[v] = user[v]
      BY <1>0, <2>1, BeginsWrites
    <2> QED BY <1>0, <2>2, <2>3 DEF ReferencesAreTold, Active, Told
  <1>4. ASSUME NEW u \in User, NEW s \in Snapshot, LockFile(u, s) PROVE ReferencesAreTold'
    <2>1. user[u].at = "locking" /\ user[u].cur = None /\ UNCHANGED <<thread, unseen>>
      BY <1>0, <1>4 DEF LockFile, NextFile, UsersAreNamed
    <2>2. /\ user'[u].at = "cancelling" /\ user'[u].name = user[u].name /\ user'[u].cur = s
          /\ \A v \in User \ {u} : user'[v] = user[v]
          /\ \A e \in Snapshot \ {s} : refs'[e] = refs[e]
          /\ refs'[s] = refs[s] \cup {user[u].name}
      BY <1>0, <1>4, LockFileWrites
    <2>3. ASSUME NEW d \in Snapshot, Active(d)', NEW nm \in refs'[d]
          PROVE  \E v \in User : user'[v].at # "idle" /\ user'[v].name = nm /\ Told(v, d)'
      <3>1. Active(d)
        BY <2>1, <2>3 DEF Active
      <3>2. CASE d = s /\ nm = user[u].name
        BY <2>2, <3>2 DEF Told
      <3>3. CASE nm \in refs[d]
        <4>1. PICK v \in User : user[v].at # "idle" /\ user[v].name = nm /\ Told(v, d)
          BY <1>0, <3>1, <3>3 DEF ReferencesAreTold
        <4>2. v = u => <<v, d>> \in unseen
          BY <2>1, <4>1, NoneIsNoSnapshot DEF Told
        <4>3. user'[v].at # "idle" /\ user'[v].name = nm /\ Told(v, d)'
          BY <2>1, <2>2, <4>1, <4>2 DEF Told
        <4> QED BY <4>3
      <3> QED BY <2>2, <2>3, <3>2, <3>3
    <2> QED BY <2>3 DEF ReferencesAreTold
  <1>5. ASSUME NEW u \in User, Release(u), thread' = thread PROVE ReferencesAreTold'
    <2>1. /\ \A v \in User \ {u} : user'[v] = user[v]
          /\ \A e \in Snapshot : refs'[e] = refs[e] \ {user[u].name}
          /\ \A v \in User \ {u}, e \in Snapshot : <<v, e>> \in unseen => <<v, e>> \in unseen'
      BY <1>0, <1>5, ReleaseWrites
    <2>2. ASSUME NEW d \in Snapshot, Active(d)', NEW nm \in refs'[d]
          PROVE  \E v \in User : user'[v].at # "idle" /\ user'[v].name = nm /\ Told(v, d)'
      <3>1. Active(d) /\ nm \in refs[d] /\ nm # user[u].name
        BY <1>5, <2>1, <2>2 DEF Active
      <3>2. PICK v \in User : user[v].at # "idle" /\ user[v].name = nm /\ Told(v, d)
        BY <1>0, <3>1 DEF ReferencesAreTold
      <3> QED BY <2>1, <3>1, <3>2 DEF Told
    <2> QED BY <2>2 DEF ReferencesAreTold
  <1>6. ASSUME NEW u \in User, CancelNothing(u) \/ CancelEnd(u) PROVE ReferencesAreTold'
    <2> DEFINE s == user[u].cur
    <2>1. GoOn(u) /\ s \in Snapshot /\ UNCHANGED <<thread, refs>> /\ unseen \subseteq unseen'
      BY <1>6, CurIsSnapshot DEF CancelNothing, CancelEnd
    <2>2. /\ user'[u].at \in {"using", "locking"} /\ user'[u].name = user[u].name /\ user'[u].cur = None
          /\ \A v \in User \ {u} : user'[v] = user[v]
      BY <1>0, <2>1, GoOnWrites
    <2>3. Active(s) => <<u, s>> \in unseen'
      <3> SUFFICES ASSUME Active(s) PROVE <<u, s>> \in unseen'
        OBVIOUS
      <3>1. ~ IsRunning(s)
        BY <1>6 DEF CancelNothing, CancelEnd
      <3>2. thread.at # "running"
        BY <1>0, <3>1 DEF Active, ThreadIsKnown, IsRunning
      <3>3. CASE CancelNothing(u)
        BY <3>2, <3>3 DEF CancelNothing, Active
      <3>4. CASE CancelEnd(u)
        <4>1. thread.at \in {"idle", "running", "updating"}
          BY <1>0, <3>4, NoneIsNoSnapshot DEF CancelEnd, WaitHoldsLock
        <4> QED BY <3>2, <4>1 DEF Active
      <3> QED BY <1>6, <3>3, <3>4
    <2>4. ASSUME NEW d \in Snapshot, Active(d)', NEW nm \in refs'[d]
          PROVE  \E v \in User : user'[v].at # "idle" /\ user'[v].name = nm /\ Told(v, d)'
      <3>1. Active(d) /\ nm \in refs[d]
        BY <2>1, <2>4 DEF Active
      <3>2. PICK v \in User : user[v].at # "idle" /\ user[v].name = nm /\ Told(v, d)
        BY <1>0, <3>1 DEF ReferencesAreTold
      <3>3. user'[v].at # "idle" /\ user'[v].name = nm
        BY <2>2, <3>2
      <3>4. Told(v, d)'
        BY <2>1, <2>2, <2>3, <3>1, <3>2 DEF Told
      <3> QED BY <3>3, <3>4
    <2> QED BY <2>4 DEF ReferencesAreTold
  <1>7. ASSUME NEW u \in User, CancelBegin(u) PROVE ReferencesAreTold'
    <2>1. UNCHANGED <<thread, refs, unseen>>
      BY <1>7 DEF CancelBegin
    <2>2. /\ user'[u].at = "waiting" /\ user'[u].name = user[u].name /\ user'[u].cur = user[u].cur
          /\ \A v \in User \ {u} : user'[v] = user[v]
      BY <1>0, <1>7 DEF CancelBegin, TypeOK, Use
    <2>3. \A v \in User : (user[v].at # "idle" => user'[v].at # "idle")
                           /\ user'[v].name = user[v].name /\ user'[v].cur = user[v].cur
      BY <2>2
    <2> QED BY <1>0, <2>1, <2>3 DEF ReferencesAreTold, Active, Told
  <1>8. CASE Restart
    BY <1>8, AsleepTyped DEF Restart, ReferencesAreTold, Active
  <1>9. ASSUME NEW u \in User, NEW d \in Snapshot, LockRefused(u, d) \/ EndUse(u) PROVE ReferencesAreTold'
    <2>1. Release(u) /\ thread' = thread
      BY <1>9 DEF LockRefused, EndUse, Release
    <2> QED BY <1>5, <2>1
  <1>10. 1 \in Snapshot
    BY SnapshotAssumption DEF Snapshot
  <1> QED BY <1>1, <1>2, <1>3, <1>4, <1>6, <1>7, <1>8, <1>9, <1>10
          DEF Next, ThreadAction, ThreadStep, Starts, UserStep, Locking

-----------------------------------------------------------------------------
(* THE THEOREMS.                                                             *)

LEMMA StutterKeeps ==
  ASSUME IInv, UNCHANGED vars
  PROVE  IInv'
  <1> USE DEF vars, taskVars, threadVars, diskVars, userVars
  <1>1. TypeOK' /\ ThreadIsKnown' /\ WaitHoldsLock' /\ UsersAreNamed'
    BY DEF IInv, TypeOK, ThreadIsKnown, WaitHoldsLock, UsersAreNamed
  <1>2. ReferencesAreTold' /\ LinesAreDone' /\ DeletesCondemned' /\ CompletedIsDone'
    BY DEF IInv, ReferencesAreTold, Active, Told, LinesAreDone, DeletesCondemned, CompletedIsDone
  <1> QED BY <1>1, <1>2 DEF IInv

(* The inductive invariant: the thread shows its task, a wait keeps it from the  *)
(* next one, and every reference on its file has an owner that cancels.        *)
THEOREM Inductive == Spec => []IInv
  <1>1. IInv /\ [Next]_vars => IInv'
    <2> SUFFICES ASSUME IInv, [Next]_vars PROVE IInv'
      OBVIOUS
    <2>1. CASE Next
      BY <2>1, TypesKept, ThreadKept, WaitKept, NamesKept, LinesKept, CompletedKept, ToldKept DEF IInv
    <2>2. CASE UNCHANGED vars
      BY <2>2, StutterKeeps
    <2> QED BY <2>1, <2>2
  <1> QED BY InitIInv, <1>1, PTL DEF Spec

(* Tables, the thread, the compressor and the users keep their types.           *)
THEOREM TypeCorrect == Spec => []TypeOK
  <1>1. IInv => TypeOK
    BY DEF IInv
  <1> QED BY <1>1, Inductive, PTL

(* A task is completed only when its whole file was compressed or its snapshot   *)
(* is deleted, whatever fails, is cancelled or is cut off by a restart.         *)
THEOREM CompletedWasDone == Spec => []CompletedIsDone
  <1>1. IInv => CompletedIsDone
    BY DEF IInv
  <1> QED BY <1>1, Inductive, PTL

(* Lock, then cancel: no file is compressed under a user that did both, except in *)
(* the window in which the thread has the task and its pid is not yet known.     *)
THEOREM CancelIsEnough == Spec => []CancelSuffices
  <1>1. IInv => CancelSuffices
    <2> SUFFICES ASSUME IInv, NEW u \in User, NEW d \in Snapshot,
                        proc = d, user[u].at = "using", user[u].name \in refs[d]
                 PROVE  <<u, d>> \in unseen
      BY DEF CancelSuffices
    <2>1. Active(d)
      BY NoneIsNoSnapshot DEF IInv, ThreadIsKnown, Active
    <2>2. PICK v \in User : user[v].at # "idle" /\ user[v].name = user[u].name /\ Told(v, d)
      BY <2>1 DEF IInv, ReferencesAreTold
    <2>3. v = u
      BY <2>2, UserAssumption DEF IInv, UsersAreNamed, User
    <2>4. user[u].cur = None
      BY DEF IInv, UsersAreNamed
    <2> QED BY <2>2, <2>3, <2>4, NoneIsNoSnapshot DEF Told
  <1> QED BY <1>1, Inductive, PTL
=============================================================================
