-------------------------- MODULE BackupTask_proofs --------------------------
(***************************************************************************)
(* Theorems about BackupTask, for any tasks, callers and restarts.           *)
(***************************************************************************)
EXTENDS BackupTask, SequenceLemmas

-----------------------------------------------------------------------------
(* THE INDUCTIVE INVARIANT.                                                  *)

Fresh   == {"created", "linked", "admitted", "commanded"}
Running == Fresh \cup {"polling", "asking", "succeeded"}
Started == ToSet(started)

(* A host snapshot is started once, after the command, and then unfinished.  *)
StartedOK ==
  /\ IsInjective(started)
  /\ \A t \in Started : snap[t] = "new" /\ worker[t] \notin Fresh \cup {"none"}

(* The row and the host snapshot of a task follow its thread. *)
WorkerOK == \A t \in Task :
  /\ row[t] = "none" <=> worker[t] = "none"
  /\ worker[t] = "none" => snap[t] = "none"
  /\ worker[t] \in Running => Open(t)
  /\ worker[t] = "failed" => row[t] \in {"open", "ok"}
  /\ worker[t] = "created" => snap[t] = "none"
  /\ worker[t] \in {"linked", "admitted", "commanded"} => snap[t] = "new"
  /\ worker[t] \in {"polling", "asking"} => snap[t] # "none"
  /\ worker[t] \in {"closing_snapshot", "closing_open"} => ~ Open(t) /\ row[t] # "ok"
  /\ worker[t] = "succeeded" => snap[t] = "complete"

(* Two tasks are unfinished together only if they were started side by side. *)
AloneOK == \A t, u \in Task : Open(t) /\ Open(u) /\ t # u => t \in raced

(* While the command of a task is taken and unreported, the agent is its own;  *)
(* a completed host snapshot, and a success, are the agent's work for it.     *)
Own(t) ==
  /\ Open(t) /\ (worker[t] = "commanded" \/ t \in Started) => agent \in {t, Nobody}
  /\ Open(t) /\ snap[t] = "complete" => outcome[t] = "complete" /\ agent # t
  /\ row[t] = "ok" => outcome[t] = "complete" /\ agent # t
AgentOK == \A t \in Task \ raced : Own(t)

IInv == TypeOK /\ StartedOK /\ WorkerOK /\ SnapshotClosed /\ AloneOK /\ AgentOK

-----------------------------------------------------------------------------
(* THE STARTED HOST SNAPSHOTS.                                               *)

(* What each kind of step does to the started host snapshots.                *)
LEMMA RecordStarts ==
  ASSUME TypeOK, StartedOK, NEW t \in Task, Record(t)
  PROVE  started' \in Seq(Task) /\ IsInjective(started') /\ Started' = Started \cup {t}
  <1>1. t \notin Started
    BY DEF StartedOK, Record, WorkerAt, Fresh
  <1> QED BY <1>1, AppendOnce DEF TypeOK, StartedOK, Record, Started

LEMMA CloseFinishes ==
  ASSUME TypeOK, StartedOK, NEW t \in Task, CloseSnapshot(t)
  PROVE  started' \in Seq(Task) /\ IsInjective(started') /\ Started' = Started \ {t}
  <1>1. CASE \E i \in DOMAIN started : started[i] = t /\ started' = RemoveAt(started, i)
    <2>1. PICK i \in 1 .. Len(started) : started[i] = t /\ started' = RemoveAt(started, i)
      BY <1>1, LenProperties DEF TypeOK
    <2> QED BY <2>1, RemoveAtOnce DEF TypeOK, StartedOK, Started
  <1>2. CASE t \notin ToSet(started) /\ UNCHANGED started
    BY <1>2 DEF TypeOK, StartedOK, Started
  <1> QED BY <1>1, <1>2 DEF CloseSnapshot

LEMMA ReportFinishes ==
  ASSUME TypeOK, StartedOK, started # <<>>, started' = Front(started)
  PROVE  /\ Last(started) \in Task /\ Last(started) \in Started
         /\ started' \in Seq(Task) /\ IsInjective(started')
         /\ Started' = Started \ {Last(started)}
  BY FrontOnce DEF TypeOK, StartedOK, Started

LEMMA StartedTasks == TypeOK => Started \subseteq Task
  BY LenProperties, ElementOfSeq DEF TypeOK, Started, ToSet

-----------------------------------------------------------------------------
(* EACH CONJUNCT IS PRESERVED.                                               *)

LEMMA InitHolds == Init => IInv
  <1> SUFFICES ASSUME Init PROVE IInv
    OBVIOUS
  <1>1. Started = {}
    BY DEF Init, Started, ToSet
  <1>2. TypeOK
    BY BoundAssumption, EmptySeq DEF Init, TypeOK, Result, WorkerState, CallerState
  <1>3. StartedOK
    BY <1>1 DEF Init, StartedOK, IsInjective
  <1>4. WorkerOK /\ SnapshotClosed /\ AloneOK /\ AgentOK
    BY <1>1, NobodyAssumption
    DEF Init, WorkerOK, SnapshotClosed, AloneOK, AgentOK, Own, Open, Running, Fresh
  <1> QED BY <1>2, <1>3, <1>4 DEF IInv

LEMMA TypeHolds == TypeOK /\ StartedOK /\ [Next]_vars => TypeOK'
  <1> SUFFICES ASSUME TypeOK, StartedOK, [Next]_vars PROVE TypeOK'
    OBVIOUS
  <1> USE DEF TypeOK, Result, WorkerState, CallerState, rowVars, snapVars, agentVars, otherVars
  <1>1. ASSUME NEW t \in Task, WorkerStep(t) PROVE TypeOK'
    <2> USE DEF WorkerAt, Work
    <2>1. CASE Prepare(t) \/ Admit(t) \/ Command(t) \/ CommandFails(t)
      BY <2>1 DEF Prepare, Admit, Command, CommandFails
    <2>2. CASE Record(t)
      BY <2>2, RecordStarts DEF Record
    <2>3. CASE ReadSnapshot(t)
      BY <2>3 DEF ReadSnapshot
    <2>4. CASE ReadStatus(t) \/ Offline(t) \/ CloseRow(t) \/ ReadOpenSnapshot(t) \/ CloseSuccess(t)
      BY <2>4 DEF ReadStatus, Offline, CloseRow, ReadOpenSnapshot, CloseSuccess
    <2>5. CASE CloseSnapshot(t)
      BY <2>5, CloseFinishes DEF CloseSnapshot
    <2> QED BY <1>1, <2>1, <2>2, <2>3, <2>4, <2>5 DEF WorkerStep
  <1>2. ASSUME NEW t \in Task, Cancel(t) PROVE TypeOK'
    BY <1>2 DEF Cancel
  <1>3. ASSUME NEW c \in Caller, CallerStep(c) PROVE TypeOK'
    BY <1>3 DEF CallerStep, Start, CheckRows, CheckSnapshots, Refuse, CreateRow, GoTo
  <1>4. CASE AgentStep
    <2>1. CASE AgentDies
      BY <2>1 DEF AgentDies
    <2>2. ASSUME NEW result \in Result, AgentEnds(result) PROVE TypeOK'
      <3>1. CASE started = <<>>
        BY <2>2, <3>1 DEF AgentEnds
      <3>2. CASE started # <<>>
        BY <2>2, <3>2, ReportFinishes DEF AgentEnds
      <3> QED BY <3>1, <3>2
    <2> QED BY <1>4, <2>1, <2>2 DEF AgentStep
  <1>5. CASE Restart
    BY <1>5, BoundAssumption DEF Restart
  <1>6. CASE UNCHANGED vars
    BY <1>6 DEF vars
  <1> QED BY <1>1, <1>2, <1>3, <1>4, <1>5, <1>6 DEF Next

LEMMA StartedHolds == TypeOK /\ StartedOK /\ WorkerOK /\ [Next]_vars => StartedOK'
  <1> SUFFICES ASSUME TypeOK, StartedOK, WorkerOK, [Next]_vars PROVE StartedOK'
    OBVIOUS
  <1> USE DEF StartedOK, TypeOK, rowVars, snapVars, agentVars, otherVars
  <1>0. Started \subseteq Task
    BY StartedTasks
  <1>1. ASSUME NEW t \in Task, WorkerStep(t) PROVE StartedOK'
    <2> USE DEF WorkerAt, Work, Fresh
    <2>1. CASE Prepare(t) \/ Admit(t) \/ Command(t) \/ CommandFails(t)
      <3>1. started' = started /\ Started' = Started /\ t \notin Started
        BY <2>1 DEF Prepare, Admit, Command, CommandFails, Started
      <3> QED BY <1>0, <2>1, <3>1 DEF Prepare, Admit, Command, CommandFails
    <2>2. CASE Record(t)
      <3>1. IsInjective(started') /\ Started' = Started \cup {t}
        BY <2>2, RecordStarts
      <3> QED BY <1>0, <2>2, <3>1 DEF Record, WorkerOK
    <2>3. CASE ReadSnapshot(t) \/ ReadStatus(t) \/ Offline(t) \/ CloseRow(t) \/ ReadOpenSnapshot(t)
               \/ CloseSuccess(t)
      <3>1. started' = started /\ Started' = Started /\ snap' = snap
        BY <2>3 DEF ReadSnapshot, ReadStatus, Offline, CloseRow, ReadOpenSnapshot, CloseSuccess, Started
      <3>2. worker'[t] \notin Fresh \cup {"none"} /\ \A u \in Task \ {t} : worker'[u] = worker[u]
        BY <2>3 DEF ReadSnapshot, ReadStatus, Offline, CloseRow, ReadOpenSnapshot, CloseSuccess
      <3> QED BY <1>0, <3>1, <3>2
    <2>4. CASE CloseSnapshot(t)
      <3>1. IsInjective(started') /\ Started' = Started \ {t}
        BY <2>4, CloseFinishes
      <3> QED BY <1>0, <2>4, <3>1 DEF CloseSnapshot
    <2> QED BY <1>1, <2>1, <2>2, <2>3, <2>4 DEF WorkerStep
  <1>2. ASSUME NEW t \in Task, Cancel(t) PROVE StartedOK'
    BY <1>0, <1>2 DEF Cancel, Started
  <1>3. ASSUME NEW c \in Caller, CallerStep(c) PROVE StartedOK'
    <2>1. CASE Start(c) \/ CheckRows(c) \/ CheckSnapshots(c) \/ Refuse(c)
      BY <1>0, <2>1 DEF Start, CheckRows, CheckSnapshots, Refuse, Started
    <2>2. ASSUME NEW t \in Task, CreateRow(c, t) PROVE StartedOK'
      <3>1. worker[t] = "none"
        BY <2>2 DEF CreateRow, RowLeft, NextRow, WorkerOK
      <3>2. Started' = Started /\ t \notin Started
        BY <2>2, <3>1 DEF CreateRow, Started
      <3> QED BY <1>0, <2>2, <3>2 DEF CreateRow
    <2> QED BY <1>3, <2>1, <2>2 DEF CallerStep
  <1>4. CASE AgentStep
    <2>1. CASE AgentDies
      BY <1>0, <2>1 DEF AgentDies, Started
    <2>2. ASSUME NEW result \in Result, AgentEnds(result) PROVE StartedOK'
      <3>1. CASE started = <<>>
        BY <1>0, <2>2, <3>1 DEF AgentEnds, Started
      <3>2. CASE started # <<>>
        <4>1. started' = Front(started) /\ worker' = worker
              /\ snap' = [snap EXCEPT ![Last(started)] = result]
          BY <2>2, <3>2 DEF AgentEnds
        <4>2. IsInjective(started') /\ Started' = Started \ {Last(started)}
          BY <3>2, <4>1, ReportFinishes
        <4> QED BY <1>0, <4>1, <4>2
      <3> QED BY <3>1, <3>2
    <2> QED BY <1>4, <2>1, <2>2 DEF AgentStep
  <1>5. CASE Restart
    BY <1>0, <1>5 DEF Restart, Started, Fresh, WorkerOK
  <1>6. CASE UNCHANGED vars
    BY <1>0, <1>6 DEF vars, Started
  <1> QED BY <1>1, <1>2, <1>3, <1>4, <1>5, <1>6 DEF Next

LEMMA WorkerHolds == TypeOK /\ StartedOK /\ WorkerOK /\ [Next]_vars => WorkerOK'
  <1> SUFFICES ASSUME TypeOK, StartedOK, WorkerOK, [Next]_vars PROVE WorkerOK'
    OBVIOUS
  <1> USE DEF WorkerOK, TypeOK, Open, Running, Fresh, rowVars, snapVars, agentVars, otherVars
  <1>1. ASSUME NEW t \in Task, WorkerStep(t) PROVE WorkerOK'
    <2> USE DEF WorkerAt, Work
    <2>1. CASE Prepare(t) \/ Admit(t) \/ Command(t) \/ CommandFails(t)
      BY <2>1 DEF Prepare, Admit, Command, CommandFails
    <2>2. CASE Record(t)
      BY <2>2 DEF Record
    <2>3. CASE ReadSnapshot(t) \/ ReadStatus(t) \/ Offline(t)
      BY <2>3 DEF ReadSnapshot, ReadStatus, Offline
    <2>4. CASE CloseRow(t) \/ ReadOpenSnapshot(t) \/ CloseSuccess(t)
      BY <2>4 DEF CloseRow, ReadOpenSnapshot, CloseSuccess
    <2>5. CASE CloseSnapshot(t)
      BY <2>5 DEF CloseSnapshot
    <2> QED BY <1>1, <2>1, <2>2, <2>3, <2>4, <2>5 DEF WorkerStep
  <1>2. ASSUME NEW t \in Task, Cancel(t) PROVE WorkerOK'
    BY <1>2 DEF Cancel
  <1>3. ASSUME NEW c \in Caller, CallerStep(c) PROVE WorkerOK'
    <2>1. CASE Start(c) \/ CheckRows(c) \/ CheckSnapshots(c) \/ Refuse(c)
      BY <2>1 DEF Start, CheckRows, CheckSnapshots, Refuse
    <2>2. ASSUME NEW t \in Task, CreateRow(c, t) PROVE WorkerOK'
      <3>1. row[t] = "none"
        BY <2>2 DEF CreateRow, RowLeft, NextRow
      <3> QED BY <2>2, <3>1 DEF CreateRow
    <2> QED BY <1>3, <2>1, <2>2 DEF CallerStep
  <1>4. CASE AgentStep
    <2>1. CASE AgentDies
      BY <2>1 DEF AgentDies
    <2>2. ASSUME NEW result \in Result, AgentEnds(result) PROVE WorkerOK'
      <3>1. CASE started = <<>>
        BY <2>2, <3>1 DEF AgentEnds
      <3>2. CASE started # <<>>
        <4>1. row' = row /\ worker' = worker /\ snap' = [snap EXCEPT ![Last(started)] = result]
          BY <2>2, <3>2 DEF AgentEnds
        <4>2. Last(started) \in Task /\ worker[Last(started)] \notin Fresh \cup {"none"}
              /\ snap[Last(started)] = "new"
          BY <3>2, FrontOnce DEF StartedOK, Started
        <4> QED BY <4>1, <4>2 DEF Result
      <3> QED BY <3>1, <3>2
    <2> QED BY <1>4, <2>1, <2>2 DEF AgentStep
  <1>5. CASE Restart
    BY <1>5 DEF Restart, Ended
  <1>6. CASE UNCHANGED vars
    BY <1>6 DEF vars
  <1> QED BY <1>1, <1>2, <1>3, <1>4, <1>5, <1>6 DEF Next

(* A thread ends only once its host snapshot has a finish. *)
LEMMA ClosedHolds ==
  TypeOK /\ StartedOK /\ WorkerOK /\ SnapshotClosed /\ [Next]_vars => SnapshotClosed'
  <1> SUFFICES ASSUME TypeOK, StartedOK, WorkerOK, SnapshotClosed, [Next]_vars,
                      NEW t \in Task, worker'[t] = "gone"
               PROVE  t \notin Started' /\ snap'[t] # "new"
    BY DEF SnapshotClosed, Started
  <1> USE DEF TypeOK, rowVars, snapVars, agentVars, otherVars
  <1>0. worker[t] = "gone" => t \notin Started /\ snap[t] # "new"
    BY DEF SnapshotClosed, Started
  <1>1. ASSUME NEW u \in Task, WorkerStep(u) PROVE t \notin Started' /\ snap'[t] # "new"
    <2> USE DEF WorkerAt, Work
    <2>1. CASE Prepare(u) \/ Admit(u) \/ Command(u) \/ CommandFails(u)
      <3>1. t # u /\ worker'[t] = worker[t] /\ snap'[t] = snap[t]
        BY <2>1 DEF Prepare, Admit, Command, CommandFails
      <3>2. Started' = Started
        BY <2>1 DEF Prepare, Admit, Command, CommandFails, Started
      <3> QED BY <1>0, <3>1, <3>2
    <2>2. CASE Record(u)
      <3>1. Started' = Started \cup {u} /\ t # u /\ worker'[t] = worker[t] /\ snap'[t] = snap[t]
        BY <2>2, RecordStarts DEF Record
      <3> QED BY <1>0, <3>1
    <2>3. CASE ReadSnapshot(u) \/ ReadStatus(u) \/ Offline(u)
      <3>1. t # u /\ worker'[t] = worker[t] /\ snap'[t] = snap[t]
        BY <2>3 DEF ReadSnapshot, ReadStatus, Offline
      <3>2. Started' = Started
        BY <2>3 DEF ReadSnapshot, ReadStatus, Offline, Started
      <3> QED BY <1>0, <3>1, <3>2
    <2>4. CASE CloseRow(u) \/ ReadOpenSnapshot(u) \/ CloseSuccess(u)
      <3>1. Started' = Started /\ snap' = snap
        BY <2>4 DEF CloseRow, ReadOpenSnapshot, CloseSuccess, Started
      <3>2. t = u => snap[t] # "new"
        BY <2>4 DEF CloseRow, ReadOpenSnapshot, CloseSuccess, WorkerOK
      <3>3. t # u => worker[t] = "gone"
        BY <2>4 DEF CloseRow, ReadOpenSnapshot, CloseSuccess
      <3> QED BY <1>0, <3>1, <3>2, <3>3 DEF StartedOK
    <2>5. CASE CloseSnapshot(u)
      <3>1. Started' = Started \ {u}
        BY <2>5, CloseFinishes
      <3> QED BY <1>0, <2>5, <3>1 DEF CloseSnapshot, Result
    <2> QED BY <1>1, <2>1, <2>2, <2>3, <2>4, <2>5 DEF WorkerStep
  <1>2. ASSUME NEW u \in Task, Cancel(u) PROVE t \notin Started' /\ snap'[t] # "new"
    BY <1>0, <1>2 DEF Cancel, Started
  <1>3. ASSUME NEW c \in Caller, CallerStep(c) PROVE t \notin Started' /\ snap'[t] # "new"
    BY <1>0, <1>3 DEF CallerStep, Start, CheckRows, CheckSnapshots, Refuse, CreateRow, Started
  <1>4. CASE AgentStep
    <2>1. CASE AgentDies
      BY <1>0, <2>1 DEF AgentDies, Started
    <2>2. ASSUME NEW result \in Result, AgentEnds(result)
          PROVE  t \notin Started' /\ snap'[t] # "new"
      <3>1. CASE started = <<>>
        BY <1>0, <2>2, <3>1 DEF AgentEnds, Started
      <3>2. CASE started # <<>>
        <4>1. /\ worker' = worker /\ started' = Front(started)
              /\ snap' = [snap EXCEPT ![Last(started)] = result]
          BY <2>2, <3>2 DEF AgentEnds
        <4>2. Started' = Started \ {Last(started)}
          BY <3>2, <4>1, ReportFinishes
        <4> QED BY <1>0, <4>1, <4>2 DEF Result
      <3> QED BY <3>1, <3>2
    <2> QED BY <1>4, <2>1, <2>2 DEF AgentStep
  <1>5. CASE Restart
    BY <1>0, <1>5 DEF Restart, Ended, Started
  <1>6. CASE UNCHANGED vars
    BY <1>0, <1>6 DEF vars, Started
  <1> QED BY <1>1, <1>2, <1>3, <1>4, <1>5, <1>6 DEF Next

LEMMA AloneHolds == TypeOK /\ WorkerOK /\ AloneOK /\ [Next]_vars => AloneOK'
  <1> SUFFICES ASSUME TypeOK, WorkerOK, AloneOK, [Next]_vars PROVE AloneOK'
    OBVIOUS
  <1> USE DEF AloneOK, Open, TypeOK, rowVars, otherVars
  <1>1. ASSUME NEW t \in Task, WorkerStep(t) \/ Cancel(t) PROVE AloneOK'
    <2>1. raced' = raced
      BY <1>1 DEF WorkerStep, Prepare, Admit, Command, CommandFails, Record, ReadSnapshot, ReadStatus,
                  Offline, CloseRow, ReadOpenSnapshot, CloseSnapshot, CloseSuccess, Cancel
    <2>2. \A u \in Task : row'[u] = "open" => row[u] = "open"
      BY <1>1 DEF WorkerStep, Prepare, Admit, Command, CommandFails, Record, ReadSnapshot, ReadStatus,
                  Offline, CloseRow, ReadOpenSnapshot, CloseSnapshot, CloseSuccess, Cancel
    <2> QED BY <2>1, <2>2
  <1>2. ASSUME NEW c \in Caller, CallerStep(c) PROVE AloneOK'
    BY <1>2 DEF CallerStep, Start, CheckRows, CheckSnapshots, Refuse, CreateRow
  <1>3. CASE AgentStep \/ Restart \/ UNCHANGED vars
    <2>1. raced' = raced /\ row' = row
      BY <1>3 DEF AgentStep, AgentDies, AgentEnds, Restart, vars
    <2> QED BY <2>1
  <1> QED BY <1>1, <1>2, <1>3 DEF Next

(* The agent, and what it has done, for a task that no other was started beside. *)
LEMMA AgentHolds ==
  TypeOK /\ StartedOK /\ WorkerOK /\ AloneOK /\ AgentOK /\ [Next]_vars => AgentOK'
  <1> SUFFICES ASSUME TypeOK, StartedOK, WorkerOK, AloneOK, AgentOK, [Next]_vars,
                      NEW t \in Task, t \notin raced'
               PROVE  Own(t)'
    BY DEF AgentOK
  <1> USE DEF TypeOK, Own, Open, rowVars, snapVars, agentVars, otherVars
  <1>0. t \notin raced /\ Own(t)
    <2>1. raced \subseteq raced'
      BY DEF Next, WorkerStep, Prepare, Admit, Command, CommandFails, Record, ReadSnapshot, ReadStatus,
             Offline, CloseRow, ReadOpenSnapshot, CloseSnapshot, CloseSuccess, Cancel, CallerStep, Start,
             CheckRows, CheckSnapshots, Refuse, CreateRow, AgentStep, AgentDies, AgentEnds, Restart, vars
    <2> QED BY <2>1 DEF AgentOK
  <1>1. ASSUME NEW u \in Task, WorkerStep(u) PROVE Own(t)'
    <2> USE DEF WorkerAt, Work
    <2>1. CASE Command(u) \/ CommandFails(u)
      <3>1. Started' = Started /\ row' = row /\ outcome' = outcome /\ snap[u] # "complete" /\ row[u] = "open"
        BY <2>1 DEF Command, CommandFails, Started, WorkerOK, Running, Fresh
      <3>2. CASE t = u
        <4>1. snap'[t] # "complete" /\ row'[t] = "open" /\ t \notin Started
          BY <2>1, <3>1, <3>2 DEF Command, CommandFails, StartedOK, Fresh
        <4> QED BY <2>1, <3>1, <3>2, <4>1 DEF Command, CommandFails
      <3>3. CASE t # u
        <4>1. row[t] # "open"
          BY <1>0, <3>1, <3>3 DEF AloneOK
        <4>2. agent' \in {agent, u}
          BY <2>1 DEF Command, CommandFails
        <4> QED BY <1>0, <3>1, <3>3, <4>1, <4>2
      <3> QED BY <3>2, <3>3
    <2>2. CASE Record(u)
      <3>1. Started' = Started \cup {u}
        BY <2>2, RecordStarts
      <3> QED BY <1>0, <2>2, <3>1 DEF Record
    <2>3. CASE Prepare(u) \/ Admit(u) \/ ReadSnapshot(u) \/ ReadStatus(u) \/ Offline(u) \/ ReadOpenSnapshot(u)
      <3>1. /\ row' = row /\ agent' = agent /\ outcome' = outcome /\ Started' = Started
            /\ worker'[t] = "commanded" => worker[t] = "commanded"
            /\ snap'[t] = "complete" => snap[t] = "complete"
        BY <2>3 DEF Prepare, Admit, ReadSnapshot, ReadStatus, Offline, ReadOpenSnapshot, Started
      <3> QED BY <1>0, <3>1
    <2>4. CASE CloseRow(u) \/ CloseSuccess(u)
      <3>1. /\ agent' = agent /\ outcome' = outcome /\ snap' = snap /\ Started' = Started
            /\ worker'[t] = "commanded" => worker[t] = "commanded"
            /\ Open(t)' => Open(t)
        BY <2>4 DEF CloseRow, CloseSuccess, Started
      <3>2. row'[t] = "ok" => row[t] = "ok" \/ (Open(t) /\ snap[t] = "complete")
        BY <2>4 DEF CloseRow, CloseSuccess, WorkerOK, Running
      <3> QED BY <1>0, <3>1, <3>2
    <2>5. CASE CloseSnapshot(u)
      <3>1. /\ Started' = Started \ {u}
            /\ row' = row /\ agent' = agent /\ outcome' = outcome
            /\ worker'[t] = "commanded" => worker[t] = "commanded"
        BY <2>5, CloseFinishes DEF CloseSnapshot
      <3>2. Open(t) => t # u /\ snap'[t] = snap[t]
        BY <2>5 DEF CloseSnapshot, WorkerOK
      <3> QED BY <1>0, <3>1, <3>2
    <2> QED BY <1>1, <2>1, <2>2, <2>3, <2>4, <2>5 DEF WorkerStep
  <1>2. ASSUME NEW u \in Task, Cancel(u) PROVE Own(t)'
    BY <1>0, <1>2 DEF Cancel, Started
  <1>3. ASSUME NEW c \in Caller, CallerStep(c) PROVE Own(t)'
    <2>1. CASE Start(c) \/ CheckRows(c) \/ CheckSnapshots(c) \/ Refuse(c)
      BY <1>0, <2>1 DEF Start, CheckRows, CheckSnapshots, Refuse, Started
    <2>2. ASSUME NEW u \in Task, CreateRow(c, u) PROVE Own(t)'
      <3>1. row[u] = "none" /\ worker[u] = "none" /\ snap[u] = "none" /\ u \notin Started
        BY <2>2 DEF CreateRow, RowLeft, NextRow, WorkerOK, StartedOK
      <3>2. Started' = Started
        BY <2>2 DEF CreateRow, Started
      <3> QED BY <1>0, <2>2, <3>1, <3>2 DEF CreateRow
    <2> QED BY <1>3, <2>1, <2>2 DEF CallerStep
  <1>4. CASE AgentStep
    <2>1. CASE AgentDies
      BY <1>0, <2>1, NobodyAssumption DEF AgentDies, Started
    <2>2. ASSUME NEW result \in Result, AgentEnds(result) PROVE Own(t)'
      <3>1. /\ agent # Nobody /\ agent \in Task /\ agent' = Nobody /\ Nobody # t
            /\ outcome' = [outcome EXCEPT ![agent] = result]
            /\ row' = row /\ worker' = worker
        BY <2>2, NobodyAssumption DEF AgentEnds
      <3>2. CASE started = <<>>
        <4>1. Started' = Started /\ snap' = snap
          BY <2>2, <3>2 DEF AgentEnds, Started
        <4> QED BY <1>0, <3>1, <4>1
      <3>3. CASE started # <<>>
        <4>1. started' = Front(started) /\ snap' = [snap EXCEPT ![Last(started)] = result]
          BY <2>2, <3>3 DEF AgentEnds
        <4>2. Last(started) \in Task /\ Last(started) \in Started /\ Started' = Started \ {Last(started)}
          BY <3>3, <4>1, ReportFinishes
        <4>3. Open(t) /\ t = Last(started) => agent = t
          BY <1>0, <3>1, <4>2
        <4> QED BY <1>0, <3>1, <4>1, <4>2, <4>3
      <3> QED BY <3>2, <3>3
    <2> QED BY <1>4, <2>1, <2>2 DEF AgentStep
  <1>5. CASE Restart
    BY <1>0, <1>5 DEF Restart, Started, Ended
  <1>6. CASE UNCHANGED vars
    BY <1>0, <1>6 DEF vars, Started
  <1> QED BY <1>1, <1>2, <1>3, <1>4, <1>5, <1>6 DEF Next

-----------------------------------------------------------------------------
(* THE THEOREMS.                                                             *)

(* The rows, host snapshots, threads and the agent keep their types, and the   *)
(* facts they rest on hold, in every reachable state.                         *)
THEOREM TaskConsistent == Spec => []IInv
  <1>1. Init => IInv
    BY InitHolds
  <1>2. IInv /\ [Next]_vars => IInv'
    BY TypeHolds, StartedHolds, WorkerHolds, ClosedHolds, AloneHolds, AgentHolds DEF IInv
  <1> QED BY <1>1, <1>2, PTL DEF Spec

(* Every task, host snapshot and thread is in one of its states, and the agent *)
(* executes one task at most.                                                *)
THEOREM TypeCorrect == Spec => []TypeOK
  <1>1. IInv => TypeOK
    BY DEF IInv
  <1> QED BY <1>1, TaskConsistent, PTL

(* _finish_backup_task_object leaves no started host snapshot behind, in any    *)
(* interleaving with the reports of the agent.                                *)
THEOREM HostReleased == Spec => []SnapshotClosed
  <1>1. IInv => SnapshotClosed
    BY DEF IInv
  <1> QED BY <1>1, TaskConsistent, PTL

(* A successful task that was alone on its host has the agent's completed       *)
(* backup, although a report names the host only.                             *)
THEOREM SuccessEarned == Spec => []SuccessIsOwn
  <1>1. IInv => SuccessIsOwn
    BY DEF IInv, AgentOK, Own, SuccessIsOwn
  <1> QED BY <1>1, TaskConsistent, PTL
=============================================================================
