-------------------------- MODULE TaskQueue_proofs --------------------------
(***************************************************************************)
(* Theorems about TaskQueue, for any tasks, cluster backups and limits.      *)
(***************************************************************************)
EXTENDS TaskQueue, SequenceLemmas, FiniteSetTheorems, TLAPS

-----------------------------------------------------------------------------
(* THE INDUCTIVE INVARIANT.                                                  *)

InLine == {"waiting", "admitted", "refused"}

(* The queue holds each task between its entry and its finally clause, once. *)
LineOnce == \A i, j \in DOMAIN queuing : queuing[i] = queuing[j] => i = j
LineHas  == \A t \in Task : call[t] \in InLine => t \in ToSet(queuing)
LineOnly == \A i \in DOMAIN queuing : call[queuing[i]] \in InLine
LineOK   == LineOnce /\ LineHas /\ LineOnly

(* _running_tasks never misses a task that executes. *)
RunningOK == IsFiniteSet(running) /\ Active \subseteq running

(* Only a flow that starts has tasks on their way to execution. *)
FlowOK == \A c \in Cluster : flow[c] # "starting" =>
            \A t \in SubTask[c] : call[t] \notin InLine \cup {"created"}

(* No task is finished before it executes or fails. *)
FinishedOK == \A t \in finished : call[t] \notin InLine \cup {"none", "created"}

IInv == TypeOK /\ LineOK /\ RunningOK /\ FlowOK /\ FinishedOK

-----------------------------------------------------------------------------
(* EACH CONJUNCT IS PRESERVED.                                               *)

LEMMA InitHolds == Init => IInv
  <1> SUFFICES ASSUME Init PROVE IInv
    OBVIOUS
  <1> USE DEF Init
  <1>1. TypeOK
    BY LimitAssumption, EmptySeq DEF TypeOK, CallState, FlowState
  <1>2. LineOK
    BY DEF LineOK, LineOnce, LineHas, LineOnly, InLine
  <1>3. RunningOK
    BY FS_EmptySet DEF RunningOK, Active
  <1>4. FlowOK
    BY ClusterAssumption DEF FlowOK, InLine
  <1>5. FinishedOK
    BY DEF FinishedOK
  <1> QED BY <1>1, <1>2, <1>3, <1>4, <1>5 DEF IInv

(* Typing: only entering and leaving touch the sequence. *)
LEMMA TypeHolds == TypeOK /\ [Next]_vars => TypeOK'
  <1> SUFFICES ASSUME TypeOK, [Next]_vars PROVE TypeOK'
    OBVIOUS
  <1> USE LimitAssumption, ClusterAssumption DEF TypeOK, CallState, FlowState
  <1>1. ASSUME NEW t \in Task, TaskStep(t) PROVE TypeOK'
    <2>1. CASE Create(t)
      BY <2>1 DEF Create
    <2>2. CASE Enter(t)
      <3>1. queuing' \in Seq(Task)
        BY <2>2, AppendProperties DEF Enter
      <3> QED BY <2>2, <3>1 DEF Enter
    <2>3. CASE Refuse(t)
      BY <2>3 DEF Refuse
    <2>4. CASE Poll(t)
      BY <2>4 DEF Poll
    <2>5. CASE Look(t)
      BY <2>5 DEF Look, LookBehind, LookFull, Admit, Unfinished
    <2>6. CASE Leave(t)
      <3>1. queuing' \in Seq(Task)
        BY <2>6, RemoveAtKeeps, LenProperties DEF Leave
      <3> QED BY <2>6, <3>1 DEF Leave
    <2>7. CASE Finish(t)
      BY <2>7 DEF Finish
    <2>8. CASE Rework(t)
      BY <2>8 DEF Rework
    <2> QED BY <1>1, <2>1, <2>2, <2>3, <2>4, <2>5, <2>6, <2>7, <2>8 DEF TaskStep
  <1>2. ASSUME NEW c \in Cluster, FlowStep(c) PROVE TypeOK'
    BY <1>2 DEF FlowStep, StartFlow, CreateSub, AllCommanded, FailFlow, FinishFlow
  <1>3. CASE SetLimit
    BY <1>3 DEF SetLimit
  <1>4. CASE Restart
    BY <1>4, EmptySeq DEF Restart
  <1>5. CASE UNCHANGED vars
    BY <1>5 DEF vars
  <1> QED BY <1>1, <1>2, <1>3, <1>4, <1>5 DEF Next

(* A step that leaves the queue and the InLine-ness of every task alone.      *)
LEMMA LineStays ==
  ASSUME TypeOK, LineOK, UNCHANGED queuing,
         \A t \in Task : call'[t] \in InLine <=> call[t] \in InLine
  PROVE  LineOK'
  <1>1. \A i \in DOMAIN queuing : queuing[i] \in Task
    BY LenProperties, ElementOfSeq DEF TypeOK
  <1> QED BY <1>1 DEF LineOK, LineOnce, LineHas, LineOnly, ToSet

LEMMA EnterLine ==
  ASSUME TypeOK, LineOK, NEW t \in Task, Enter(t)
  PROVE  LineOK'
  <1>1. /\ DOMAIN queuing = 1 .. Len(queuing) /\ Len(queuing) \in Nat
        /\ \A i \in DOMAIN queuing : queuing[i] \in Task
    BY LenProperties, ElementOfSeq DEF TypeOK
  <1>2. /\ DOMAIN queuing' = 1 .. Len(queuing) + 1
        /\ \A i \in DOMAIN queuing : queuing'[i] = queuing[i]
        /\ queuing'[Len(queuing) + 1] = t
    <2>1. queuing \in Seq(Task) /\ queuing' = Append(queuing, t)
      BY DEF TypeOK, Enter
    <2> QED BY <1>1, <2>1, AppendProperties, LenProperties
  <1>3. \A u \in Task : call'[u] = IF u = t THEN "waiting" ELSE call[u]
    BY DEF TypeOK, Enter
  <1>4. \A i \in DOMAIN queuing : queuing[i] # t
    BY DEF Enter, LineOK, LineOnly, InLine
  <1>5. LineOnce'
    BY <1>1, <1>2, <1>4 DEF LineOK, LineOnce
  <1>6. LineHas'
    BY <1>1, <1>2, <1>3 DEF LineOK, LineHas, ToSet
  <1>7. LineOnly'
    BY <1>1, <1>2, <1>3, <1>4 DEF LineOK, LineOnly, InLine
  <1> QED BY <1>5, <1>6, <1>7 DEF LineOK

LEMMA LeaveLine ==
  ASSUME TypeOK, LineOK, NEW t \in Task, Leave(t)
  PROVE  LineOK'
  <1>1. /\ DOMAIN queuing = 1 .. Len(queuing) /\ Len(queuing) \in Nat
        /\ \A i \in DOMAIN queuing : queuing[i] \in Task
    BY LenProperties, ElementOfSeq DEF TypeOK
  <1>2. PICK i \in DOMAIN queuing : queuing[i] = t /\ queuing' = RemoveAt(queuing, i)
    BY DEF Leave
  <1>3. /\ DOMAIN queuing' = 1 .. Len(queuing) - 1
        /\ \A j \in DOMAIN queuing' : queuing'[j] = IF j < i THEN queuing[j] ELSE queuing[j + 1]
    <2>1. queuing \in Seq(Task) /\ i \in 1 .. Len(queuing)
      BY <1>1 DEF TypeOK
    <2>2. /\ queuing' \in Seq(Task) /\ Len(queuing') = Len(queuing) - 1
          /\ \A j \in 1 .. Len(queuing) - 1 :
               queuing'[j] = IF j < i THEN queuing[j] ELSE queuing[j + 1]
      BY <1>2, <2>1, RemoveAtKeeps
    <2>3. DOMAIN queuing' = 1 .. Len(queuing) - 1
      BY <2>2, LenProperties
    <2> QED BY <2>2, <2>3
  <1>4. \A u \in Task : call'[u] \in InLine <=> u # t /\ call[u] \in InLine
    BY DEF TypeOK, Leave, InLine
  <1>5. \A j \in DOMAIN queuing : queuing[j] = t => j = i
    BY <1>2 DEF LineOK, LineOnce
  <1>6. LineOnce'
    <2> SUFFICES ASSUME NEW j \in DOMAIN queuing', NEW k \in DOMAIN queuing',
                        queuing'[j] = queuing'[k]
                 PROVE  j = k
      BY DEF LineOnce
    <2> DEFINE old(n) == IF n < i THEN n ELSE n + 1
    <2>1. old(j) \in DOMAIN queuing /\ old(k) \in DOMAIN queuing
      BY <1>1, <1>2, <1>3
    <2>2. queuing[old(j)] = queuing[old(k)]
      BY <1>3
    <2>3. old(j) = old(k)
      BY <2>1, <2>2 DEF LineOK, LineOnce
    <2> QED BY <1>1, <1>2, <1>3, <2>3
  <1>7. LineHas'
    <2> SUFFICES ASSUME NEW u \in Task, call'[u] \in InLine
                 PROVE  \E j \in DOMAIN queuing' : queuing'[j] = u
      BY DEF LineHas, ToSet
    <2>1. PICK k \in DOMAIN queuing : queuing[k] = u
      BY <1>4 DEF LineOK, LineHas, ToSet
    <2>2. k # i
      BY <1>2, <1>4, <2>1
    <2> DEFINE new == IF k < i THEN k ELSE k - 1
    <2>3. new \in DOMAIN queuing' /\ queuing'[new] = u
      BY <1>1, <1>2, <1>3, <2>1, <2>2
    <2> QED BY <2>3
  <1>8. LineOnly'
    <2> SUFFICES ASSUME NEW j \in DOMAIN queuing'
                 PROVE  call'[queuing'[j]] \in InLine
      BY DEF LineOnly
    <2> DEFINE old == IF j < i THEN j ELSE j + 1
    <2>1. old \in DOMAIN queuing /\ old # i /\ queuing'[j] = queuing[old]
      BY <1>1, <1>2, <1>3
    <2> QED BY <1>1, <1>4, <1>5, <2>1 DEF LineOK, LineOnly
  <1> QED BY <1>6, <1>7, <1>8 DEF LineOK

LEMMA LineHolds == TypeOK /\ LineOK /\ FinishedOK /\ [Next]_vars => LineOK'
  <1> SUFFICES ASSUME TypeOK, LineOK, FinishedOK, [Next]_vars PROVE LineOK'
    OBVIOUS
  <1>1. ASSUME NEW t \in Task, TaskStep(t) PROVE LineOK'
    <2>1. CASE Enter(t)
      BY <2>1, EnterLine
    <2>2. CASE Leave(t)
      BY <2>2, LeaveLine
    <2>3. CASE Create(t) \/ Finish(t) \/ Rework(t) \/ Refuse(t)
      <3>1. UNCHANGED queuing /\ \A u \in Task : call'[u] \in InLine <=> call[u] \in InLine
        BY <2>3 DEF Create, Finish, Rework, Refuse, TypeOK, InLine
      <3> QED BY <3>1, LineStays
    <2>4. CASE Poll(t) \/ Look(t)
      <3>1. UNCHANGED queuing /\ \A u \in Task : call'[u] \in InLine <=> call[u] \in InLine
        BY <2>4 DEF Poll, Look, LookBehind, LookFull, Admit, TypeOK, InLine
      <3> QED BY <3>1, LineStays
    <2> QED BY <1>1, <2>1, <2>2, <2>3, <2>4 DEF TaskStep
  <1>2. ASSUME NEW c \in Cluster, FlowStep(c) PROVE LineOK'
    <2>1. UNCHANGED queuing /\ \A u \in Task : call'[u] \in InLine <=> call[u] \in InLine
      BY <1>2 DEF FlowStep, StartFlow, CreateSub, AllCommanded, FailFlow, FinishFlow, TypeOK, InLine
    <2> QED BY <2>1, LineStays
  <1>3. CASE Restart
    <2>1. queuing' = <<>> /\ \A t \in Task : call'[t] \notin InLine
      BY <1>3 DEF Restart, InLine, FinishedOK, TypeOK
    <2> QED BY <2>1 DEF LineOK, LineOnce, LineHas, LineOnly
  <1>4. CASE SetLimit \/ UNCHANGED vars
    <2>1. UNCHANGED <<queuing, call>>
      BY <1>4 DEF SetLimit, vars
    <2> QED BY <2>1, LineStays
  <1> QED BY <1>1, <1>2, <1>3, <1>4 DEF Next

(* Whoever starts to execute is added, and only finished tasks are dropped.    *)
LEMMA RunningHolds == TypeOK /\ RunningOK /\ [Next]_vars => RunningOK'
  <1> SUFFICES ASSUME TypeOK, RunningOK, [Next]_vars PROVE RunningOK'
    OBVIOUS
  <1>1. ASSUME NEW t \in Task, TaskStep(t) PROVE RunningOK'
    <2>1. IsFiniteSet(Unfinished) /\ IsFiniteSet(Unfinished \cup {t}) /\ IsFiniteSet(running \cup {t})
      BY FS_Subset, FS_AddElement DEF RunningOK, Unfinished
    <2>2. CASE Look(t)
      <3>1. \A u \in Task : call'[u] = call[u] \/ (u = t /\ Admit(t))
        BY <2>2 DEF Look, LookBehind, LookFull, Admit, TypeOK
      <3>2. finished' = finished
        BY <2>2 DEF Look
      <3>3. Active' \subseteq Active \/ (Admit(t) /\ Active' \subseteq Active \cup {t})
        BY <3>1, <3>2 DEF Active
      <3>4. Active \subseteq Unfinished
        BY DEF Active, Unfinished, RunningOK
      <3>5. running' = running \/ running' = Unfinished \/ running' = Unfinished \cup {t}
        BY <2>2 DEF Look, LookBehind, LookFull, Admit
      <3>6. Admit(t) => t \in running' /\ running' = Unfinished \cup {t}
        BY DEF Admit
      <3> QED BY <2>1, <3>3, <3>4, <3>5, <3>6 DEF RunningOK
    <2>3. CASE Rework(t)
      BY <2>1, <2>3 DEF Rework, RunningOK, Active, TypeOK
    <2>4. CASE Create(t) \/ Enter(t) \/ Refuse(t) \/ Poll(t) \/ Leave(t) \/ Finish(t)
      BY <2>4 DEF Create, Enter, Refuse, Poll, Leave, Finish, RunningOK, Active, TypeOK
    <2> QED BY <1>1, <2>2, <2>3, <2>4 DEF TaskStep
  <1>2. ASSUME NEW c \in Cluster, FlowStep(c) PROVE RunningOK'
    BY <1>2, ClusterAssumption
    DEF FlowStep, StartFlow, CreateSub, AllCommanded, FailFlow, FinishFlow, RunningOK, Active, TypeOK
  <1>3. CASE Restart
    BY <1>3, FS_EmptySet DEF Restart, RunningOK, Active, TypeOK
  <1>4. CASE SetLimit \/ UNCHANGED vars
    BY <1>4 DEF SetLimit, vars, RunningOK, Active
  <1> QED BY <1>1, <1>2, <1>3, <1>4 DEF Next

LEMMA FlowHolds == TypeOK /\ FlowOK /\ FinishedOK /\ [Next]_vars => FlowOK'
  <1> SUFFICES ASSUME TypeOK, FlowOK, FinishedOK, [Next]_vars,
                      NEW c \in Cluster, flow'[c] # "starting", NEW t \in SubTask[c]
               PROVE  call'[t] \notin InLine \cup {"created"}
    BY DEF FlowOK
  <1> USE DEF InLine
  <1>0. t \in Task /\ t \notin Single
    BY ClusterAssumption DEF Single, Subs
  <1>1. ASSUME NEW u \in Task, TaskStep(u) PROVE call'[t] \notin InLine \cup {"created"}
    <2>1. flow' = flow
      BY <1>1 DEF TaskStep, Create, Enter, Refuse, Poll, Look, Leave, Finish, Rework
    <2>2. call[t] \notin InLine \cup {"created"}
      BY <2>1 DEF FlowOK
    <2> QED
      BY <1>0, <1>1, <2>2 DEF TaskStep, Create, Enter, Refuse, Poll, Look, LookBehind, LookFull, Admit,
                              Leave, Finish, Rework, TypeOK
  <1>2. ASSUME NEW d \in Cluster, FlowStep(d) PROVE call'[t] \notin InLine \cup {"created"}
    <2>1. CASE StartFlow(d) \/ FinishFlow(d)
      BY <1>0, <2>1 DEF StartFlow, FinishFlow, FlowOK, TypeOK
    <2>2. CASE AllCommanded(d)
      BY <1>0, <2>2 DEF AllCommanded, FlowOK, TypeOK
    <2>3. CASE FailFlow(d)
      BY <1>0, <2>3 DEF FailFlow, FlowOK, TypeOK
    <2>4. ASSUME NEW u \in SubTask[d], CreateSub(d, u) PROVE call'[t] \notin InLine \cup {"created"}
      <3>1. flow[c] # "starting" /\ c # d
        BY <2>4 DEF CreateSub
      <3>2. t # u
        BY <3>1, ClusterAssumption
      <3>3. call'[t] = call[t]
        BY <1>0, <2>4, <3>2 DEF CreateSub, TypeOK
      <3> QED BY <3>1, <3>3 DEF FlowOK
    <2> QED BY <1>2, <2>1, <2>2, <2>3, <2>4 DEF FlowStep
  <1>3. CASE Restart
    BY <1>0, <1>3 DEF Restart, FinishedOK, TypeOK
  <1>4. CASE SetLimit \/ UNCHANGED vars
    BY <1>4 DEF SetLimit, vars, FlowOK
  <1> QED BY <1>1, <1>2, <1>3, <1>4 DEF Next

LEMMA FinishedHolds == TypeOK /\ FlowOK /\ FinishedOK /\ [Next]_vars => FinishedOK'
  <1> SUFFICES ASSUME TypeOK, FlowOK, FinishedOK, [Next]_vars, NEW t \in finished'
               PROVE  call'[t] \notin InLine \cup {"none", "created"}
    BY DEF FinishedOK
  <1> USE DEF InLine, FinishedOK
  <1>1. ASSUME NEW u \in Task, TaskStep(u) PROVE call'[t] \notin InLine \cup {"none", "created"}
    BY <1>1 DEF TaskStep, Create, Enter, Refuse, Poll, Look, LookBehind, LookFull, Admit, Leave,
                Finish, Rework, TypeOK
  <1>2. ASSUME NEW c \in Cluster, FlowStep(c) PROVE call'[t] \notin InLine \cup {"none", "created"}
    <2>1. CASE FinishFlow(c)
      BY <2>1 DEF FinishFlow, FlowOK, TypeOK
    <2>2. CASE StartFlow(c) \/ AllCommanded(c) \/ FailFlow(c) \/ \E u \in SubTask[c] : CreateSub(c, u)
      BY <2>2, ClusterAssumption DEF StartFlow, AllCommanded, FailFlow, CreateSub, TypeOK
    <2> QED BY <1>2, <2>1, <2>2 DEF FlowStep
  <1>3. CASE Restart
    BY <1>3 DEF Restart, TypeOK
  <1>4. CASE SetLimit \/ UNCHANGED vars
    BY <1>4 DEF SetLimit, vars
  <1> QED BY <1>1, <1>2, <1>3, <1>4 DEF Next

LEMMA StepHolds == IInv /\ [Next]_vars => IInv'
  BY TypeHolds, LineHolds, RunningHolds, FlowHolds, FinishedHolds DEF IInv

(* The lists, the rows and the threads are consistent in every state: the      *)
(* queue holds each queueing task once, _running_tasks holds every task that   *)
(* executes.                                                                 *)
THEOREM QueueConsistent == Spec => []IInv
  <1>1. Init => IInv
    BY InitHolds
  <1>2. IInv /\ [Next]_vars => IInv'
    BY StepHolds
  <1> QED BY <1>1, <1>2, PTL DEF Spec

(* The variables keep their types for any tasks, clusters and limits.          *)
THEOREM TypeCorrect == Spec => []TypeOK
  <1>1. IInv => TypeOK
    BY DEF IInv
  <1> QED BY <1>1, QueueConsistent, PTL

-----------------------------------------------------------------------------
(* THE LIMIT.                                                                *)

(* The pruned list is as long as the tasks it has to count, or longer.         *)
LEMMA NoneMissed ==
  ASSUME RunningOK
  PROVE  /\ IsFiniteSet(Active) /\ IsFiniteSet(Unfinished)
         /\ Cardinality(Active) \in Nat /\ Cardinality(Unfinished) \in Nat
         /\ Cardinality(Active) <= Cardinality(Unfinished)
  <1>1. Active \subseteq Unfinished /\ Unfinished \subseteq running
    BY DEF RunningOK, Active, Unfinished
  <1>2. IsFiniteSet(Unfinished)
    BY <1>1, FS_Subset DEF RunningOK
  <1>3. IsFiniteSet(Active) /\ Cardinality(Active) <= Cardinality(Unfinished)
    BY <1>1, <1>2, FS_Subset
  <1> QED BY <1>2, <1>3, FS_CardinalityType

(* Only the head of the queue is admitted, and below the number it read.       *)
LEMMA AdmittedByLook ==
  ASSUME TypeOK, [Next]_vars, NEW t \in Task, call[t] # "admitted", call'[t] = "admitted"
  PROVE  Look(t) /\ Admit(t)
  <1>1. ASSUME NEW u \in Task, TaskStep(u) PROVE Look(t) /\ Admit(t)
    BY <1>1 DEF TaskStep, Create, Enter, Refuse, Poll, Look, LookBehind, LookFull, Admit, Leave,
                Finish, Rework, TypeOK
  <1>2. ASSUME NEW c \in Cluster, FlowStep(c) PROVE FALSE
    BY <1>2, ClusterAssumption
    DEF FlowStep, StartFlow, CreateSub, AllCommanded, FailFlow, FinishFlow, TypeOK
  <1>3. CASE Restart \/ SetLimit \/ UNCHANGED vars
    BY <1>3 DEF Restart, SetLimit, vars, TypeOK
  <1> QED BY <1>1, <1>2, <1>3 DEF Next

(* A task that leaves the queue to execute finds fewer executing tasks than    *)
(* the number it read, for any tasks, numbers, clusters and restarts.          *)
THEOREM LimitRespected == Spec => AdmittedWithinLimit
  <1> DEFINE Below == \A t \in Task : call[t] # "admitted" /\ call'[t] = "admitted"
                                        => Cardinality(Active) < seen[t]
  <1>1. IInv /\ [Next]_vars => Below
    <2> SUFFICES ASSUME IInv, [Next]_vars, NEW t \in Task, call[t] # "admitted", call'[t] = "admitted"
                 PROVE  Cardinality(Active) < seen[t]
      OBVIOUS
    <2>1. Cardinality(Unfinished) < seen[t]
      BY AdmittedByLook DEF IInv, Admit
    <2>2. seen[t] \in Nat
      <3>1. seen \in [Task -> Limits \cup {0}]
        BY DEF IInv, TypeOK
      <3>2. Limits \subseteq Nat
        BY LimitAssumption
      <3>3. seen[t] \in Limits \cup {0}
        BY <3>1
      <3>4. \A n \in Limits \cup {0} : n \in Nat
        BY <3>2
      <3> QED BY <3>3, <3>4
    <2>3. /\ Cardinality(Active) \in Nat /\ Cardinality(Unfinished) \in Nat
          /\ Cardinality(Active) <= Cardinality(Unfinished)
      BY NoneMissed DEF IInv
    <2> QED BY <2>1, <2>2, <2>3
  <1>2. IInv /\ [Next]_vars => [Below]_vars
    BY <1>1
  <1> HIDE DEF Below
  <1>3. Spec => [][Below]_vars
    BY <1>2, QueueConsistent, PTL DEF Spec
  <1> QED BY <1>3 DEF AdmittedWithinLimit, Below

-----------------------------------------------------------------------------
(* THE WAITING ROOM.                                                         *)

Interrupted == {t \in Task \ finished : call[t] = "lost"}

LEMMA RoomStep == IInv /\ [Next]_vars => [Room!RoomNext]_(Room!room)
  <1> SUFFICES ASSUME IInv, [Next]_vars PROVE Room!RoomNext \/ UNCHANGED Room!room
    OBVIOUS
  <1> USE DEF Room!room
  <1>1. ASSUME NEW t \in Task, TaskStep(t) PROVE Room!RoomNext \/ UNCHANGED Room!room
    <2>1. CASE Enter(t)
      <3>1. queuing' = Append(queuing, t) /\ Active' = Active /\ Interrupted' = Interrupted
        BY <2>1 DEF Enter, Active, Interrupted, IInv, TypeOK
      <3>2. t \notin Active \cup ToSet(queuing)
        BY <2>1 DEF Enter, Active, IInv, LineOK, LineOnly, InLine, ToSet
      <3>3. Room!Join(t)
        BY <3>1, <3>2 DEF Room!Join, Room!ToSet, ToSet, Interrupted
      <3> QED BY <3>3 DEF Room!RoomNext
    <2>2. CASE Look(t) /\ Admit(t)
      <3>1. call[t] = "waiting" /\ t \notin finished
        BY <2>2 DEF Look, IInv, FinishedOK, InLine
      <3>2. /\ UNCHANGED <<queuing, finished>>
            /\ \A u \in Task : call'[u] = IF u = t THEN "admitted" ELSE call[u]
        BY <2>2 DEF Look, Admit, IInv, TypeOK
      <3>3. Active' = Active \cup {t} /\ Interrupted' = Interrupted
        BY <3>1, <3>2 DEF Active, Interrupted
      <3>4. t \in ToSet(queuing)
        BY <3>1 DEF IInv, LineOK, LineHas, InLine
      <3>5. queuing # <<>> /\ queuing[1] = t
        BY <2>2, <3>4 DEF Admit, AtHead, ToSet
      <3>6. t \notin Active
        BY <3>1 DEF Active
      <3>7. \E max \in Limits : Cardinality(Active) < max
        <4>1. seen[t] \in Limits /\ seen[t] \in Nat /\ Cardinality(Unfinished) < seen[t]
          BY <2>2, LimitAssumption DEF Look, Admit, IInv, TypeOK
        <4>2. /\ Cardinality(Active) \in Nat /\ Cardinality(Unfinished) \in Nat
              /\ Cardinality(Active) <= Cardinality(Unfinished)
          BY NoneMissed DEF IInv
        <4>3. Cardinality(Active) < seen[t]
          BY <4>1, <4>2
        <4> QED BY <4>1, <4>3
      <3>8. \E max \in Limits : Room!Cardinality(Active) < max
        BY <3>7 DEF Cardinality, Room!Cardinality
      <3>9. Room!Serve
        BY <3>2, <3>3, <3>5, <3>6, <3>8 DEF Room!Serve, Interrupted
      <3> QED BY <3>9 DEF Room!RoomNext
    <2>3. CASE Leave(t)
      <3>1. PICK i \in DOMAIN queuing : queuing[i] = t /\ queuing' = RemoveAt(queuing, i)
        BY <2>3 DEF Leave
      <3>2. Active' = Active /\ Interrupted' = Interrupted
        BY <2>3 DEF Leave, Active, Interrupted, IInv, TypeOK
      <3>3. Room!StepOut(i)
        BY <3>1, <3>2 DEF Room!StepOut, Room!RemoveAt, RemoveAt, Interrupted
      <3> QED BY <3>3 DEF Room!RoomNext
    <2>4. CASE Finish(t)
      <3>1. UNCHANGED queuing /\ Active' = Active \ {t} /\ Interrupted' = Interrupted
        BY <2>4 DEF Finish, Active, Interrupted, IInv, TypeOK
      <3>2. Room!Complete({t})
        BY <3>1 DEF Room!Complete, Interrupted
      <3> QED BY <3>2 DEF Room!RoomNext
    <2>5. CASE Rework(t)
      <3>1. /\ UNCHANGED queuing
            /\ t \in Interrupted /\ Active' = Active \cup {t} /\ Interrupted' = Interrupted \ {t}
        BY <2>5 DEF Rework, Active, Interrupted, IInv, TypeOK
      <3>2. Room!Resume(t)
        BY <3>1 DEF Room!Resume, Interrupted
      <3> QED BY <3>2 DEF Room!RoomNext
    <2>6. CASE Create(t) \/ Refuse(t) \/ Poll(t)
      <3>1. UNCHANGED queuing /\ Active' = Active /\ Interrupted' = Interrupted
        BY <2>6 DEF Create, Refuse, Poll, Active, Interrupted, IInv, TypeOK
      <3> QED BY <3>1 DEF Interrupted
    <2>7. CASE Look(t) /\ (LookBehind(t) \/ LookFull(t))
      <3>1. UNCHANGED queuing /\ Active' = Active /\ Interrupted' = Interrupted
        BY <2>7 DEF Look, LookBehind, LookFull, Active, Interrupted
      <3> QED BY <3>1 DEF Interrupted
    <2> QED BY <1>1, <2>1, <2>2, <2>3, <2>4, <2>5, <2>6, <2>7 DEF TaskStep, Look
  <1>2. ASSUME NEW c \in Cluster, FlowStep(c) PROVE Room!RoomNext \/ UNCHANGED Room!room
    <2>1. CASE FinishFlow(c)
      <3> DEFINE done == {t \in SubTask[c] : call[t] # "none"}
      <3>1. done \in SUBSET Task
        BY ClusterAssumption
      <3>2. UNCHANGED <<queuing, call>> /\ finished' = finished \cup done
        BY <2>1 DEF FinishFlow
      <3>3. Interrupted = {} /\ Interrupted' = {}
        BY <2>1, <3>2 DEF FinishFlow, Up, Interrupted
      <3>4. Active' = Active \ done
        BY <3>2 DEF Active
      <3>5. Room!Complete(done)
        BY <3>2, <3>3, <3>4 DEF Room!Complete, Interrupted
      <3> QED BY <3>1, <3>5 DEF Room!RoomNext
    <2>2. CASE StartFlow(c) \/ AllCommanded(c) \/ FailFlow(c) \/ \E t \in SubTask[c] : CreateSub(c, t)
      <3>1. UNCHANGED queuing /\ Active' = Active /\ Interrupted' = Interrupted
        BY <2>2, ClusterAssumption
        DEF StartFlow, AllCommanded, FailFlow, CreateSub, Active, Interrupted, IInv, TypeOK
      <3> QED BY <3>1 DEF Interrupted
    <2> QED BY <1>2, <2>1, <2>2 DEF FlowStep
  <1>3. CASE Restart
    <2>1. queuing' = <<>> /\ Active' = {}
      BY <1>3 DEF Restart, Active, IInv, TypeOK
    <2>2. Active \cup Interrupted \subseteq Interrupted'
      BY <1>3 DEF Restart, Active, Interrupted, IInv, TypeOK
    <2>3. ToSet(queuing) \subseteq Interrupted'
      <3>1. \A u \in ToSet(queuing) : u \in Task /\ call[u] \in InLine
        <4>1. \A i \in DOMAIN queuing : queuing[i] \in Task
          BY LenProperties, ElementOfSeq DEF IInv, TypeOK
        <4> QED BY <4>1 DEF ToSet, IInv, LineOK, LineOnly
      <3>2. \A u \in ToSet(queuing) : u \notin finished
        BY <3>1 DEF IInv, FinishedOK
      <3> QED BY <1>3, <3>1, <3>2 DEF Restart, Interrupted, InLine
    <2>4. Room!Interrupt
      BY <2>1, <2>2, <2>3 DEF Room!Interrupt, Room!ToSet, ToSet, Interrupted
    <2> QED BY <2>4 DEF Room!RoomNext
  <1>4. CASE SetLimit \/ UNCHANGED vars
    BY <1>4 DEF SetLimit, vars, Active
  <1> QED BY <1>1, <1>2, <1>3, <1>4 DEF Next

(* The queue implements the waiting room: first come, first served, never more *)
(* than a configured number, whatever restarts and cluster backups do.        *)
THEOREM OrderKept == Spec => KeepsOrder
  <1>1. Init => Room!RoomInit
    BY DEF Init, Room!RoomInit, Active
  <1>2. IInv /\ [Next]_vars => [Room!RoomNext]_(Room!room)
    BY RoomStep
  <1> QED BY <1>1, <1>2, QueueConsistent, PTL DEF Spec, KeepsOrder, Room!RoomSpec

=============================================================================
