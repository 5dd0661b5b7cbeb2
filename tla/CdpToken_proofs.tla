--------------------------- MODULE CdpToken_proofs ---------------------------
(***************************************************************************)
(* Proofs about CdpToken, for any number of requests, files, writes and faults.  *)
(*                                                                         *)
(* The order of the files rests on three facts.  While a file is being written  *)
(* it is the newest row, so what is closed with it becomes the last file; a new  *)
(* row is made only while no file is being written, by who holds the lock, and   *)
(* hangs on the last one; and a row is deleted only when nothing was written to   *)
(* it and nothing hangs on it.  What needs an argument is a request that read the *)
(* token before it took the lock: the file it closes may be an older one.  Then    *)
(* the file that is being written becomes the last one too, or, if the older one   *)
(* is empty, it is forgotten and belongs to lost.                              *)
(***************************************************************************)
EXTENDS CdpToken, TLAPS

(* Which thread can be where; the end of the task runs when it has finished, and *)
(* a file to close is a file.                                               *)
May(t) ==
  {"idle"} \cup (IF t = "refresh" THEN {"save", "send"}
                 ELSE IF t = "change" THEN {"begin", "verify", "save", "send"}
                 ELSE IF t = "worker" THEN {"rework", "read", "remove", "begin", "pause", "again"}
                 ELSE {"begin", "pause", "again"})

Places ==
  /\ \A t \in Thread : op[t].at \in May(t)
  /\ op["worker"].at \in {"read", "remove", "begin", "pause", "again"} => finished
  /\ op["worker"].at = "rework" => op["worker"].cur = None
  /\ \A t \in Thread : op[t].at \in {"begin", "again"} => op[t].cur # None

(* Who makes a file, or tells the KT service of one, holds the lock.            *)
Holder(t) == op[t].at \in {"verify", "save", "send"} \/ (t # "worker" /\ op[t].at \in {"pause", "again"})

LockHeld == \A t \in Thread : Holder(t) => lock = t

Opening ==
  \A t \in Thread :
    /\ op[t].at = "verify" => using = None
    /\ op[t].at = "save" => using = None /\ op[t].cur = created /\ created \in info /\ last < created
    /\ op[t].at = "send" => using # None /\ op[t].cur = using

UsingNewest == using # None => last < using /\ \A g \in row : g <= using

SizeKnown == \A f \in File : f > created => size[f] = 0

ParentsKept ==
  \A g \in row : /\ parent[g] < g
                 /\ parent[g] \in row \cup {None}
                 /\ parent[g] = None \/ size[parent[g]] > 0 \/ parent[g] \in unsure

LastWritten == last = None \/ size[last] > 0 \/ last \in unsure

(* DataInOrder holds also for the file that may be written next.               *)
Live == {f \in row : size[f] > 0 \/ kts.file = f}

InOrder ==
  /\ \A f \in Live, g \in row : f < g /\ f \notin lost => f <= parent[g]
  /\ \A f \in Live \ lost : f = using \/ f <= last

(* A closed file is written only until the KT service is told.                 *)
KtsStopped ==
  \A f \in row : f # using /\ f \notin unsure /\ kts.file = f =>
     kts.asked \/ \E t \in Thread : op[t].at = "pause" /\ op[t].cur = f

(* RangeKnown, with the range its thread is about to record.                   *)
RangesTold ==
  \A f \in row \cap Ranged : size[f] > 0 /\ f # using /\ f \notin unsure /\ f \notin queue
                 /\ (\A t \in Thread : op[t].at \in {"pause", "again"} => op[t].cur # f) =>
     IF stamp.file = f THEN stamp.seen = size[f] ELSE range[f] = size[f]

IInv ==
  /\ TypeOK
  /\ Places /\ LockHeld /\ Opening
  /\ UsingNewest /\ SizeKnown /\ ParentsKept /\ LastWritten /\ InOrder
  /\ KtsStopped /\ RangesTold

(* What TypeOK says of numbers: files are not None, rows are files.              *)
LEMMA Numbers ==
  ASSUME TypeOK
  PROVE  /\ MaxFiles \in Nat /\ MaxWrites \in Nat /\ MaxFaults \in Nat /\ created \in Nat
         /\ None \notin File /\ 1 .. created \subseteq File /\ row \subseteq File
         /\ \A f \in 0 .. created : f # None => f \in 1 .. created
         /\ \A f \in File : size[f] \in Nat /\ f \in Nat
<1>1. MaxFiles \in Nat /\ MaxWrites \in Nat /\ MaxFaults \in Nat /\ created \in Nat
  BY BoundAssumption DEF TypeOK
<1>2. None \notin File /\ \A f \in File : f \in Nat
  BY <1>1 DEF File, None
<1>4. 1 .. created \subseteq File
  BY <1>1 DEF TypeOK, File
<1>3. \A f \in File : size[f] \in Nat
  BY <1>1 DEF TypeOK
<1> QED BY <1>1, <1>2, <1>3, <1>4 DEF TypeOK, None

(* Where Close leaves its thread. *)
LEMMA CloseGoto ==
  ASSUME IInv, NEW t \in Thread, Close(t)
  PROVE  \E at \in {"idle", "verify", "pause"}, g \in {None, op[t].cur} :
           /\ op' = [op EXCEPT ![t] = At(at, g)]
           /\ lock' \in {t, Nobody}
           /\ t # "worker" /\ at # "idle" => lock' = t
           /\ at = "verify" <=> t = "change" /\ size[op[t].cur] > 0
           /\ t = "change" => at # "pause"
           /\ size[op[t].cur] > 0 /\ t # "change" => at = "pause" /\ g = op[t].cur
<1>1. lock = Nobody /\ t # Nobody
  BY RequestAssumption DEF Close, Thread, Nobody
<1>2. CASE size[op[t].cur] > 0 /\ t = "change"
  BY <1>1, <1>2 DEF Close, Goto
<1>3. CASE size[op[t].cur] > 0 /\ t = "worker"
  BY <1>1, <1>3 DEF Close, Goto
<1>4. CASE size[op[t].cur] > 0 /\ t \notin {"change", "worker"}
  BY <1>1, <1>4 DEF Close, Goto
<1>5. CASE ~ (size[op[t].cur] > 0) /\ (t \in {"change", "rotate"} \/ Protected(op[t].cur))
  BY <1>1, <1>5 DEF Close, Goto, Release
<1>6. CASE ~ (size[op[t].cur] > 0) /\ ~ (t \in {"change", "rotate"} \/ Protected(op[t].cur)) /\ t = "worker"
  BY <1>1, <1>6 DEF Close, Goto, Release
<1>7. CASE ~ (size[op[t].cur] > 0) /\ ~ (t \in {"change", "rotate"} \/ Protected(op[t].cur)) /\ t # "worker"
  BY <1>1, <1>7 DEF Close, Goto, Release
<1> QED BY <1>2, <1>3, <1>4, <1>5, <1>6, <1>7

(* What Close finds: nobody else is making a file.                             *)
LEMMA CloseFinds ==
  ASSUME IInv, NEW t \in Thread, Close(t)
  PROVE  /\ op[t].cur \in row /\ op[t].cur \in File /\ op[t].at = "begin" /\ t # "refresh"
         /\ \A u \in Thread : op[u].at \notin {"verify", "save", "send"}
         /\ t \in {"change", "rotate"} => using = op[t].cur
         /\ t = "worker" => finished
<1>1. op[t].at = "begin" /\ lock = Nobody /\ Valid(t)
  BY DEF Close
<1>2. t # "refresh" /\ (t = "worker" => finished) /\ op[t].cur # None
  BY <1>1 DEF IInv, Places, May
<1>3. op[t].cur \in row /\ op[t].cur \in File
  BY <1>1, <1>2, Numbers DEF IInv, TypeOK, Valid
<1>4. \A u \in Thread : op[u].at \notin {"verify", "save", "send"}
  BY <1>1, RequestAssumption DEF IInv, LockHeld, Holder, Thread, Nobody
<1>5. t \in {"change", "rotate"} => using = op[t].cur
  BY <1>1 DEF Valid
<1> QED BY <1>1, <1>2, <1>3, <1>4, <1>5

(* Suspend by itself: a row goes only when nothing hangs on it and the token does *)
(* not name it.                                                            *)
LEMMA DropEmpty ==
  ASSUME IInv, NEW f \in row, size[f] = 0, Drop(f), UNCHANGED <<parent, size>>
  PROVE  /\ using' = None /\ last' = last /\ row' \subseteq row /\ info' \subseteq row'
         /\ lost' = lost \cup ({using} \ {None, f})
         /\ last' \in row' \cup {None}
         /\ \A g \in row' : parent'[g] \in row' \cup {None}
         /\ f = using => f \notin row'
<1>1. f \in File /\ f # None /\ f \in Nat
  BY Numbers DEF IInv
<1>2. CASE Protected(f)
  <2>1. f # using
    BY <1>1, <1>2, Numbers DEF IInv, TypeOK, Protected, UsingNewest, ParentsKept, None
  <2> QED BY <1>2, <2>1 DEF IInv, TypeOK, Drop, ParentsKept
<1>3. CASE ~ Protected(f)
  BY <1>3 DEF IInv, TypeOK, Drop, Protected, ParentsKept
<1> QED BY <1>2, <1>3

(* Suspend, of the file that is being written or of another one: the files stay  *)
(* in order, because the one that becomes the last is the newest row.            *)
LEMMA SuspendKeeps ==
  ASSUME IInv, NEW f \in row, Suspend(f), UNCHANGED <<size, kts>>, unsure \subseteq unsure',
         using \in unsure' \cup {None, f}
  PROVE  /\ using' = None /\ row' \subseteq row /\ last' \in row' \cup {None}
         /\ info' \subseteq row' /\ lost' \subseteq 1 .. created
         /\ size[f] > 0 => row' = row /\ last' = (IF using # None THEN using ELSE last)
         /\ size[f] = 0 => last' = last /\ (f = using => using \notin row')
         /\ UsingNewest' /\ SizeKnown' /\ ParentsKept' /\ LastWritten' /\ InOrder'
<1>1. /\ size[f] \in Nat /\ f # None /\ f \in Nat
      /\ using \in row \cup {None} /\ last \in row \cup {None} /\ None \notin row
  BY Numbers DEF IInv, TypeOK
<1>2. UNCHANGED <<created, parent, size, kts>>
  BY DEF Suspend
<1>3. /\ using' = None /\ row' \subseteq row /\ last' \in row' \cup {None}
      /\ \A h \in row' : parent'[h] \in row' \cup {None}
      /\ info' \subseteq row' /\ lost' \subseteq 1 .. created /\ lost \subseteq lost'
      /\ size[f] > 0 => row' = row /\ last' = (IF using # None THEN using ELSE last)
      /\ size[f] = 0 => last' = last /\ (f = using => using \notin row') /\ using \in lost' \cup {None, f}
  <2>1. CASE size[f] > 0
    <3>1. /\ using' = None /\ row' = row /\ last' = IF using # None THEN using ELSE last
          /\ info' = info /\ lost' = lost
      BY <2>1 DEF Suspend, CloseUsing
    <3> QED BY <1>1, <1>2, <2>1, <3>1 DEF IInv, TypeOK, ParentsKept
  <2>2. CASE size[f] = 0
    <3>1. Drop(f) /\ UNCHANGED <<parent, size>>
      BY <1>1, <2>2 DEF Suspend
    <3>2. /\ using' = None /\ last' = last /\ row' \subseteq row /\ info' \subseteq row'
          /\ lost' = lost \cup ({using} \ {None, f})
          /\ last' \in row' \cup {None}
          /\ \A h \in row' : parent'[h] \in row' \cup {None}
          /\ f = using => f \notin row'
      BY <2>2, <3>1, DropEmpty
    <3>3. lost' \subseteq 1 .. created
      BY <1>1, <3>2, Numbers DEF IInv, TypeOK
    <3> QED BY <1>1, <2>2, <3>2, <3>3
  <2> QED BY <1>1, <2>1, <2>2
<1>4. UsingNewest' /\ SizeKnown'
  BY <1>2, <1>3 DEF IInv, UsingNewest, SizeKnown
<1>5. ParentsKept' /\ LastWritten'
  <2>1. ParentsKept'
    BY <1>2, <1>3 DEF IInv, ParentsKept
  <2>2. last' = None \/ size[last'] > 0 \/ last' \in unsure'
    BY <1>1, <1>3 DEF IInv, LastWritten
  <2> QED BY <1>2, <2>1, <2>2 DEF LastWritten
<1>6. InOrder'
  <2>1. Live' \subseteq Live
    BY <1>2, <1>3 DEF Live
  <2>2. \A h \in Live' \ lost' : h <= last'
    BY <1>1, <1>3, <2>1, Numbers DEF IInv, InOrder, UsingNewest, Live
  <2> QED BY <1>2, <1>3, <2>1, <2>2 DEF IInv, InOrder
<1> QED BY <1>3, <1>4, <1>5, <1>6

(* Suspend under the lock, whichever thread closes the file. *)
LEMMA CloseStep == ASSUME IInv, NEW t \in Thread, Close(t) PROVE IInv'
<1> DEFINE f == op[t].cur
<1>1. /\ f \in row /\ f \in File /\ op[t].at = "begin" /\ t # "refresh"
      /\ \A u \in Thread : op[u].at \notin {"verify", "save", "send"}
      /\ t \in {"change", "rotate"} => using = f
      /\ t = "worker" => finished
  BY CloseFinds
<1>2. PICK at \in {"idle", "verify", "pause"}, g \in {None, f} :
        /\ op' = [op EXCEPT ![t] = At(at, g)]
        /\ lock' \in {t, Nobody}
        /\ t # "worker" /\ at # "idle" => lock' = t
        /\ at = "verify" <=> t = "change" /\ size[f] > 0
        /\ t = "change" => at # "pause"
        /\ size[f] > 0 /\ t # "change" => at = "pause" /\ g = f
  BY CloseGoto
<1>3. op'[t].at = at /\ op'[t].cur = g /\ \A u \in Thread : u # t => op'[u] = op[u]
  BY <1>2 DEF IInv, TypeOK, At
<1>4. /\ Suspend(f) /\ unsure' = unsure \cup Doubtful(t)
      /\ UNCHANGED <<created, parent, finished, size, kts, faults>>
      /\ IF t = "worker" THEN range' = [range EXCEPT ![f] = size[f]] /\ UNCHANGED <<queue, stamp>>
                         ELSE Enqueue(f)
      /\ lock = Nobody
  BY DEF Close, Suspend
<1>5. size[f] \in Nat /\ f # None /\ f \in Nat /\ using \in row \cup {None} /\ last \in row \cup {None}
  BY <1>1, Numbers DEF IInv, TypeOK
<1>6. unsure \subseteq unsure'
  BY <1>4
<1>7. /\ using' = None /\ row' \subseteq row /\ last' \in row' \cup {None}
      /\ using # None /\ using # f => using \in unsure'
      /\ size[f] > 0 => row' = row /\ last' = (IF using # None THEN using ELSE last)
      /\ info' \subseteq row' /\ lost' \subseteq 1 .. created
      /\ size[f] = 0 => last' = last /\ (f = using => using \notin row')
      /\ UsingNewest' /\ SizeKnown' /\ ParentsKept' /\ LastWritten' /\ InOrder'
  BY <1>1, <1>4, <1>5, <1>6, SuspendKeeps DEF Doubtful
<1>11. TypeOK'
  <2>1. unsure' \subseteq 1 .. created
    BY <1>1, <1>4, <1>5 DEF IInv, TypeOK, Doubtful
  <2>2. queue' \subseteq 1 .. created /\ stamp' = stamp
    BY <1>1, <1>4 DEF IInv, TypeOK, Enqueue
  <2>3. range' \in [File -> 0 .. MaxWrites]
    <3>1. size[f] \in 0 .. MaxWrites
      BY <1>1 DEF IInv, TypeOK
    <3> QED BY <1>1, <1>4, <3>1 DEF IInv, TypeOK, Enqueue
  <2>4. op' \in [Thread -> [at : OpAt, cur : 0 .. created]]
    <3>1. At(at, g) \in [at : OpAt, cur : 0 .. created]
      BY <1>1, <1>5, Numbers DEF IInv, TypeOK, At, OpAt, None
    <3> QED BY <1>2, <3>1 DEF IInv, TypeOK
  <2> QED BY <1>2, <1>4, <1>7, <2>1, <2>2, <2>3, <2>4 DEF IInv, TypeOK
<1>12. Places'
  BY <1>1, <1>2, <1>3, <1>4, RequestAssumption DEF IInv, Places, May, Thread
<1>13. LockHeld'
  BY <1>1, <1>2, <1>3, <1>4, RequestAssumption DEF IInv, LockHeld, Holder, Nobody, Thread
<1>14. Opening'
  BY <1>1, <1>2, <1>3, <1>7 DEF IInv, Opening
<1>20. KtsStopped'
  <2> SUFFICES ASSUME NEW h \in row', h \notin unsure', kts.file = h
               PROVE  kts.asked \/ \E u \in Thread : op'[u].at = "pause" /\ op'[u].cur = h
    BY <1>4 DEF KtsStopped
  <2>1. CASE h = using
    <3>1. h = f /\ size[f] > 0
      BY <1>5, <1>7, <2>1, Numbers DEF IInv
    <3>2. CASE t = "change"
      BY <1>4, <3>1, <3>2 DEF Doubtful
    <3>3. CASE t # "change"
      BY <1>2, <1>3, <3>1, <3>3
    <3> QED BY <3>2, <3>3
  <2>2. CASE h # using
    <3>1. kts.asked \/ \E u \in Thread : op[u].at = "pause" /\ op[u].cur = h
      BY <1>4, <1>7, <2>2 DEF IInv, KtsStopped
    <3> QED BY <1>1, <1>3, <3>1
  <2> QED BY <2>1, <2>2
<1>21. RangesTold'
  <2>1. /\ stamp' = stamp /\ queue \subseteq queue'
        /\ \A h \in row : h # f => range'[h] = range[h]
        /\ t # "worker" /\ size[f] > 0 /\ f \in Ranged => f \in queue'
    <3>1. \A h \in row : h # f => range'[h] = range[h]
      BY <1>1, <1>4, Numbers DEF IInv, TypeOK, Enqueue
    <3> QED BY <1>4, <3>1 DEF Enqueue
  <2>2. ASSUME NEW h \in row' \cap Ranged, size[h] > 0, h \notin unsure', h \notin queue',
               \A u \in Thread : op'[u].at \in {"pause", "again"} => op'[u].cur # h
        PROVE  h # f /\ h # using /\ \A u \in Thread : op[u].at \in {"pause", "again"} => op[u].cur # h
    <3>1. h # f
      BY <1>2, <1>3, <2>1, <2>2
    <3>2. h # using
      BY <1>5, <1>7, <2>2, <3>1, Numbers DEF IInv
    <3> QED BY <1>1, <1>3, <2>2, <3>1, <3>2
  <2> QED BY <1>4, <1>6, <1>7, <2>1, <2>2 DEF IInv, RangesTold
<1> QED
  BY <1>11, <1>12, <1>13, <1>7, <1>14, <1>20, <1>21 DEF IInv

(* A new row, made while no file is being written and by who holds the lock.     *)
LEMMA GenerateStep ==
  ASSUME IInv, NEW t \in {"refresh", "change"}, Generate(t),
         using = None, ~ finished,
         \A u \in Thread : u # t => ~ Holder(u), op[t].at \in {"idle", "verify"},
         UNCHANGED <<rangeVars, finished, size, kts, faults, unsure>>
  PROVE  IInv'
<1>1. /\ created' = created + 1 /\ row' = row \cup {created'} /\ created' \in File
      /\ info' = info \cup {created'}
      /\ parent' = [parent EXCEPT ![created'] = last]
      /\ UNCHANGED <<using, last, lost>>
  BY Numbers DEF IInv, Generate, File
<1>2. /\ op' \in [Thread -> [at : OpAt, cur : 0 .. created']]
      /\ op'[t].at = "save" /\ op'[t].cur = created' /\ lock' = t
      /\ \A u \in Thread : u # t => op'[u] = op[u]
  BY <1>1, Numbers, RequestAssumption DEF IInv, TypeOK, Generate, Goto, At, OpAt, Thread
<1>3. created' \notin row /\ last < created' /\ last \in row \cup {None} /\ size[created'] = 0
  BY <1>1, Numbers DEF IInv, TypeOK, SizeKnown, None
<1>4. /\ parent'[created'] = last
      /\ \A g \in row : parent'[g] = parent[g]
  BY <1>1, <1>3, Numbers DEF IInv, TypeOK
<1>11. TypeOK'
  <2>1. parent' \in [File -> 0 .. MaxFiles]
    <3>1. last \in 0 .. MaxFiles
      BY Numbers DEF IInv, TypeOK, File, None
    <3> QED BY <1>1, <3>1 DEF IInv, TypeOK
  <2>2. /\ created' \in 0 .. MaxFiles /\ row' \subseteq 1 .. created' /\ 0 .. created \subseteq 0 .. created'
        /\ info' \subseteq row' /\ lost' \subseteq 1 .. created'
    <3>1. created \in Nat /\ MaxFiles \in Nat /\ created' = created + 1 /\ created' \in 1 .. MaxFiles
      BY <1>1, Numbers DEF IInv, File
    <3>2. 0 .. created \subseteq 0 .. created' /\ 1 .. created \subseteq 1 .. created' /\ created' \in 1 .. created'
      BY <3>1
    <3>3. row \subseteq 1 .. created /\ info \subseteq row /\ lost \subseteq 1 .. created
      BY DEF IInv, TypeOK
    <3>4. created' \in 0 .. MaxFiles
      BY <3>1
    <3> QED BY <1>1, <3>2, <3>3, <3>4
  <2>3. kts \in [file : 0 .. created', asked : BOOLEAN] /\ stamp \in [file : 0 .. created', seen : 0 .. MaxWrites]
    BY <2>2 DEF IInv, TypeOK
  <2>4. queue \subseteq 1 .. created' /\ unsure \subseteq 1 .. created'
    BY <1>1, Numbers DEF IInv, TypeOK
  <2> QED BY <1>1, <1>2, <2>1, <2>2, <2>3, <2>4, RequestAssumption DEF IInv, TypeOK, rangeVars, Thread
<1>12. Places'
  BY <1>2, RequestAssumption DEF IInv, Places, May, Thread
<1>13. LockHeld' /\ Opening'
  BY <1>1, <1>2, <1>3 DEF IInv, LockHeld, Opening, Holder
<1>14. UsingNewest' /\ SizeKnown' /\ LastWritten'
  BY <1>1, Numbers DEF IInv, UsingNewest, SizeKnown, LastWritten
<1>15. ParentsKept'
  BY <1>1, <1>3, <1>4 DEF IInv, ParentsKept, LastWritten, None
<1>16. Live' = Live
  BY <1>1, <1>3, Numbers DEF IInv, TypeOK, Live
<1>17. InOrder'
  BY <1>1, <1>3, <1>4, <1>16, Numbers DEF IInv, InOrder, Live
<1>19. KtsStopped'
  BY <1>1, <1>2, Numbers DEF IInv, TypeOK, KtsStopped, Holder
<1>20. RangesTold'
  BY <1>1, <1>2, <1>3 DEF IInv, RangesTold, rangeVars, Holder
<1> QED
  BY <1>11, <1>12, <1>13, <1>14, <1>15, <1>17, <1>19, <1>20 DEF IInv

(* The new row becomes the file that is being written. *)
LEMMA SaveUsingStep == ASSUME IInv, NEW t \in Thread, SaveUsing(t) PROVE IInv'
<1>1. /\ op[t].at = "save" /\ op[t].cur = created /\ created \in info /\ created \in row /\ last < created /\ using = None
      /\ \A u \in Thread : u # t => ~ Holder(u)
  BY DEF IInv, TypeOK, SaveUsing, LockHeld, Holder, Opening
<1>2. /\ using' = created /\ lock' = t
      /\ op'[t].at = "send" /\ op'[t].cur = created /\ \A u \in Thread : u # t => op'[u] = op[u]
      /\ UNCHANGED <<created, row, info, parent, last, lost, rangeVars, finished, size, kts, faults, unsure>>
  BY <1>1 DEF IInv, TypeOK, SaveUsing, Goto, At
<1>3. created # None
  BY <1>1, Numbers DEF IInv
<1>4. TypeOK'
  BY <1>1 DEF IInv, TypeOK, SaveUsing, Goto, At, OpAt, rangeVars
<1>5. Places' /\ LockHeld' /\ Opening'
  BY <1>1, <1>2, <1>3, RequestAssumption DEF IInv, Places, May, LockHeld, Opening, Holder, Thread
<1>6. UsingNewest' /\ SizeKnown' /\ ParentsKept' /\ LastWritten'
  <2>1. \A g \in row : g <= created
    BY DEF IInv, TypeOK
  <2>2. UsingNewest'
    BY <1>1, <1>2, <2>1 DEF UsingNewest
  <2> QED BY <1>2, <2>2 DEF IInv, SizeKnown, ParentsKept, LastWritten
<1>7. InOrder'
  BY <1>1, <1>2, Numbers DEF IInv, InOrder, Live
<1>9. KtsStopped' /\ RangesTold'
  BY <1>1, <1>2, Numbers DEF IInv, KtsStopped, RangesTold, rangeVars, Holder
<1> QED BY <1>4, <1>5, <1>6, <1>7, <1>9 DEF IInv

(* The KT service is told of the file the token uses. *)
LEMMA SendStep == ASSUME IInv, NEW t \in Thread, Send(t) PROVE IInv'
<1>1. op[t].at = "send" /\ op[t].cur = using /\ using # None
  BY DEF IInv, Send, Opening
<1>2. /\ kts' = [file |-> using, asked |-> kts.asked /\ kts.file = using]
      /\ op'[t].at = "idle" /\ \A u \in Thread : u # t => op'[u] = op[u]
      /\ lock' = (IF lock = t THEN Nobody ELSE lock)
      /\ UNCHANGED <<tokenVars, rangeVars, finished, size, faults, unsure>>
  BY <1>1 DEF IInv, TypeOK, Send, Told, Release, Goto, At
<1>3. TypeOK'
  BY DEF IInv, TypeOK, Send, Told, Release, Goto, At, OpAt, None, tokenVars, rangeVars
<1>4. Places' /\ LockHeld' /\ Opening'
  BY <1>2, RequestAssumption DEF IInv, Places, May, LockHeld, Opening, Holder, Thread, tokenVars
<1>5. UsingNewest' /\ SizeKnown' /\ ParentsKept' /\ LastWritten'
  BY <1>2 DEF IInv, UsingNewest, SizeKnown, ParentsKept, LastWritten, tokenVars
<1>6. kts'.file = using
  BY <1>2
<1>7. InOrder'
  BY <1>1, <1>2, <1>6, Numbers DEF IInv, InOrder, Live, UsingNewest, tokenVars
<1>9. KtsStopped' /\ RangesTold'
  BY <1>1, <1>2, <1>6 DEF IInv, KtsStopped, RangesTold, tokenVars, rangeVars
<1> QED BY <1>3, <1>4, <1>5, <1>7, <1>9 DEF IInv

(* The file nobody was told of is given up: it is the newest, so nothing hangs on it. *)
LEMMA SendFailsStep == ASSUME IInv, NEW t \in Thread, SendFails(t) PROVE IInv'
<1> DEFINE f == op[t].cur
<1>1. /\ op[t].at = "send" /\ f = using /\ using # None /\ using \in row
      /\ \A u \in Thread : u # t => ~ Holder(u)
  BY DEF IInv, TypeOK, SendFails, LockHeld, Holder, Opening
<1>2. /\ Suspend(f) /\ Enqueue(f) /\ unsure' = unsure \cup {f}
      /\ op' = [op EXCEPT ![t] = At("idle", None)] /\ lock' = (IF lock = t THEN Nobody ELSE lock)
      /\ faults < MaxFaults /\ faults' = faults + 1
      /\ UNCHANGED <<created, parent, finished, size, kts>>
  BY DEF SendFails, Suspend, Release, Goto, NotTold, Fault
<1>3. /\ op'[t].at = "idle" /\ \A u \in Thread : u # t => op'[u] = op[u]
      /\ op' \in [Thread -> [at : OpAt, cur : 0 .. created]]
  BY <1>2, Numbers DEF IInv, TypeOK, At, OpAt, None
<1>4. /\ using' = None /\ row' \subseteq row /\ last' \in row' \cup {None}
      /\ size[f] > 0 => row' = row /\ last' = (IF using # None THEN using ELSE last)
      /\ info' \subseteq row' /\ lost' \subseteq 1 .. created
      /\ size[f] = 0 => last' = last /\ (f = using => using \notin row')
      /\ UsingNewest' /\ SizeKnown' /\ ParentsKept' /\ LastWritten' /\ InOrder'
  BY <1>1, <1>2, SuspendKeeps
<1>5. f \in 1 .. created /\ size[f] \in Nat
  BY <1>1, Numbers DEF IInv, TypeOK
<1>6. TypeOK'
  <2>1. queue' \subseteq 1 .. created /\ unsure' \subseteq 1 .. created
    BY <1>2, <1>5 DEF IInv, TypeOK, Enqueue
  <2>2. faults' \in 0 .. MaxFaults
    BY <1>2, BoundAssumption DEF IInv, TypeOK
  <2> QED BY <1>2, <1>3, <1>4, <2>1, <2>2 DEF IInv, TypeOK, Enqueue
<1>7. Places' /\ LockHeld' /\ Opening'
  BY <1>1, <1>2, <1>3, <1>4, RequestAssumption DEF IInv, Places, May, LockHeld, Opening, Holder, Thread
<1>9. KtsStopped' /\ RangesTold'
  BY <1>1, <1>2, <1>3, <1>4 DEF IInv, KtsStopped, RangesTold, Enqueue
<1> QED BY <1>4, <1>6, <1>7, <1>9 DEF IInv

(* The KT service stops writing when it asks for another file. *)
LEMMA KtsAsksStep == ASSUME IInv, KtsAsks PROVE IInv'
<1>1. kts' = [file |-> kts.file, asked |-> TRUE]
  BY DEF IInv, TypeOK, KtsAsks
<1>2. kts' \in [file : 0 .. created', asked : BOOLEAN]
  BY <1>1 DEF IInv, TypeOK, KtsAsks, tokenVars
<1>3. op' \in [Thread -> [at : OpAt, cur : 0 .. created']]
  BY DEF IInv, TypeOK, KtsAsks, tokenVars, At, OpAt
<1>4. TypeOK'
  BY <1>2, <1>3 DEF IInv, TypeOK, KtsAsks, tokenVars, rangeVars
<1>5. /\ op["change"].at = "idle" /\ op'["change"].at = "begin" /\ op'["change"].cur = kts.file
      /\ \A u \in Thread : u # "change" => op'[u] = op[u]
  BY RequestAssumption DEF IInv, TypeOK, KtsAsks, Idle, At, Thread
<1>6. kts'.file = kts.file /\ kts'.asked
  BY <1>1
<1>7. Places' /\ LockHeld' /\ Opening'
  BY <1>5, RequestAssumption DEF IInv, KtsAsks, Places, May, LockHeld, Opening, Holder, Thread, tokenVars
<1>8. UsingNewest' /\ SizeKnown' /\ ParentsKept' /\ LastWritten' /\ InOrder'
  BY <1>6 DEF IInv, KtsAsks, UsingNewest, SizeKnown, ParentsKept, LastWritten, InOrder, Live, tokenVars
<1>9. KtsStopped' /\ RangesTold'
  BY <1>5, <1>6, RequestAssumption DEF IInv, KtsAsks, KtsStopped, RangesTold, tokenVars, rangeVars, Thread
<1> QED BY <1>4, <1>7, <1>8, <1>9 DEF IInv

(* A thread reads the token: its file is not stale yet. *)
LEMMA ReadUsingStep == ASSUME IInv, NEW t \in Thread, ReadUsing(t) PROVE IInv'
<1>1. /\ t \in {"rotate"} \cup Request /\ using # None /\ op[t].at = "idle"
      /\ op'[t].at = "begin" /\ op'[t].cur = using /\ \A u \in Thread : u # t => op'[u] = op[u]
      /\ UNCHANGED <<tokenVars, rangeVars, finished, size, kts, lock, faults, unsure>>
  BY DEF IInv, TypeOK, ReadUsing, Idle, At
<1>2. TypeOK'
  BY DEF IInv, TypeOK, ReadUsing, At, OpAt, tokenVars, rangeVars
<1>3. Places' /\ LockHeld' /\ Opening'
  BY <1>1, RequestAssumption DEF IInv, Places, May, LockHeld, Opening, Holder, Thread, tokenVars
<1>4. UsingNewest' /\ SizeKnown' /\ ParentsKept' /\ LastWritten' /\ InOrder'
  BY <1>1 DEF IInv, UsingNewest, SizeKnown, ParentsKept, LastWritten, InOrder, Live, tokenVars
<1>5. KtsStopped' /\ RangesTold'
  BY <1>1, RequestAssumption DEF IInv, KtsStopped, RangesTold, tokenVars, rangeVars, Thread
<1> QED BY <1>2, <1>3, <1>4, <1>5 DEF IInv

(* A file that is not there any more is not closed. *)
LEMMA InvalidStep == ASSUME IInv, NEW t \in Thread, Invalid(t) PROVE IInv'
<1>1. /\ op[t].at = "begin" /\ lock = Nobody
      /\ op'[t].at = "idle" /\ \A u \in Thread : u # t => op'[u] = op[u]
      /\ lock' = lock
      /\ UNCHANGED <<tokenVars, rangeVars, finished, size, kts, faults, unsure>>
  BY DEF IInv, TypeOK, Invalid, Release, Goto, At
<1>2. TypeOK'
  BY DEF IInv, TypeOK, Invalid, Release, Goto, At, OpAt, None, tokenVars, rangeVars
<1>3. Places' /\ LockHeld' /\ Opening'
  BY <1>1, RequestAssumption DEF IInv, Places, May, LockHeld, Opening, Holder, Thread, tokenVars
<1>4. UsingNewest' /\ SizeKnown' /\ ParentsKept' /\ LastWritten' /\ InOrder'
  BY <1>1 DEF IInv, UsingNewest, SizeKnown, ParentsKept, LastWritten, InOrder, Live, tokenVars
<1>5. KtsStopped' /\ RangesTold'
  BY <1>1, RequestAssumption DEF IInv, KtsStopped, RangesTold, tokenVars, rangeVars, Thread
<1> QED BY <1>2, <1>3, <1>4, <1>5 DEF IInv

(* The KT service is told to stop. *)
LEMMA PauseStep == ASSUME IInv, NEW t \in Thread, Pause(t) PROVE IInv'
<1>1. /\ op[t].at = "pause" /\ kts'.file = None
      /\ op'[t].at \in {"idle", "again"}
      /\ op'[t].at = "again" <=> op[t].cur # None
      /\ op[t].cur # None => op'[t].cur = op[t].cur
      /\ \A u \in Thread : u # t => op'[u] = op[u]
      /\ op'[t].at = "idle" => lock' = (IF lock = t THEN Nobody ELSE lock)
      /\ op'[t].at = "again" => lock' = lock
      /\ UNCHANGED <<tokenVars, rangeVars, finished, size, faults, unsure>>
  BY DEF IInv, TypeOK, Pause, Told, NoToken, Release, Goto, At
<1>2. TypeOK'
  BY DEF IInv, TypeOK, Pause, Told, NoToken, Release, Goto, At, OpAt, None, tokenVars, rangeVars
<1>3. Places' /\ LockHeld' /\ Opening'
  BY <1>1, RequestAssumption DEF IInv, Places, May, LockHeld, Opening, Holder, Thread, tokenVars
<1>4. UsingNewest' /\ SizeKnown' /\ ParentsKept' /\ LastWritten' /\ InOrder'
  BY <1>1, Numbers DEF IInv, UsingNewest, SizeKnown, ParentsKept, LastWritten, InOrder, Live, tokenVars
<1>5. KtsStopped' /\ RangesTold'
  BY <1>1, Numbers, RequestAssumption DEF IInv, KtsStopped, RangesTold, tokenVars, rangeVars, Thread
<1> QED BY <1>2, <1>3, <1>4, <1>5 DEF IInv

(* It is not told: what it goes on writing is in unsure. *)
LEMMA PauseFailsStep == ASSUME IInv, NEW t \in Thread, PauseFails(t) PROVE IInv'
<1>1. /\ op[t].at = "pause"
      /\ op'[t].at \in {"idle", "again"}
      /\ op'[t].at = "again" => op[t].cur # None
      /\ op'[t].at = "again" => op'[t].cur = op[t].cur
      /\ \A u \in Thread : u # t => op'[u] = op[u]
      /\ op'[t].at = "idle" => lock' = (IF lock = t THEN Nobody ELSE lock)
      /\ op'[t].at = "again" => lock' = lock
      /\ unsure' = unsure \cup ({op[t].cur, kts.file} \ {None})
      /\ UNCHANGED <<tokenVars, rangeVars, finished, size, kts>>
  BY DEF IInv, TypeOK, PauseFails, NotTold, Release, Goto, At
<1>2. TypeOK'
  <2>1. op[t].cur \in 0 .. created /\ kts.file \in 0 .. created
    BY DEF IInv, TypeOK
  <2>2. unsure' \subseteq 1 .. created
    BY <1>1, <2>1, Numbers DEF IInv, TypeOK
  <2>3. op' \in [Thread -> [at : OpAt, cur : 0 .. created]]
    BY DEF IInv, TypeOK, PauseFails, Release, Goto, At, OpAt, None
  <2>4. lock' \in Thread \cup {Nobody}
    BY DEF IInv, TypeOK, PauseFails, Release, Goto
  <2>5. faults' \in 0 .. MaxFaults
    BY BoundAssumption DEF IInv, TypeOK, PauseFails, NotTold, Fault
  <2> QED BY <1>1, <2>2, <2>3, <2>4, <2>5 DEF IInv, TypeOK, tokenVars, rangeVars
<1>3. Places' /\ LockHeld' /\ Opening'
  BY <1>1, RequestAssumption DEF IInv, Places, May, LockHeld, Opening, Holder, Thread, tokenVars
<1>4. UsingNewest' /\ SizeKnown' /\ ParentsKept' /\ LastWritten' /\ InOrder'
  BY <1>1 DEF IInv, UsingNewest, SizeKnown, ParentsKept, LastWritten, InOrder, Live, tokenVars
<1>6. KtsStopped' /\ RangesTold'
  BY <1>1, Numbers DEF IInv, KtsStopped, RangesTold, tokenVars, rangeVars
<1> QED BY <1>2, <1>3, <1>4, <1>6 DEF IInv

(* The second request for the range puts the file in the queue. *)
LEMMA AgainStep == ASSUME IInv, NEW t \in Thread, Again(t) PROVE IInv'
<1>1. /\ op[t].at = "again" /\ Enqueue(op[t].cur)
      /\ op'[t].at = "idle" /\ \A u \in Thread : u # t => op'[u] = op[u]
      /\ lock' = (IF lock = t THEN Nobody ELSE lock)
      /\ UNCHANGED <<tokenVars, finished, size, kts, faults, unsure>>
  BY DEF IInv, TypeOK, Again, Release, Goto, At
<1>2. TypeOK'
  <2>1. op[t].cur \in 1 .. created
    BY <1>1, Numbers DEF IInv, TypeOK, Places, May
  <2>2. queue' \subseteq 1 .. created
    BY <1>1, <2>1 DEF IInv, TypeOK, Enqueue
  <2>3. op' \in [Thread -> [at : OpAt, cur : 0 .. created]]
    BY DEF IInv, TypeOK, Again, Release, Goto, At, OpAt, None
  <2> QED BY <1>1, <2>2, <2>3 DEF IInv, TypeOK, Enqueue, tokenVars
<1>3. Places' /\ LockHeld' /\ Opening'
  BY <1>1, RequestAssumption DEF IInv, Places, May, LockHeld, Opening, Holder, Thread, tokenVars
<1>4. UsingNewest' /\ SizeKnown' /\ ParentsKept' /\ LastWritten' /\ InOrder'
  BY <1>1 DEF IInv, UsingNewest, SizeKnown, ParentsKept, LastWritten, InOrder, Live, tokenVars
<1>5. KtsStopped'
  BY <1>1, RequestAssumption DEF IInv, KtsStopped, tokenVars, Thread
<1>6. RangesTold'
  BY <1>1 DEF IInv, RangesTold, Enqueue, tokenVars
<1> QED BY <1>2, <1>3, <1>4, <1>5, <1>6 DEF IInv

(* The end of the task. *)
LEMMA FinishStep == ASSUME IInv, Finish PROVE IInv'
<1>1. /\ op["worker"].at = "idle" /\ op'["worker"].at = "read" /\ finished'
      /\ \A u \in Thread : u # "worker" => op'[u] = op[u]
      /\ UNCHANGED <<tokenVars, rangeVars, size, kts, lock, faults, unsure>>
  BY RequestAssumption DEF IInv, TypeOK, Finish, Idle, At, Thread
<1>2. TypeOK'
  <2>1. op' \in [Thread -> [at : OpAt, cur : 0 .. created]]
    <3>1. At("read", None) \in [at : OpAt, cur : 0 .. created]
      BY Numbers DEF IInv, At, OpAt, None
    <3> QED BY <3>1 DEF IInv, TypeOK, Finish
  <2>2. finished' \in BOOLEAN
    BY DEF Finish
  <2> QED BY <1>1, <2>1, <2>2 DEF IInv, TypeOK, tokenVars, rangeVars
<1>3. Places' /\ LockHeld' /\ Opening'
  BY <1>1, RequestAssumption DEF IInv, Places, May, LockHeld, Opening, Holder, Thread, tokenVars
<1>4. UsingNewest' /\ SizeKnown' /\ ParentsKept' /\ LastWritten' /\ InOrder'
  BY <1>1 DEF IInv, UsingNewest, SizeKnown, ParentsKept, LastWritten, InOrder, Live, tokenVars
<1>5. KtsStopped' /\ RangesTold'
  BY <1>1, RequestAssumption DEF IInv, KtsStopped, RangesTold, tokenVars, rangeVars, Thread
<1> QED BY <1>2, <1>3, <1>4, <1>5 DEF IInv

(* The end of the task reads the token: its file is not stale yet. *)
LEMMA ReadTokenStep == ASSUME IInv, ReadToken PROVE IInv'
<1>1. /\ op["worker"].at = "read" /\ op'["worker"].at = "remove" /\ op'["worker"].cur = using
      /\ \A u \in Thread : u # "worker" => op'[u] = op[u]
      /\ UNCHANGED <<tokenVars, rangeVars, finished, size, kts, lock, faults, unsure>>
  BY RequestAssumption DEF IInv, TypeOK, ReadToken, At, Thread
<1>2. TypeOK'
  <2>1. op' \in [Thread -> [at : OpAt, cur : 0 .. created]]
    <3>1. At("remove", using) \in [at : OpAt, cur : 0 .. created]
      BY Numbers DEF IInv, TypeOK, At, OpAt, None
    <3> QED BY <3>1 DEF IInv, TypeOK, ReadToken
  <2> QED BY <1>1, <2>1 DEF IInv, TypeOK, tokenVars, rangeVars
<1>3. Places' /\ LockHeld' /\ Opening'
  BY <1>1, RequestAssumption DEF IInv, Places, May, LockHeld, Opening, Holder, Thread, tokenVars
<1>4. UsingNewest' /\ SizeKnown' /\ ParentsKept' /\ LastWritten' /\ InOrder'
  BY <1>1 DEF IInv, UsingNewest, SizeKnown, ParentsKept, LastWritten, InOrder, Live, tokenVars
<1>5. KtsStopped' /\ RangesTold'
  BY <1>1, RequestAssumption DEF IInv, KtsStopped, RangesTold, tokenVars, rangeVars, Thread
<1> QED BY <1>2, <1>3, <1>4, <1>5 DEF IInv

(* The token is removed from the KT service, or the call fails. *)
LEMMA RemoveStep == ASSUME IInv, Remove PROVE IInv'
<1>1. /\ kts' \in [file : 0 .. created, asked : BOOLEAN] /\ faults' \in 0 .. MaxFaults
      /\ kts' = kts \/ kts'.file = None
  <2>1. CASE Told(NoToken)
    BY <2>1, Numbers DEF IInv, TypeOK, Told, NoToken, None
  <2>2. CASE NotTold
    BY <2>2, BoundAssumption DEF IInv, TypeOK, NotTold, Fault
  <2> QED BY <2>1, <2>2 DEF Remove
<1>2. /\ op["worker"].at \in {"remove", "rework"}
      /\ op'["worker"].at \in {"idle", "begin"}
      /\ op'["worker"].at = "begin" =>
           op["worker"].at = "remove" /\ op["worker"].cur # None /\ op'["worker"].cur = op["worker"].cur
      /\ \A u \in Thread : u # "worker" => op'[u] = op[u]
      /\ UNCHANGED <<tokenVars, rangeVars, finished, size, lock, unsure>>
  BY RequestAssumption DEF IInv, TypeOK, Remove, Places, May, Idle, At, Thread
<1>3. TypeOK'
  <2>1. op' \in [Thread -> [at : OpAt, cur : 0 .. created]]
    BY DEF IInv, TypeOK, Remove, tokenVars, At, Idle, OpAt, None
  <2> QED BY <1>1, <1>2, <2>1 DEF IInv, TypeOK, tokenVars, rangeVars
<1>4. Places' /\ LockHeld' /\ Opening'
  BY <1>2, RequestAssumption DEF IInv, Places, May, LockHeld, Opening, Holder, Thread, tokenVars
<1>5. UsingNewest' /\ SizeKnown' /\ ParentsKept' /\ LastWritten' /\ InOrder'
  BY <1>1, <1>2, Numbers DEF IInv, UsingNewest, SizeKnown, ParentsKept, LastWritten, InOrder, Live, tokenVars
<1>7. KtsStopped' /\ RangesTold'
  BY <1>1, <1>2, Numbers, RequestAssumption DEF IInv, KtsStopped, RangesTold, tokenVars, rangeVars, Thread
<1> QED BY <1>3, <1>4, <1>5, <1>7 DEF IInv

(* What is left unchanged by the thread of time stamps leaves the rest alone.      *)
LEMMA StampStep ==
  ASSUME IInv, UNCHANGED <<tokenVars, finished, size, kts, lock, op, faults, unsure>>, TypeOK', RangesTold'
  PROVE  IInv'
<1>1. Places' /\ LockHeld' /\ Opening'
  BY DEF IInv, Places, May, LockHeld, Opening, Holder, tokenVars
<1>2. UsingNewest' /\ SizeKnown' /\ ParentsKept' /\ LastWritten' /\ InOrder'
  BY DEF IInv, UsingNewest, SizeKnown, ParentsKept, LastWritten, InOrder, Live, tokenVars
<1>3. KtsStopped'
  BY DEF IInv, KtsStopped, tokenVars
<1> QED BY <1>1, <1>2, <1>3 DEF IInv

(* The thread of time stamps is told the range of a file ... *)
LEMMA QueryStep == ASSUME IInv, Query PROVE IInv'
<1>1. PICK f \in queue : queue' = queue \ {f} /\ stamp' = [file |-> f, seen |-> size[f]]
  BY DEF Query
<1>2. f \in File /\ f \in 1 .. created /\ size[f] \in 0 .. MaxWrites
  BY <1>1, Numbers DEF IInv, TypeOK
<1>3. stamp' \in [file : 0 .. created, seen : 0 .. MaxWrites]
  BY <1>1, <1>2
<1>4. TypeOK'
  BY <1>1, <1>3 DEF IInv, TypeOK, Query, tokenVars
<1>5. stamp'.file = f /\ stamp'.seen = size[f]
  BY <1>1
<1>6. RangesTold'
  BY <1>1, <1>2, <1>5 DEF IInv, TypeOK, RangesTold, Query, tokenVars, None
<1> QED BY <1>4, <1>6, StampStep DEF Query

(* ... and records it; a file closed since is in the queue again. *)
LEMMA RecordStep == ASSUME IInv, Record PROVE IInv'
<1>1. stamp.file \in File /\ stamp.seen \in 0 .. MaxWrites
  BY Numbers DEF IInv, TypeOK, Record
<1>2. range' \in [File -> 0 .. MaxWrites]
  BY <1>1 DEF IInv, TypeOK, Record
<1>3. stamp' = [file |-> 0, seen |-> 0] /\ 0 \in 0 .. created /\ 0 \in 0 .. MaxWrites
  BY BoundAssumption DEF IInv, TypeOK, Record, None
<1>4. stamp' \in [file : 0 .. created, seen : 0 .. MaxWrites]
  BY <1>3
<1>5. TypeOK'
  BY <1>2, <1>4 DEF IInv, TypeOK, Record, tokenVars
<1>6. range'[stamp.file] = stamp.seen /\ \A f \in File : f # stamp.file => range'[f] = range[f]
  BY <1>1 DEF IInv, TypeOK, Record
<1>7. \A f \in row : f \in File /\ f # stamp'.file
  BY <1>3, Numbers DEF IInv, None
<1>8. RangesTold'
  BY <1>6, <1>7 DEF IInv, RangesTold, Record, tokenVars
<1> QED BY <1>5, <1>8, StampStep DEF Record

(* A write goes to the file that is used, to one in unsure, or to one about to be paused. *)
LEMMA KtsWritesStep == ASSUME IInv, KtsWrites PROVE IInv'
<1>1. kts.file \in File /\ kts.file \in 1 .. created /\ ~ kts.asked
  BY Numbers DEF IInv, TypeOK, KtsWrites
<1>2. size[kts.file] + 1 \in 0 .. MaxWrites
  BY <1>1, BoundAssumption DEF IInv, TypeOK, KtsWrites
<1>3. size' = [size EXCEPT ![kts.file] = size[kts.file] + 1]
  BY DEF KtsWrites
<1>4. size' \in [File -> 0 .. MaxWrites]
  BY <1>1, <1>2, <1>3 DEF IInv, TypeOK
<1>5. TypeOK'
  BY <1>4 DEF IInv, TypeOK, KtsWrites, tokenVars, rangeVars
<1>6. /\ \A f \in File : f # kts.file => size'[f] = size[f]
      /\ \A f \in File : size[f] > 0 => size'[f] > 0
      /\ \A f \in File : size'[f] = 0 => size[f] = 0
  BY <1>1, <1>3, Numbers DEF IInv, TypeOK
<1>7. row \subseteq File /\ using \in File \cup {None} /\ last \in File \cup {None}
  BY Numbers DEF IInv, TypeOK
<1>8. Places' /\ LockHeld' /\ Opening' /\ UsingNewest' /\ KtsStopped'
  BY DEF IInv, KtsWrites, Places, May, LockHeld, Opening, Holder, UsingNewest, KtsStopped, tokenVars
<1>9. SizeKnown'
  BY <1>1, <1>6, Numbers DEF IInv, SizeKnown, KtsWrites, tokenVars
<1>10. ParentsKept' /\ LastWritten'
  BY <1>6, <1>7 DEF IInv, ParentsKept, LastWritten, KtsWrites, tokenVars
<1>11. InOrder'
  <2>1. Live' = Live
    BY <1>6, <1>7, <1>1, Numbers DEF IInv, Live, KtsWrites, tokenVars
  <2> QED BY <2>1 DEF IInv, InOrder, KtsWrites, tokenVars
<1>13. RangesTold'
  BY <1>1, <1>6, <1>7 DEF IInv, RangesTold, KtsStopped, KtsWrites, tokenVars, rangeVars
<1> QED BY <1>5, <1>8, <1>9, <1>10, <1>11, <1>13 DEF IInv

(* Threads and the queue are lost; the files they were about are in unsure. *)
LEMMA RestartStep == ASSUME IInv, Restart PROVE IInv'
<1>1. stamp' = [file |-> 0, seen |-> 0] /\ 0 \in 0 .. created /\ 0 \in 0 .. MaxWrites
  BY BoundAssumption DEF IInv, TypeOK, Restart, None
<1>2. \A t \in Thread : op[t].cur \in 0 .. created
  BY DEF IInv, TypeOK
<1>3. /\ \A t \in Thread : op'[t].at \in {"idle", "rework"} /\ op'[t].cur = None
      /\ \A t \in Thread : op'[t].at = "rework" => t = "worker"
      /\ op' \in [Thread -> [at : OpAt, cur : 0 .. created]]
  BY <1>1 DEF Restart, Idle, At, OpAt, None
<1>4. TypeOK'
  <2>1. stamp' \in [file : 0 .. created, seen : 0 .. MaxWrites]
    BY <1>1
  <2>2. Closing \ {None} \subseteq 1 .. created /\ {stamp.file} \ {None} \subseteq 1 .. created
    BY <1>2 DEF IInv, TypeOK, Closing, None
  <2>3. unsure' \subseteq 1 .. created
    BY <2>2 DEF IInv, TypeOK, Restart
  <2>4. faults' \in 0 .. MaxFaults
    BY BoundAssumption DEF IInv, TypeOK, Restart, Fault
  <2> QED BY <1>3, <2>1, <2>3, <2>4 DEF IInv, TypeOK, Restart, tokenVars, Nobody
<1>5. Places' /\ LockHeld' /\ Opening'
  BY <1>3, RequestAssumption DEF Places, May, LockHeld, Opening, Holder, Thread
<1>6. UsingNewest' /\ SizeKnown' /\ InOrder'
  BY DEF IInv, Restart, UsingNewest, SizeKnown, InOrder, Live, tokenVars
<1>7. ParentsKept' /\ LastWritten'
  BY DEF IInv, Restart, ParentsKept, LastWritten, tokenVars
<1>8. row \subseteq File /\ None \notin row
  BY Numbers DEF IInv
<1>9. \A f \in row \ unsure' :
        /\ f \notin queue /\ f # stamp.file
        /\ \A t \in Thread : op[t].at \in {"pause", "again"} => op[t].cur # f
  BY <1>8 DEF Restart, Closing
<1>10. KtsStopped'
  BY <1>9 DEF IInv, Restart, KtsStopped, tokenVars
<1>11. RangesTold'
  BY <1>1, <1>8, <1>9 DEF IInv, Restart, RangesTold, tokenVars, None
<1> QED BY <1>4, <1>5, <1>6, <1>7, <1>10, <1>11 DEF IInv

-----------------------------------------------------------------------------

(* Nothing was given out, told or written. *)
LEMMA Initial == Init => IInv
<1> SUFFICES ASSUME Init PROVE IInv
  OBVIOUS
<1>1. TypeOK
  <2>1. NoToken \in [file : 0 .. 0, asked : BOOLEAN] /\ [file |-> 0, seen |-> 0] \in [file : 0 .. 0, seen : 0 .. MaxWrites]
    BY BoundAssumption DEF NoToken, None
  <2>2. Idle \in [at : OpAt, cur : 0 .. 0]
    BY DEF Idle, At, OpAt, None
  <2>3. 0 \in 0 .. MaxFiles /\ 0 \in 0 .. MaxWrites /\ 0 \in 0 .. MaxFaults
    BY BoundAssumption
  <2> QED BY <2>1, <2>2, <2>3 DEF Init, TypeOK, None
<1>2. Places /\ LockHeld /\ Opening
  BY RequestAssumption DEF Init, Places, May, LockHeld, Opening, Holder, Idle, At, Thread
<1>3. UsingNewest /\ SizeKnown /\ ParentsKept /\ LastWritten /\ InOrder
  BY DEF Init, UsingNewest, SizeKnown, ParentsKept, LastWritten, InOrder, Live
<1>4. KtsStopped /\ RangesTold
  BY DEF Init, KtsStopped, RangesTold
<1> QED BY <1>1, <1>2, <1>3, <1>4 DEF IInv

(* One case for each disjunct of Next. *)
LEMMA NextStep == IInv /\ [Next]_vars => IInv'
<1> SUFFICES ASSUME IInv, [Next]_vars PROVE IInv'
  OBVIOUS
<1>1. CASE Refresh
  <2>1. CASE using # None
    <3>1. /\ op["refresh"].at = "idle" /\ lock = Nobody
          /\ op'["refresh"].at = "send" /\ op'["refresh"].cur = using /\ lock' = "refresh"
          /\ \A u \in Thread : u # "refresh" => op'[u] = op[u]
          /\ UNCHANGED <<tokenVars, rangeVars, finished, size, kts, faults, unsure>>
      BY <1>1, <2>1, RequestAssumption DEF IInv, TypeOK, Refresh, Goto, Idle, At, Thread
    <3>2. TypeOK'
      <4>1. using \in 0 .. created
        BY <2>1, Numbers DEF IInv, TypeOK
      <4>2. op' \in [Thread -> [at : OpAt, cur : 0 .. created]]
        BY <1>1, <2>1, <4>1 DEF IInv, TypeOK, Refresh, Goto, At, OpAt
      <4>3. lock' \in Thread
        BY <3>1, RequestAssumption DEF Thread
      <4> QED BY <3>1, <4>2, <4>3 DEF IInv, TypeOK, tokenVars, rangeVars
    <3>3. Places' /\ LockHeld' /\ Opening'
      BY <2>1, <3>1, RequestAssumption DEF IInv, Places, May, LockHeld, Opening, Holder, Thread, Nobody, tokenVars
    <3>4. UsingNewest' /\ SizeKnown' /\ ParentsKept' /\ LastWritten' /\ InOrder'
      BY <3>1 DEF IInv, UsingNewest, SizeKnown, ParentsKept, LastWritten, InOrder, Live, tokenVars
    <3>5. KtsStopped' /\ RangesTold'
      BY <3>1, RequestAssumption DEF IInv, KtsStopped, RangesTold, tokenVars, rangeVars, Thread
    <3> QED BY <3>2, <3>3, <3>4, <3>5 DEF IInv
  <2>2. CASE using = None
    <3>1. /\ Generate("refresh") /\ ~ finished /\ op["refresh"].at = "idle"
          /\ UNCHANGED <<rangeVars, finished, size, kts, faults, unsure>>
      BY <1>1, <2>2 DEF Refresh, Idle, At
    <3>2. \A u \in Thread : ~ Holder(u)
      BY <1>1, RequestAssumption DEF IInv, Refresh, LockHeld, Thread, Nobody
    <3> QED BY <2>2, <3>1, <3>2, GenerateStep
  <2> QED BY <2>1, <2>2
<1>2. CASE Verify
  <2>1. op["change"].at = "verify" /\ using = None /\ \A u \in Thread : u # "change" => ~ Holder(u)
    BY <1>2, RequestAssumption DEF IInv, Verify, Opening, LockHeld, Holder, Thread
  <2>2. CASE ~ finished /\ Generate("change")
    BY <1>2, <2>1, <2>2, GenerateStep DEF Verify
  <2>3. CASE Release("change") /\ UNCHANGED tokenVars
    <3>1. /\ op'["change"].at = "idle" /\ \A u \in Thread : u # "change" => op'[u] = op[u]
          /\ lock' = (IF lock = "change" THEN Nobody ELSE lock)
          /\ UNCHANGED <<tokenVars, rangeVars, finished, size, kts, faults, unsure>>
      BY <1>2, <2>3, RequestAssumption DEF IInv, TypeOK, Verify, Release, Goto, At, Thread
    <3>2. TypeOK'
      <4>1. op' \in [Thread -> [at : OpAt, cur : 0 .. created]]
        <5>1. At("idle", None) \in [at : OpAt, cur : 0 .. created]
          BY Numbers DEF IInv, At, OpAt, None
        <5> QED BY <2>3, <5>1 DEF IInv, TypeOK, Release, Goto
      <4>2. lock' \in Thread \cup {Nobody}
        BY <3>1 DEF IInv, TypeOK
      <4> QED BY <3>1, <4>1, <4>2 DEF IInv, TypeOK, tokenVars, rangeVars
    <3>3. Places' /\ LockHeld' /\ Opening'
      BY <3>1, RequestAssumption DEF IInv, Places, May, LockHeld, Opening, Holder, Thread, tokenVars
    <3>4. UsingNewest' /\ SizeKnown' /\ ParentsKept' /\ LastWritten' /\ InOrder'
      BY <3>1 DEF IInv, UsingNewest, SizeKnown, ParentsKept, LastWritten, InOrder, Live, tokenVars
    <3>5. KtsStopped' /\ RangesTold'
      BY <2>1, <3>1, RequestAssumption DEF IInv, KtsStopped, RangesTold, tokenVars, rangeVars, Thread
    <3> QED BY <3>2, <3>3, <3>4, <3>5 DEF IInv
  <2> QED BY <1>2, <2>2, <2>3 DEF Verify
<1>3. CASE KtsAsks
  BY <1>3, KtsAsksStep
<1>4. CASE Finish
  BY <1>4, FinishStep
<1>5. CASE WorkerStep
  BY <1>5, ReadTokenStep, RemoveStep DEF WorkerStep
<1>6. ASSUME NEW t \in Thread, Continue(t) PROVE IInv'
  BY <1>6, SaveUsingStep, SendStep, SendFailsStep, InvalidStep, CloseStep, PauseStep, PauseFailsStep, AgainStep
     DEF Continue
<1>7. ASSUME NEW t \in Thread, ReadUsing(t) PROVE IInv'
  BY <1>7, ReadUsingStep
<1>8. CASE Query \/ Record
  BY <1>8, QueryStep, RecordStep
<1>9. CASE KtsWrites
  BY <1>9, KtsWritesStep
<1>10. CASE Restart
  BY <1>10, RestartStep
<1>11. CASE UNCHANGED vars
  <2>1. TypeOK' /\ RangesTold'
    BY <1>11 DEF IInv, TypeOK, RangesTold, vars, tokenVars, rangeVars
  <2> QED BY <1>11, <2>1, StampStep DEF vars
<1> QED
  BY <1>1, <1>2, <1>3, <1>4, <1>5, <1>6, <1>7, <1>8, <1>9, <1>10, <1>11 DEF Next

(* Every state of the token, its files and the threads satisfies the inductive   *)
(* invariant above, for any number of requests, files, writes and faults.       *)
THEOREM Inductive == Spec => []IInv
  BY Initial, NextStep, PTL DEF Spec

(* TypeOK, in every state.                                                   *)
THEOREM TypeCorrect == Spec => []TypeOK
<1>1. IInv => TypeOK
  BY DEF IInv
<1> QED BY <1>1, Inductive, PTL

(* DataInOrder, in every state: whatever the order in which files are opened,   *)
(* changed, given up and closed, by any number of requests side by side, a point  *)
(* in time can be read through every file with data before it, apart from those   *)
(* the token forgot when a late request closed an older one that was empty.      *)
THEOREM DataKeepsOrder == Spec => []DataInOrder
<1>1. IInv => DataInOrder
  <2> SUFFICES ASSUME IInv PROVE DataInOrder
    OBVIOUS
  <2>1. Data \subseteq Live /\ Live \subseteq row
    BY DEF Data, Live
  <2>2. \A g \in Data : parent[g] \in Data \cup {None} \cup unsure
    BY <2>1 DEF IInv, ParentsKept, Data
  <2> QED BY <2>1, <2>2 DEF IInv, InOrder, DataInOrder
<1> QED BY <1>1, Inductive, PTL

(* RangeKnown, in every state: a closed file about which no call failed is       *)
(* recorded up to its last write, although the KT service wrote while its range   *)
(* was looked up.                                                           *)
THEOREM RangeIsKnown == Spec => []RangeKnown
<1>1. IInv => RangeKnown
  <2> SUFFICES ASSUME IInv, NEW f \in (Data \cap Ranged) \ ({using, stamp.file} \cup queue \cup Closing \cup unsure)
               PROVE  range[f] = size[f]
    BY DEF RangeKnown
  <2>1. \A t \in Thread : op[t].at \in {"pause", "again"} => op[t].cur # f
    BY DEF Closing
  <2> QED BY <2>1 DEF IInv, RangesTold, Data
<1> QED BY <1>1, Inductive, PTL
=============================================================================
