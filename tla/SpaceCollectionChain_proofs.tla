----------------------- MODULE SpaceCollectionChain_proofs -----------------------
(***************************************************************************)
(* The chains of backup points under collection.  What GetSnapshotList      *)
(* finds from a point that nobody condemned is there and is its content,    *)
(* whatever backups, restores, deletions, merges and restarts come in       *)
(* between; a restore keeps what it has locked; a finished merge has moved  *)
(* everything.  The last section carries this to the loop of the worker.    *)
(*                                                                         *)
(* PointInv says what a settled snapshot is (its files do not change, it is *)
(* on the disk until it is merged), ChainInv what it is made of: the deltas *)
(* in its own file and all of its parent.  Both are inductive with the      *)
(* invariants of SpaceCollection_proofs.                                    *)
(***************************************************************************)
EXTENDS SpaceCollectionLoop, SpaceCollection_proofs, FiniteSetTheorems, WellFoundedInduction

-----------------------------------------------------------------------------
(* THE WALK.  Walk(s) is one of the functions that follow the parents the way *)
(* GetSnapshotList does, and there is such a function, whatever the parents   *)
(* are: it maps a node and the last key node to the key nodes met from there. *)

Place    == SnapOrNull \X SnapOrNull
Above(p) == <<parent[p[1]], IF IsKeyNode(p[1], p[2]) THEN p[1] ELSE p[2]>>
Follows(f) ==
  f = [p \in Place |-> IF p[1] = NoSnap THEN {}
                       ELSE IF IsKeyNode(p[1], p[2]) THEN {p[1]} \cup f[<<parent[p[1]], p[1]>>]
                       ELSE f[<<parent[p[1]], p[2]>>]]

Upward(A) == \A p \in A : p[1] # NoSnap => Above(p) \in A
Path(p)   == {q \in Place : \A A \in SUBSET Place : p \in A /\ Upward(A) => q \in A}
Met(p)    == {x \in Snap : \E q \in Path(p) : q[1] = x /\ IsKeyNode(q[1], q[2])}

LEMMA AbovePlace ==
  ASSUME parent \in [Snap -> SnapOrNull], NEW p \in Place, p[1] # NoSnap
  PROVE  p[1] \in Snap /\ Above(p) \in Place
  BY DEF Place, SnapOrNull, Above

LEMMA PathUpward ==
  ASSUME parent \in [Snap -> SnapOrNull], NEW p \in Place
  PROVE  p \in Path(p) /\ Upward(Path(p))
  <1>1. p \in Path(p)
    BY DEF Path
  <1>2. ASSUME NEW q \in Path(p), q[1] # NoSnap PROVE Above(q) \in Path(p)
    <2>1. q \in Place /\ Above(q) \in Place
      BY <1>2, AbovePlace DEF Path
    <2>2. ASSUME NEW A \in SUBSET Place, p \in A, Upward(A) PROVE Above(q) \in A
      BY <1>2, <2>2 DEF Path, Upward
    <2> QED BY <2>1, <2>2 DEF Path
  <1> QED BY <1>1, <1>2 DEF Upward

LEMMA PathLeast ==
  ASSUME NEW p \in Place, NEW A \in SUBSET Place, p \in A, Upward(A)
  PROVE  Path(p) \subseteq A
  BY DEF Path

LEMMA PathUnfold ==
  ASSUME parent \in [Snap -> SnapOrNull], NEW p \in Place, p[1] # NoSnap
  PROVE  Path(p) = {p} \cup Path(Above(p))
  <1>1. Above(p) \in Place /\ Above(p) \in Path(Above(p)) /\ Upward(Path(Above(p)))
    BY AbovePlace, PathUpward
  <1>2. Path(p) \subseteq {p} \cup Path(Above(p))
    <2> DEFINE A == {p} \cup Path(Above(p))
    <2>1. A \in SUBSET Place /\ Upward(A)
      BY <1>1 DEF Path, Upward
    <2> HIDE DEF A
    <2>2. p \in A
      BY DEF A
    <2>3. Path(p) \subseteq A
      BY <2>1, <2>2, PathLeast
    <2> QED BY <2>3 DEF A
  <1>3. p \in Path(p) /\ Upward(Path(p)) /\ Path(p) \in SUBSET Place
    BY PathUpward DEF Path
  <1>4. Above(p) \in Path(p)
    BY <1>3 DEF Upward
  <1>5. Path(Above(p)) \subseteq Path(p)
    BY <1>1, <1>3, <1>4, PathLeast
  <1> QED BY <1>2, <1>3, <1>5

LEMMA PathEnd == ASSUME NEW p \in Place, p[1] = NoSnap PROVE Path(p) = {p}
  <1>1. {p} \in SUBSET Place /\ Upward({p})
    BY DEF Upward
  <1>2. Path(p) \subseteq {p}
    BY <1>1, PathLeast
  <1> QED BY <1>2 DEF Path

(* The key nodes met on the path are what the walk collects.                  *)
LEMMA WalkExists == ASSUME parent \in [Snap -> SnapOrNull] PROVE \E f : Follows(f)
  <1> DEFINE f == [p \in Place |-> Met(p)]
  <1>1. ASSUME NEW p \in Place, p[1] # NoSnap
        PROVE  Met(p) = (IF IsKeyNode(p[1], p[2]) THEN {p[1]} ELSE {}) \cup Met(Above(p))
    <2>1. p[1] \in Snap /\ Path(p) = {p} \cup Path(Above(p))
      BY <1>1, AbovePlace, PathUnfold
    <2> QED BY <2>1 DEF Met
  <1>2. ASSUME NEW p \in Place, p[1] = NoSnap PROVE Met(p) = {}
    BY <1>2, PathEnd, NullAssumption DEF Met
  <1>3. ASSUME NEW p \in Place
        PROVE  f[p] = IF p[1] = NoSnap THEN {}
                      ELSE IF IsKeyNode(p[1], p[2]) THEN {p[1]} \cup f[<<parent[p[1]], p[1]>>]
                      ELSE f[<<parent[p[1]], p[2]>>]
    <2>1. CASE p[1] = NoSnap
      BY <1>2, <2>1
    <2>2. CASE p[1] # NoSnap
      <3>1. Above(p) \in Place /\ f[Above(p)] = Met(Above(p)) /\ f[p] = Met(p)
        BY <2>2, AbovePlace
      <3>2. f[p] = (IF IsKeyNode(p[1], p[2]) THEN {p[1]} ELSE {}) \cup f[Above(p)]
        BY <1>1, <2>2, <3>1
      <3> HIDE DEF f
      <3> QED BY <2>2, <3>2 DEF Above
    <2> QED BY <2>1, <2>2
  <1>4. f = [p \in Place |-> f[p]]
    OBVIOUS
  <1> HIDE DEF f
  <1>5. Follows(f)
    BY <1>3, <1>4, Zenon DEF Follows
  <1> QED BY <1>5

LEMMA WalkFollows ==
  ASSUME parent \in [Snap -> SnapOrNull], NEW s \in SnapOrNull
  PROVE  \E f : Follows(f) /\ Walk(s) = f[<<s, NoSnap>>]
  <1> DEFINE g == CHOOSE f : Follows(f)
  <1>1. Follows(g)
    BY WalkExists, Zenon
  <1>2. Walk(s) = g[<<s, NoSnap>>]
    BY Zenon DEF Walk, Follows, Place
  <1> QED BY <1>1, <1>2, Zenon

LEMMA FollowsStep ==
  ASSUME NEW f, Follows(f), NEW x \in SnapOrNull, NEW last \in SnapOrNull
  PROVE  f[<<x, last>>] = IF x = NoSnap THEN {}
                          ELSE IF IsKeyNode(x, last) THEN {x} \cup f[<<parent[x], x>>]
                          ELSE f[<<parent[x], last>>]
  BY DEF Follows, Place

(* The first node is always a key node.                                      *)
LEMMA FirstIsKey ==
  ASSUME parent \in [Snap -> SnapOrNull], NEW s \in Snap PROVE s \in KeyNodes(s)
  <1>1. PICK f : Follows(f) /\ Walk(s) = f[<<s, NoSnap>>]
    BY WalkFollows DEF SnapOrNull
  <1>2. s \in SnapOrNull /\ NoSnap \in SnapOrNull /\ s # NoSnap /\ IsKeyNode(s, NoSnap)
    BY NullAssumption DEF SnapOrNull, IsKeyNode
  <1>3. f[<<s, NoSnap>>] = {s} \cup f[<<parent[s], s>>]
    BY <1>1, <1>2, FollowsStep
  <1> QED BY <1>1, <1>3 DEF KeyNodes

-----------------------------------------------------------------------------
(* CHAINS.  The chain of x is what following the parents from x reaches.      *)

Closed(A) == \A z \in A : parent[z] = NoSnap \/ parent[z] \in A
Chain(x)  == {z \in Snap : \A A \in SUBSET Snap : x \in A /\ Closed(A) => z \in A}

LEMMA ChainClosed ==
  ASSUME parent \in [Snap -> SnapOrNull], NEW x \in Snap
  PROVE  x \in Chain(x) /\ Chain(x) \subseteq Snap /\ Closed(Chain(x))
  <1>1. ASSUME NEW z \in Chain(x), parent[z] # NoSnap PROVE parent[z] \in Chain(x)
    <2>1. z \in Snap /\ parent[z] \in Snap
      BY <1>1 DEF Chain, SnapOrNull
    <2>2. ASSUME NEW A \in SUBSET Snap, x \in A, Closed(A) PROVE parent[z] \in A
      BY <1>1, <2>2 DEF Chain, Closed
    <2> QED BY <2>1, <2>2 DEF Chain
  <1>2. x \in Chain(x) /\ Chain(x) \subseteq Snap
    BY DEF Chain
  <1> QED BY <1>1, <1>2 DEF Closed

LEMMA ChainLeast ==
  ASSUME NEW x, NEW A \in SUBSET Snap, x \in A, Closed(A) PROVE Chain(x) \subseteq A
  BY DEF Chain

LEMMA ChainStep ==
  ASSUME parent \in [Snap -> SnapOrNull], NEW x \in Snap, parent[x] # NoSnap
  PROVE  parent[x] \in Snap /\ Chain(x) \subseteq {x} \cup Chain(parent[x])
  <1>1. parent[x] \in Snap
    BY DEF SnapOrNull
  <1>2. parent[x] \in Chain(parent[x]) /\ Chain(parent[x]) \subseteq Snap
        /\ Closed(Chain(parent[x]))
    BY <1>1, ChainClosed
  <1> DEFINE A == {x} \cup Chain(parent[x])
  <1>3. A \in SUBSET Snap /\ x \in A /\ Closed(A)
    BY <1>2 DEF Closed
  <1> HIDE DEF A
  <1>4. Chain(x) \subseteq A
    BY <1>3, ChainLeast
  <1> QED BY <1>1, <1>4 DEF A

LEMMA ChainBase ==
  ASSUME NEW x \in Snap, parent[x] = NoSnap PROVE Chain(x) \subseteq {x}
  <1>1. {x} \in SUBSET Snap /\ Closed({x})
    BY DEF Closed
  <1> QED BY <1>1, ChainLeast

LEMMA ChainTransitive ==
  ASSUME parent \in [Snap -> SnapOrNull], NEW x \in Snap, NEW y \in Chain(x)
  PROVE  y \in Snap /\ Chain(y) \subseteq Chain(x)
  BY ChainClosed, ChainLeast DEF Chain

(* A chain whose links a step leaves alone, or bends onto nodes of the chain,  *)
(* does not grow.                                                            *)
LEMMA ChainShrinks ==
  ASSUME NEW x, NEW A \in SUBSET Snap, x \in A,
         \A z \in A : parent'[z] = NoSnap \/ parent'[z] \in A
  PROVE  Chain(x)' \subseteq A
  <1>1. Closed(A)'
    BY DEF Closed
  <1> QED BY <1>1 DEF Chain

LEMMA ChainKept ==
  ASSUME parent \in [Snap -> SnapOrNull], NEW x \in Snap,
         \A z \in Chain(x) : parent'[z] = parent[z]
  PROVE  Chain(x)' \subseteq Chain(x)
  BY ChainClosed, ChainShrinks DEF Closed

-----------------------------------------------------------------------------
(* POINTS.  A point is a snapshot whose content is settled: a finished backup, *)
(* or the new snapshot of a merge whose image is there.  Its files never       *)
(* change again, and it is on the disk until it is merged into others.        *)

New(n)     == \E t \in Snap : merge[t].new = n
Made(n)    == \E t \in Snap : /\ merge[t].new = n
                              /\ merge[t].stage \in {"stage1", "stage2", "finished"}
Point(x)   == host[x] = "successful" \/ (host[x] = "backuping" /\ Made(x))
Between(x) == worker.pc = "reparent" /\ worker.snap = x
Present(x) == Point(x) /\ (~merged[x] \/ Between(x))

PointSound(x) ==
  /\ parent[x] # NoSnap => Point(parent[x])
  /\ Point(x) => \A d \in data[x] : host[d] = "successful" /\ ~New(d)
  /\ host[x] = "successful" /\ ~New(x) => x \in data[x]
  /\ x \in row => file[x] \in row /\ ~New(file[x])
  /\ Present(x) => x \in image
  /\ IsFiniteSet(data[x])

RacedSound == \A x \in raced : x \in row /\ ~New(x)

(* A merge takes a snapshot whose parent is in another file.                  *)
MergeLinks(s) ==
  merge[s].stage # "none" =>
    /\ Point(merge[s].prev) /\ file[merge[s].prev] # file[s]
    /\ parent[s] # NoSnap /\ merge[s].new # s

WorkerLinks ==
  LET s == worker.snap
      n == merge[s].new
      p == merge[s].prev
  IN  /\ worker.pc \in {"set_merged", "txn"} =>
           /\ ~merged[s]
           /\ \A c \in Children(s) \ raced : parent[s] # NoSnap /\ file[c] = file[s]
      /\ worker.pc = "merge_create" => parent[s] # NoSnap /\ file[parent[s]] # file[s]
      /\ worker.pc \in MadePC =>
           /\ parent[s] = p /\ parent[n] = p /\ file[n] = file[p]
           /\ ~merged[s] /\ ~merged[p]
      /\ worker.pc = "merge_unlock" =>
           n \in image /\ data[n] = data[s] /\ local[n] = local[p] \cup local[s]

BackupLinks ==
  /\ backup.pc = "idle" => backup.parent = NoSnap
  /\ backup.parent # NoSnap => host[backup.parent] = "successful"

PointInv ==
  /\ \A x \in Snap : PointSound(x) /\ MergeLinks(x)
  /\ RacedSound /\ WorkerLinks /\ BackupLinks

LEMMA PointTypes ==
  ASSUME TypeInv
  PROVE  /\ row \subseteq Snap /\ image \subseteq Snap /\ raced \subseteq Snap
         /\ parent \in [Snap -> SnapOrNull] /\ file \in [Snap -> Snap]
         /\ merged \in [Snap -> BOOLEAN] /\ host \in [Snap -> HostState]
         /\ local \in [Snap -> SUBSET Snap] /\ data \in [Snap -> SUBSET Snap]
         /\ merge \in [Snap -> MergeTask] /\ worker \in WorkerState
         /\ backup \in BackupState /\ (backup.pc # "idle" => backup.snap \in Snap)
         /\ worker.pc \notin {"start", "idle"} => worker.snap \in Snap
         /\ \A s \in Snap : merge[s].stage # "none" => merge[s].new \in Snap /\ merge[s].prev \in Snap
  BY DEF TypeInv, TypeOK, TablesOK, TasksOK, DiskOK, WorkerOK, ClientsOK, ClientShape, MergeShape,
         WorkerShape

(* A point has a row; the new snapshot of an unfinished merge is not merged.   *)
LEMMA PointRow ==
  ASSUME TaskInv, NEW x \in Snap, Point(x)
  PROVE  /\ x \in row
         /\ host[x] = "backuping" => ~merged[x] /\ Made(x)
         /\ backup.pc \in {"created", "running"} => backup.snap # x
  <1>1. x \in row /\ (host[x] = "backuping" => ~merged[x] /\ Made(x))
    BY DEF TaskInv, RowSound, Point
  <1>2. backup.pc \in {"created", "running"} => backup.snap # x
    BY DEF TaskInv, BackupSound, Point, Made
  <1> QED BY <1>1, <1>2

(* What a merge has not completed is not a point, nor is what is backed up.    *)
LEMMA NotPoint ==
  ASSUME TypeInv, TaskInv
  PROVE  /\ \A s \in Snap : merge[s].stage = "stage0" => ~Point(merge[s].new) /\ ~Made(merge[s].new)
         /\ backup.pc # "idle" => ~New(backup.snap)
         /\ backup.pc \in {"created", "running"} => ~Point(backup.snap)
         /\ \A x \in Snap : x \notin row => ~Point(x)
  <1>1. ASSUME NEW s \in Snap, merge[s].stage = "stage0"
        PROVE  ~Point(merge[s].new) /\ ~Made(merge[s].new)
    <2>1. host[merge[s].new] \in {"none", "backuping"} /\ merge[s].new \in Snap
      BY <1>1, PointTypes DEF TaskInv, MergeSound
    <2>2. ASSUME NEW t \in Snap, merge[t].new = merge[s].new PROVE t = s
      BY <2>1, <2>2, NullAssumption DEF TaskInv, MergeSound
    <2>3. ~Made(merge[s].new)
      BY <1>1, <2>2 DEF Made
    <2>4. ~Point(merge[s].new)
      BY <2>1, <2>3 DEF Point
    <2> QED BY <2>3, <2>4
  <1>2. backup.pc # "idle" => ~New(backup.snap)
    BY DEF TaskInv, BackupSound, New
  <1>3. backup.pc \in {"created", "running"} => ~Point(backup.snap)
    BY DEF TaskInv, BackupSound, Point, Made
  <1>4. \A x \in Snap : x \notin row => ~Point(x)
    BY DEF TaskInv, RowSound, Point
  <1> QED BY <1>1, <1>2, <1>3, <1>4

LEMMA LinksFrame ==
  ASSUME PointInv, UNCHANGED <<row, parent, file, merged, host, merge, image, data>>,
         raced' = raced \/ RacedSound', worker' = worker \/ worker'.pc # "reparent", WorkerLinks', BackupLinks'
  PROVE  PointInv'
  <1>1. \A x \in Snap : (Point(x)' <=> Point(x)) /\ (New(x)' <=> New(x))
    BY DEF Point, Made, New
  <1>2. \A x \in Snap : Present(x)' => Present(x)
    BY <1>1 DEF Present, Between
  <1>3. ASSUME NEW x \in Snap PROVE PointSound(x)'
    <2>1. PointSound(x)
      BY DEF PointInv
    <2>2. parent[x] # NoSnap => (Point(parent[x])' <=> Point(parent[x]))
      BY DEF Point, Made
    <2>3. \A d \in data[x] : New(d)' <=> New(d)
      BY DEF New
    <2>4. New(file[x])' <=> New(file[x])
      BY DEF New
    <2> QED BY <1>1, <1>2, <2>1, <2>2, <2>3, <2>4 DEF PointSound
  <1>4. ASSUME NEW x \in Snap PROVE MergeLinks(x)'
    <2>1. MergeLinks(x) /\ (Point(merge[x].prev)' <=> Point(merge[x].prev))
      BY DEF PointInv, Point, Made
    <2> QED BY <2>1 DEF MergeLinks
  <1>5. RacedSound'
    BY DEF PointInv, RacedSound, New
  <1> QED BY <1>3, <1>4, <1>5 DEF PointInv

LEMMA LinksAtRest ==
  ASSUME worker'.pc \notin {"set_merged", "txn", "merge_create"} \cup MadePC
  PROVE  WorkerLinks'
  BY DEF WorkerLinks, MadePC

(* A step that changes a snapshot which is not a point changes nothing else.   *)
LEMMA PointElsewhere ==
  ASSUME TypeInv, TaskInv, PointInv, NEW b \in Snap, ~Point(b), merge' = merge, merged' = merged,
         row \subseteq row' \/ New(b), row' \subseteq row \cup {b}, row \subseteq row' \cup {b},
         image \subseteq image',
         worker' = worker \/ worker'.pc # "reparent",
         \A x \in Snap \ {b} : /\ parent'[x] = parent[x] /\ file'[x] = file[x]
                               /\ host'[x] = host[x] /\ data'[x] = data[x]
  PROVE  \A x \in Snap \ {b} : PointSound(x)' /\ MergeLinks(x)' /\ (Point(x)' <=> Point(x))
  <1>1. \A x : (New(x)' <=> New(x)) /\ (Made(x)' <=> Made(x))
    BY DEF New, Made
  <1>2. \A x \in Snap : Point(x) => x # b /\ Point(x)'
    BY <1>1 DEF Point
  <1>3. \A x \in Snap \ {b} : Point(x)' <=> Point(x)
    BY <1>1 DEF Point
  <1>4. ASSUME NEW x \in Snap \ {b} PROVE PointSound(x)'
    <2>1. PointSound(x) /\ parent[x] \in SnapOrNull /\ file[x] \in Snap /\ data[x] \subseteq Snap
      BY PointTypes DEF PointInv
    <2>2. parent'[x] # NoSnap => Point(parent[x])'
      BY <1>2, <2>1 DEF PointSound, SnapOrNull
    <2>3. \A d \in data[x] : host[d] = "successful" => host'[d] = "successful"
      BY <1>2, <2>1 DEF Point
    <2>4. Present(x)' => Present(x)
      BY <1>3 DEF Present, Between
    <2>5. x \in row' => file'[x] \in row' /\ ~New(file[x])'
      BY <2>1 DEF PointSound, New
    <2> QED BY <1>1, <1>3, <2>1, <2>2, <2>3, <2>4, <2>5 DEF PointSound
  <1>5. ASSUME NEW x \in Snap \ {b} PROVE MergeLinks(x)'
    <2>1. MergeLinks(x) /\ (merge[x].stage # "none" => merge[x].prev \in Snap)
      BY PointTypes DEF PointInv
    <2> QED BY <1>2, <2>1 DEF MergeLinks
  <1> QED BY <1>3, <1>4, <1>5

LEMMA InitPoints == Init => PointInv
  <1> SUFFICES ASSUME Init PROVE PointInv
    OBVIOUS
  <1>1. RacedSound /\ WorkerLinks /\ BackupLinks
    BY DEF Init, RacedSound, WorkerLinks, BackupLinks, Idle, IdleBackup, MadePC
  <1>2. ASSUME NEW x \in Snap PROVE PointSound(x) /\ MergeLinks(x)
    <2>1. ~Point(x) /\ parent[x] = NoSnap /\ data[x] = {} /\ raced = {} /\ row = {}
          /\ host[x] = "none" /\ merge[x].stage = "none"
      BY DEF Init, Point, Made, NoMerge
    <2> QED BY <2>1, FS_EmptySet DEF PointSound, MergeLinks, Present
  <1> QED BY <1>1, <1>2 DEF PointInv

LEMMA WorkerStill ==
  ASSUME WorkerLinks,
         UNCHANGED <<row, parent, file, merged, host, deleted, merge, image, local, data, raced,
                     worker>>
  PROVE  WorkerLinks'
  BY DEF WorkerLinks, Children, MadePC

(* A client changes no snapshot that the worker has in hand, and the child it  *)
(* may add to the one that is about to be merged counts as raced.             *)
LEMMA WorkerElsewhere ==
  ASSUME TypeInv, TaskInv, PointInv, NEW b \in Snap, ~Point(b), ~New(b),
         UNCHANGED <<merge, merged, deleted, worker>>, row' \subseteq row \cup {b},
         raced \subseteq raced', image \subseteq image',
         b \in Children(worker.snap)' => \/ b \in raced'
                                         \/ worker.pc \notin {"set_merged", "txn"}
                                         \/ b \in Children(worker.snap) /\ file'[b] = file[b],
         \A x \in Snap \ {b} : /\ parent'[x] = parent[x] /\ file'[x] = file[x]
                               /\ host'[x] = host[x] /\ (x \in row' <=> x \in row)
                               /\ local'[x] = local[x] /\ data'[x] = data[x]
  PROVE  WorkerLinks'
  <1> DEFINE s == worker.snap
             n == merge[s].new
             p == merge[s].prev
  <1>1. WorkerLinks /\ \A x \in Snap : PointSound(x) /\ MergeLinks(x)
    BY DEF PointInv
  <1>2. worker'.snap = s /\ merge'[s].new = n /\ merge'[s].prev = p /\ worker'.pc = worker.pc
    OBVIOUS
  <1>3. CASE worker.pc \in {"set_merged", "txn"}
    <2>1. s \in Snap /\ Point(s) /\ s # b
      BY <1>3, PointTypes DEF TaskInv, WorkerSound, Point
    <2>2. \A c \in Snap \ {b} : c \in Children(s)' => c \in Children(s)
      BY DEF Children
    <2>3. Children(s)' \subseteq Snap
      BY PointTypes DEF Children
    <2> QED BY <1>1, <1>2, <1>3, <2>1, <2>2, <2>3 DEF WorkerLinks, MadePC
  <1>4. CASE worker.pc = "merge_create"
    <2>1. s \in Snap /\ Point(s) /\ s # b
      BY <1>4, PointTypes DEF TaskInv, WorkerSound, Point
    <2>2. parent[s] \in Snap /\ Point(parent[s])
      BY <1>1, <1>4, <2>1, PointTypes DEF WorkerLinks, PointSound, SnapOrNull
    <2> QED BY <1>1, <1>2, <1>4, <2>1, <2>2 DEF WorkerLinks, MadePC
  <1>5. CASE worker.pc \in MadePC
    <2>1. s \in Snap /\ merge[s].stage = "stage0"
      BY <1>5, PointTypes DEF TaskInv, WorkerSound, MadePC
    <2>2. n \in Snap /\ p \in Snap /\ Point(p) /\ Point(s) /\ s # b /\ p # b /\ n # b
      BY <1>1, <2>1, PointTypes DEF MergeLinks, TaskInv, MergeSound, Point, New
    <2> HIDE DEF s, n, p
    <2> QED BY <1>1, <1>2, <1>5, <2>1, <2>2 DEF WorkerLinks, MadePC, s, n, p
  <1> QED BY <1>2, <1>3, <1>4, <1>5, LinksAtRest

LEMMA BackupPoints == ASSUME TypeInv, TaskInv, PointInv, BackupStep PROVE PointInv'
  <1> PICK b, p : b = backup.snap /\ p = backup.parent
    OBVIOUS
  <1>0. /\ p \in SnapOrNull /\ (p # NoSnap => host[p] = "successful")
        /\ backup.pc # "idle" => b \in Snap /\ ~New(b)
        /\ backup.pc \in {"created", "running"} => ~Point(b) /\ host[b] = "backuping" /\ b \in row
    BY PointTypes, NotPoint DEF PointInv, BackupLinks, BackupState, TaskInv, BackupSound, RowSound
  <1>1. CASE BackupQuery
    <2>1. PICK s \in NewBackup, q \in row \cup {NoSnap} :
            /\ q # NoSnap => ChainUsable(q)
            /\ backup'.pc = "queried" /\ backup'.parent = q
      BY <1>1 DEF BackupQuery
    <2>2. q # NoSnap => host[q] = "successful"
      BY <2>1, FirstIsKey, PointTypes DEF ChainUsable
    <2>3. /\ UNCHANGED <<row, parent, file, merged, host, deleted, merge, image, local, data, raced>>
          /\ worker' = worker
      BY <1>1 DEF BackupQuery, tables, tasks, disk
    <2>4. WorkerLinks' /\ BackupLinks'
      BY <2>1, <2>2, <2>3, WorkerStill DEF PointInv, BackupLinks
    <2> QED BY <2>3, <2>4, LinksFrame
  <1>2. CASE BackupCreate
    <2>1. /\ b \in Snap /\ ~New(b) /\ b \notin row /\ host[b] = "none" /\ ~Point(b)
          /\ backup.pc = "queried"
      BY <1>0, <1>2, NotPoint DEF BackupCreate, Fresh, TaskInv, RowSound
    <2>2. /\ row' = row \cup {b} /\ parent'[b] = p /\ host'[b] = "backuping"
          /\ file'[b] \in {b} \cup (IF p = NoSnap THEN {} ELSE {file[p]})
          /\ raced' = IF p # NoSnap /\ ((worker.snap = p /\ worker.pc \in {"set_merged", "txn"})
                                        \/ (merged[p] /\ ~Between(p)))
                      THEN raced \cup {b} ELSE raced
          /\ backup'.pc = "created" /\ backup'.parent = p
          /\ UNCHANGED <<merged, deleted, merge, image, local, data, worker>>
          /\ \A x \in Snap \ {b} : /\ parent'[x] = parent[x] /\ file'[x] = file[x]
                                   /\ host'[x] = host[x]
      BY <1>0, <1>2, <2>1, PointTypes DEF BackupCreate, Between, BackupState, tasks, disk
    <2>3. WorkerLinks'
      <3>1. b \in Children(worker.snap)' => b \in raced' \/ worker.pc \notin {"set_merged", "txn"}
        BY <1>0, <2>2, PointTypes, NullAssumption DEF Children
      <3> QED BY <2>1, <2>2, <3>1, WorkerElsewhere
    <2>4. \A x \in Snap \ {b} : PointSound(x)' /\ MergeLinks(x)' /\ (Point(x)' <=> Point(x))
      BY <2>1, <2>2, PointElsewhere
    <2>5. PointSound(b)'
      <3>1. ~New(b)' /\ ~Point(b)'
        BY <2>1, <2>2 DEF New, Point, Made
      <3>2. p # NoSnap => Point(p)' /\ p \in row /\ p # b
        BY <1>0, <2>1, <2>2, PointRow DEF Point, SnapOrNull
      <3>3. p # NoSnap => file[p] \in row /\ \A t \in Snap : merge'[t].new # file[p]
        BY <1>0, <2>2, <3>2 DEF PointInv, PointSound, New, SnapOrNull
      <3>4. file'[b] \in row' /\ \A t \in Snap : merge'[t].new # file'[b]
        BY <2>1, <2>2, <3>3 DEF New
      <3>5. IsFiniteSet(data[b])
        BY <2>1 DEF PointInv, PointSound
      <3>6. parent'[b] # NoSnap => Point(parent[b])'
        BY <2>2, <3>2 DEF Point, Made
      <3> QED BY <2>1, <2>2, <3>1, <3>4, <3>5, <3>6 DEF PointSound, Present, New
    <2>6. MergeLinks(b)'
      BY <2>1, <2>2 DEF MergeLinks, TaskInv, MergeSound
    <2>7. BackupLinks'
      BY <1>0, <2>1, <2>2 DEF BackupLinks, SnapOrNull
    <2>8. RacedSound'
      BY <2>1, <2>2 DEF PointInv, RacedSound, New
    <2> QED BY <2>3, <2>4, <2>5, <2>6, <2>7, <2>8 DEF PointInv
  <1>3. ASSUME host' = [host EXCEPT ![b] = "failed"], backup.pc \in {"created", "running"},
               UNCHANGED <<row, parent, file, merged, deleted, merge, image, local, data, raced>>,
               backup' = IdleBackup, worker' = worker
        PROVE  PointInv'
    <2>1. WorkerLinks'
      <3>1. b \in Children(worker.snap)' => b \in Children(worker.snap) /\ file'[b] = file[b]
        BY <1>0, <1>3 DEF Children
      <3> QED BY <1>0, <1>3, <3>1, PointTypes, WorkerElsewhere
    <2>2. \A x \in Snap \ {b} : PointSound(x)' /\ MergeLinks(x)' /\ (Point(x)' <=> Point(x))
      BY <1>0, <1>3, PointTypes, PointElsewhere
    <2>3. PointSound(b)' /\ MergeLinks(b)'
      <3>1. host'[b] = "failed" /\ ~Point(b)' /\ b \in Snap /\ PointSound(b)
        BY <1>0, <1>3, PointTypes DEF Point, PointInv
      <3>2. parent[b] # NoSnap => Point(parent[b])'
        <4>1. parent[b] # NoSnap => Point(parent[b]) /\ parent[b] \in Snap \ {b}
          BY <1>0, <1>3, <3>1, PointTypes DEF PointSound, SnapOrNull
        <4> QED BY <1>3, <2>2, <4>1 DEF Point, Made
      <3>3. merge'[b].stage = "none"
        BY <1>0, <1>3 DEF TaskInv, MergeSound
      <3> QED BY <1>3, <3>1, <3>2, <3>3 DEF PointSound, MergeLinks, Present, New
    <2>4. BackupLinks'
      BY <1>3 DEF BackupLinks, IdleBackup
    <2>5. RacedSound'
      BY <1>3 DEF PointInv, RacedSound, New
    <2> QED BY <2>1, <2>2, <2>3, <2>4, <2>5, <1>0, <1>3 DEF PointInv
  <1>4. CASE BackupSend
    <2>1. CASE host' = host
      <3>1. /\ UNCHANGED <<row, parent, file, merged, host, deleted, merge, image, local, data, raced,
                           worker>>
            /\ backup'.pc # "idle" /\ backup'.parent = p
        BY <1>4, <2>1, PointTypes, <1>0 DEF BackupSend, tasks, disk, BackupState
      <3> QED BY <3>1, WorkerStill, LinksFrame DEF PointInv, BackupLinks
    <2>2. CASE host' = [host EXCEPT ![b] = "failed"] /\ backup' = IdleBackup
      BY <1>3, <1>4, <2>2 DEF BackupSend, tasks, disk
    <2> QED BY <1>4, <2>1, <2>2 DEF BackupSend
  <1>5. CASE BackupFinish
    <2>1. CASE host' = [host EXCEPT ![b] = "failed"] /\ UNCHANGED disk
      BY <1>3, <1>5, <2>1 DEF BackupFinish, tasks, disk
    <2>2. CASE /\ host' = [host EXCEPT ![b] = "successful"]
               /\ image' = image \cup {b}
               /\ local' = [local EXCEPT ![b] =
                              {b} \cup (IF p # NoSnap /\ file[p] = file[b] THEN local[p] ELSE {})]
               /\ data' = [data EXCEPT ![b] = {b} \cup (IF p = NoSnap THEN {} ELSE data[p])]
      <3>1. /\ b \in Snap /\ ~New(b) /\ ~Point(b) /\ b \in row
            /\ backup.pc = "running" /\ backup' = IdleBackup
            /\ UNCHANGED <<row, parent, file, merged, deleted, merge, raced, worker>>
            /\ \A x \in Snap \ {b} : /\ host'[x] = host[x] /\ local'[x] = local[x]
                                     /\ data'[x] = data[x]
            /\ host'[b] = "successful" /\ b \in image'
            /\ data'[b] = {b} \cup (IF p = NoSnap THEN {} ELSE data[p])
        BY <1>0, <1>5, <2>2, PointTypes DEF BackupFinish, tasks
      <3>2. WorkerLinks'
        <4>1. b \in Children(worker.snap)' => b \in Children(worker.snap) /\ file'[b] = file[b]
          BY <1>0, <3>1 DEF Children
        <4> QED BY <2>2, <3>1, <4>1, WorkerElsewhere
      <3>3. \A x \in Snap \ {b} : PointSound(x)' /\ MergeLinks(x)' /\ (Point(x)' <=> Point(x))
        BY <2>2, <3>1, PointElsewhere
      <3>4. PointSound(b)'
        <4>1. PointSound(b) /\ ~New(b)' /\ (New(file[b])' <=> New(file[b]))
          BY <3>1 DEF PointInv, New
        <4>2. parent[b] # NoSnap => Point(parent[b])'
          <5>1. parent[b] # NoSnap => Point(parent[b]) /\ parent[b] \in Snap \ {b}
            BY <3>1, <4>1, PointTypes DEF PointSound, SnapOrNull
          <5> QED BY <3>1, <3>3, <5>1 DEF Point, Made
        <4>3. \A d \in data'[b] : host'[d] = "successful" /\ ~New(d)'
          <5>1. p # NoSnap => p \in Snap /\ Point(p) /\ PointSound(p) /\ data[p] \subseteq Snap
            BY <1>0, PointTypes DEF Point, PointInv, SnapOrNull
          <5>2. \A d : New(d)' <=> New(d)
            BY <3>1 DEF New
          <5> QED BY <3>1, <5>1, <5>2 DEF PointSound
        <4>4. IsFiniteSet(data'[b])
          <5>1. p # NoSnap => IsFiniteSet(data[p])
            BY <1>0 DEF PointInv, PointSound, SnapOrNull
          <5>2. p # NoSnap => IsFiniteSet(data[p] \cup {b})
            BY <5>1, FS_AddElement
          <5>3. data'[b] = IF p = NoSnap THEN {b} ELSE data[p] \cup {b}
            BY <3>1
          <5>4. IsFiniteSet({b})
            BY FS_Singleton
          <5> QED BY <5>2, <5>3, <5>4
        <4> QED BY <3>1, <4>1, <4>2, <4>3, <4>4 DEF PointSound
      <3>5. MergeLinks(b)'
        BY <1>0, <3>1 DEF MergeLinks, TaskInv, MergeSound
      <3>6. BackupLinks'
        BY <3>1 DEF BackupLinks, IdleBackup
      <3>7. RacedSound'
        BY <3>1 DEF PointInv, RacedSound, New
      <3> QED BY <3>1, <3>2, <3>3, <3>4, <3>5, <3>6, <3>7 DEF PointInv
    <2> QED BY <1>5, <2>1, <2>2 DEF BackupFinish
  <1> QED BY <1>1, <1>2, <1>4, <1>5 DEF BackupStep

LEMMA ReaderPoints ==
  ASSUME TypeInv, PointInv, (\E r \in Reader : ReaderStep(r)) \/ (\E s \in Snap : CreateDeleteTask(s))
  PROVE  PointInv'
  <1>1. UNCHANGED <<row, parent, file, merged, host, deleted, merge, image, local, data, raced,
                    worker, backup>>
    BY DEF ReaderStep, RestoreCreate, LockFile, LockFileWaited, RestoreDone, UnlockFiles,
           CreateDeleteTask, tables, tasks, disk
  <1>2. WorkerLinks' /\ BackupLinks'
    BY <1>1, WorkerStill DEF PointInv, BackupLinks
  <1> QED BY <1>1, <1>2, LinksFrame

(* What the worker takes up, it takes up with the links as work found them.    *)
LEMMA PickPoints ==
  ASSUME TypeInv, PointInv, NEW s \in Snap, PickTask(s) \/ Expire(s) PROVE PointInv'
  <1>1. /\ UNCHANGED <<row, parent, file, merged, host, deleted, merge, image, local, data, raced,
                       backup>>
        /\ worker'.snap = s /\ worker'.pc # "reparent"
    BY DEF PickTask, Expire, StartCollect, StartDelete, ResumeMerge, Idle, tables, tasks, disk
  <1>2. WorkerLinks'
    <2>1. CASE worker'.pc = "set_merged"
      <3>1. MergeType(s) = "delete"
        BY <2>1, Zenon DEF PickTask, Expire, StartCollect, StartDelete, ResumeMerge, Idle
      <3>2. /\ ~merged[s]
            /\ \A c \in Children(s) : parent[s] # NoSnap /\ file[c] = file[s]
        BY <3>1 DEF MergeType
      <3> QED BY <1>1, <2>1, <3>2 DEF WorkerLinks, Children, MadePC
    <2>2. CASE worker'.pc = "merge_create"
      <3>1. MergeType(s) = "merge"
        BY <2>2, Zenon DEF PickTask, Expire, StartCollect, StartDelete, ResumeMerge, Idle
      <3>2. parent[s] # NoSnap /\ file[parent[s]] # file[s]
        BY <3>1 DEF MergeType
      <3> QED BY <1>1, <2>2, <3>2 DEF WorkerLinks, MadePC
    <2>3. CASE worker'.pc \notin {"set_merged", "merge_create"}
      <3>1. worker'.pc \notin {"txn"} \cup MadePC
        BY DEF PickTask, Expire, StartCollect, StartDelete, ResumeMerge, Idle, MadePC
      <3> QED BY <2>3, <3>1, LinksAtRest
    <2> QED BY <2>1, <2>2, <2>3
  <1>3. BackupLinks'
    BY <1>1 DEF PointInv, BackupLinks
  <1> QED BY <1>1, <1>2, <1>3, LinksFrame

(* The steps of the worker that touch no link.                                *)
LEMMA WorkerOnly ==
  ASSUME PointInv, UNCHANGED <<row, parent, file, merged, host, merge, image, data, raced, backup>>,
         worker'.pc \notin {"set_merged", "txn", "merge_create", "reparent"} \cup MadePC
  PROVE  PointInv'
  <1>1. WorkerLinks' /\ BackupLinks'
    BY LinksAtRest DEF PointInv, BackupLinks
  <1> QED BY <1>1, LinksFrame

LEMMA ReturnAtRest ==
  ASSUME TypeInv, Return
  PROVE  worker'.pc \notin {"set_merged", "txn", "merge_create", "reparent"} \cup MadePC
  <1>1. worker.ret \in {"idle", "check", "to_stage2"} /\ worker \in WorkerState
    BY DEF TypeInv, TypeOK, WorkerOK, WorkerState
  <1> QED BY <1>1 DEF Return, Idle, WorkerState, MadePC

LEMMA DeletePoints == ASSUME TypeInv, TaskInv, PointInv, DeleteStep PROVE PointInv'
  <1> PICK s : s = worker.snap
    OBVIOUS
  <1>0. worker \in WorkerState
    BY PointTypes
  <1>1. CASE SetMerged
    <2>1. /\ UNCHANGED <<row, parent, file, merged, host, deleted, merge, image, local, data, raced,
                         backup>>
          /\ worker'.snap = s /\ worker.pc = "set_merged" /\ worker'.pc \in {"txn", "check"}
      BY <1>0, <1>1 DEF SetMerged, Goto, WorkerState, WorkerPC, tables, tasks, disk
    <2>2. WorkerLinks' /\ BackupLinks'
      BY <2>1 DEF PointInv, WorkerLinks, BackupLinks, Children, MadePC
    <2> QED BY <2>1, <2>2, LinksFrame
  <1>2. CASE Commit
    <2>1. /\ s \in Snap /\ worker.pc = "txn" /\ worker'.pc = "list_delete"
          /\ merged' = [merged EXCEPT ![s] = TRUE]
          /\ UNCHANGED <<row, file, host, deleted, merge, image, local, data, raced, backup>>
          /\ \A x \in Snap : parent'[x] = parent[x] \/ (parent[s] # NoSnap /\ parent'[x] = parent[s])
      BY <1>0, <1>2, PointTypes DEF Commit, Goto, WorkerState, WorkerPC, Reparented, disk
    <2>2. WorkerLinks' /\ BackupLinks' /\ RacedSound'
      BY <2>1, LinksAtRest DEF PointInv, BackupLinks, RacedSound, New, MadePC
    <2>3. \A x : (Point(x)' <=> Point(x)) /\ (New(x)' <=> New(x))
      BY <2>1 DEF Point, Made, New
    <2>4. ASSUME NEW x \in Snap PROVE PointSound(x)' /\ MergeLinks(x)'
      <3>1. PointSound(x) /\ PointSound(s) /\ MergeLinks(x)
        BY <2>1 DEF PointInv
      <3>2. parent'[x] # NoSnap => Point(parent[x])'
        BY <2>1, <3>1 DEF PointSound, Point, Made
      <3>3. Present(x)' => Present(x)
        BY <2>1, <2>3, PointTypes DEF Present, Between
      <3>4. PointSound(x)'
        BY <2>1, <2>3, <3>1, <3>2, <3>3 DEF PointSound, New
      <3>5. MergeLinks(x)'
        BY <2>1, <3>1 DEF MergeLinks, Point, Made
      <3> QED BY <3>4, <3>5
    <2> QED BY <2>2, <2>4 DEF PointInv
  <1>3. CASE ListDelete \/ LockForDelete \/ SetDeleted \/ SetTaskFinished
    <2>1. UNCHANGED <<row, parent, file, merged, host, merge, image, data, raced, backup>>
      BY <1>3 DEF ListDelete, LockForDelete, SetDeleted, SetTaskFinished, tables, tasks, disk
    <2>2. worker'.pc \in {"delete", "finish", "abort", "deleting", "close", "idle"}
      <3>1. CASE ListDelete
        BY <1>0, <3>1 DEF ListDelete, WorkerState, WorkerPC
      <3>2. CASE LockForDelete
        BY <1>0, <3>2 DEF LockForDelete, Goto, WorkerState, WorkerPC
      <3>3. CASE SetDeleted
        BY <1>0, <3>3 DEF SetDeleted, Goto, Idle, WorkerState, WorkerPC
      <3>4. CASE SetTaskFinished
        BY <3>4 DEF SetTaskFinished, Idle
      <3> QED BY <1>3, <3>1, <3>2, <3>3, <3>4
    <2>3. worker'.pc \notin {"set_merged", "txn", "merge_create", "reparent"} \cup MadePC
      BY <2>2 DEF MadePC
    <2> QED BY <2>1, <2>3, WorkerOnly
  <1>4. CASE DeleteImage
    <2>1. /\ worker.pc = "deleting" /\ merged[s] /\ worker'.pc \in {"unlock", "abort"}
          /\ image \ {s} \subseteq image'
          /\ UNCHANGED <<row, parent, file, merged, host, merge, data, raced, backup>>
      BY <1>0, <1>4 DEF DeleteImage, Goto, WorkerState, WorkerPC, TaskInv, WorkerSound, DeletePC,
                        tables, tasks
    <2>2. WorkerLinks' /\ BackupLinks' /\ RacedSound'
      BY <2>1, LinksAtRest DEF PointInv, BackupLinks, RacedSound, New, MadePC
    <2>3. \A x : (Point(x)' <=> Point(x)) /\ (New(x)' <=> New(x))
      BY <2>1 DEF Point, Made, New
    <2>4. ASSUME NEW x \in Snap PROVE PointSound(x)' /\ MergeLinks(x)'
      <3>1. PointSound(x) /\ MergeLinks(x)
        BY DEF PointInv
      <3>2. parent'[x] # NoSnap => Point(parent[x])'
        BY <2>1, <3>1 DEF PointSound, Point, Made
      <3>3. Present(x)' => Present(x) /\ x # s
        BY <2>1, <2>3 DEF Present, Between
      <3>4. PointSound(x)'
        BY <2>1, <2>3, <3>1, <3>2, <3>3 DEF PointSound, New
      <3>5. MergeLinks(x)'
        BY <2>1, <3>1 DEF MergeLinks, Point, Made
      <3> QED BY <3>4, <3>5
    <2> QED BY <2>2, <2>4 DEF PointInv
  <1>5. CASE UnlockAfterDelete \/ FinishDelete
    <2>1. UNCHANGED <<row, parent, file, merged, host, merge, image, data, raced, backup>>
      BY <1>5 DEF UnlockAfterDelete, FinishDelete, tables, tasks, disk
    <2>2. Goto("finish") \/ Return
      BY <1>5 DEF UnlockAfterDelete, FinishDelete
    <2>3. worker'.pc \notin {"set_merged", "txn", "merge_create", "reparent"} \cup MadePC
      BY <1>0, <2>2, ReturnAtRest DEF Goto, WorkerState, MadePC
    <2> QED BY <2>1, <2>3, WorkerOnly
  <1> QED BY <1>1, <1>2, <1>3, <1>4, <1>5 DEF DeleteStep

(* A failed attempt drops the row of the new snapshot, which is not a point.   *)
LEMMA DropPoints ==
  ASSUME TypeInv, TaskInv, PointInv, NEW n \in Snap, New(n), ~Point(n), host[n] # "successful",
         DropNew(n), UNCHANGED <<file, merged, merge, data, raced, backup>>, image \subseteq image',
         worker' = Idle
  PROVE  PointInv'
  <1>1. WorkerLinks' /\ BackupLinks'
    <2>1. backup.parent # NoSnap => host'[backup.parent] = "successful"
      BY PointTypes DEF PointInv, BackupLinks, DropNew, BackupState, SnapOrNull
    <2> QED BY <2>1, LinksAtRest DEF PointInv, BackupLinks, Idle, MadePC
  <1>2. /\ row' = row \ {n} /\ parent'[n] = NoSnap /\ host'[n] = "none"
        /\ \A x \in Snap \ {n} : parent'[x] = parent[x] /\ host'[x] = host[x]
    BY PointTypes DEF DropNew
  <1>3. \A x \in Snap \ {n} : PointSound(x)' /\ MergeLinks(x)'
    BY <1>2, PointElsewhere DEF Idle
  <1>4. PointSound(n)' /\ MergeLinks(n)'
    <2>1. ~Point(n)' /\ PointSound(n) /\ New(n)' /\ merge[n].stage = "none"
      BY <1>2 DEF Point, Made, New, PointInv, TaskInv, MergeSound
    <2> QED BY <1>2, <2>1 DEF PointSound, MergeLinks, Present
  <1>5. RacedSound'
    BY <1>2 DEF PointInv, RacedSound, New
  <1> QED BY <1>1, <1>3, <1>4, <1>5 DEF PointInv

(* Stage 0 of a merge: the new snapshot becomes a point with the persisted     *)
(* stage, when its image is there.                                           *)
LEMMA MakePoints ==
  ASSUME TypeInv, TaskInv, PointInv,
         RecreateNew \/ LockForMerge \/ MergeImage \/ UnlockAfterMerge
  PROVE  PointInv'
  <1> PICK s, n, p : s = worker.snap /\ n = merge[s].new /\ p = merge[s].prev
    OBVIOUS
  <1>0. /\ worker \in WorkerState /\ worker.pc \in {"stage0"} \cup MadePC
        /\ s \in Snap /\ n \in Snap /\ p \in Snap /\ merge[s].stage = "stage0"
        /\ New(n) /\ ~Made(n) /\ ~Point(n) /\ host[n] # "successful" /\ Point(s) /\ Point(p)
        /\ n # s /\ n # p /\ merge[n].stage = "none" /\ n \notin raced
    <2>1. worker.pc \in {"stage0"} \cup MadePC
      BY DEF RecreateNew, LockForMerge, MergeImage, UnlockAfterMerge, MadePC
    <2>2. s \in Snap /\ merge[s].stage = "stage0" /\ n \in Snap /\ p \in Snap
      BY <2>1, PointTypes DEF TaskInv, WorkerSound, MadePC
    <2>3. New(n) /\ ~Made(n) /\ ~Point(n) /\ host[n] # "successful" /\ Point(s) /\ Point(p)
          /\ n # s
      BY <2>2, NotPoint DEF New, TaskInv, MergeSound, Point, PointInv, MergeLinks
    <2>4. merge[n].stage = "none" /\ n \notin raced
      BY <2>2, <2>3 DEF TaskInv, MergeSound, PointInv, RacedSound
    <2> QED BY <2>1, <2>2, <2>3, <2>4, PointTypes
  <1>1. CASE RecreateNew
    <2>1. CASE worker' = Idle /\ UNCHANGED tables
      BY <1>1, <2>1, WorkerOnly DEF RecreateNew, tables, tasks, disk, Idle, MadePC
    <2>2. CASE /\ ~(parent[s] # p \/ merged[p] \/ merged[s])
               /\ row' = row \cup {n}
               /\ parent' = [parent EXCEPT ![n] = p]
               /\ file' = [file EXCEPT ![n] = file[p]]
               /\ host' = [host EXCEPT ![n] = "backuping"]
               /\ Goto("merge_lock")
               /\ UNCHANGED <<merged, deleted>>
      <3>1. /\ UNCHANGED <<merge, image, local, data, raced, backup>>
            /\ worker'.pc = "merge_lock" /\ worker'.snap = s
            /\ parent'[n] = p /\ file'[n] = file[p] /\ host'[n] = "backuping"
            /\ \A x \in Snap \ {n} : /\ parent'[x] = parent[x] /\ file'[x] = file[x]
                                     /\ host'[x] = host[x]
        BY <1>0, <1>1, <2>2, PointTypes DEF RecreateNew, Goto, WorkerState, WorkerPC, tasks, disk
      <3>2. WorkerLinks'
        BY <1>0, <2>2, <3>1 DEF WorkerLinks
      <3>3. BackupLinks'
        BY <1>0, <3>1, PointTypes DEF PointInv, BackupLinks, BackupState, SnapOrNull
      <3>4. \A x \in Snap \ {n} : PointSound(x)' /\ MergeLinks(x)' /\ (Point(x)' <=> Point(x))
        BY <1>0, <2>2, <3>1, PointElsewhere
      <3>5. PointSound(n)'
        <4>1. ~Point(n)'
          BY <1>0, <3>1 DEF Point, Made
        <4>2. Point(p)' /\ p \in row /\ PointSound(p) /\ PointSound(n)
          BY <1>0, <3>4, PointRow DEF PointInv
        <4>3. file'[n] \in row' /\ \A t \in Snap : merge'[t].new # file'[n]
          BY <2>2, <3>1, <4>2 DEF PointSound, New
        <4>4. parent'[n] # NoSnap => Point(parent[n])'
          BY <3>1, <4>2 DEF Point, Made
        <4> QED BY <3>1, <4>1, <4>2, <4>3, <4>4 DEF PointSound, Present, New
      <3>6. MergeLinks(n)' /\ RacedSound'
        BY <1>0, <2>2, <3>1 DEF MergeLinks, PointInv, RacedSound, New
      <3> QED BY <3>2, <3>3, <3>4, <3>5, <3>6 DEF PointInv
    <2> QED BY <1>1, <2>1, <2>2 DEF RecreateNew
  <1>2. CASE LockForMerge
    <2>1. UNCHANGED <<file, merged, merge, image, local, data, raced, backup>>
      BY <1>2 DEF LockForMerge, tasks, disk
    <2>2. CASE DropNew(n) /\ worker' = Idle
      BY <1>0, <2>1, <2>2, DropPoints
    <2>3. CASE worker' = Idle /\ UNCHANGED <<row, parent, host>>
      BY <2>1, <2>3, WorkerOnly DEF Idle, MadePC
    <2>4. CASE Goto("merging") /\ UNCHANGED <<row, parent, host>>
      <3>1. worker'.snap = s /\ worker'.pc = "merging" /\ worker.pc = "merge_lock"
        BY <1>0, <1>2, <2>4 DEF Goto, WorkerState, WorkerPC, LockForMerge
      <3>2. WorkerLinks' /\ BackupLinks'
        BY <2>1, <2>4, <3>1 DEF PointInv, WorkerLinks, BackupLinks, MadePC
      <3> QED BY <2>1, <2>4, <3>1, <3>2, LinksFrame
    <2> QED BY <1>2, <2>2, <2>3, <2>4 DEF LockForMerge
  <1>3. CASE MergeImage
    <2>1. UNCHANGED <<file, merged, merge, raced, backup>>
      BY <1>3 DEF MergeImage, tasks
    <2>2. CASE DropNew(n) /\ image' \in {image, image \cup {n}} /\ worker' = Idle /\ data' = data
      BY <1>0, <2>1, <2>2, DropPoints
    <2>3. CASE /\ image' = image \cup {n}
               /\ local' = [local EXCEPT ![n] = local[p] \cup local[s]]
               /\ data' = [data EXCEPT ![n] = data[s]]
               /\ Goto("merge_unlock") /\ UNCHANGED <<row, parent, host>>
      <3>1. /\ worker'.snap = s /\ worker'.pc = "merge_unlock" /\ worker.pc = "merging"
            /\ n \in image' /\ data'[n] = data[s] /\ local'[n] = local[p] \cup local[s]
            /\ \A x \in Snap \ {n} : local'[x] = local[x] /\ data'[x] = data[x]
        BY <1>0, <1>3, <2>3, PointTypes DEF MergeImage, Goto, WorkerState, WorkerPC
      <3>2. WorkerLinks' /\ BackupLinks' /\ RacedSound'
        BY <1>0, <2>1, <2>3, <3>1
           DEF PointInv, WorkerLinks, BackupLinks, RacedSound, New, MadePC
      <3>3. \A x \in Snap \ {n} : PointSound(x)' /\ MergeLinks(x)' /\ (Point(x)' <=> Point(x))
        BY <1>0, <2>1, <2>3, <3>1, PointElsewhere
      <3>4. PointSound(n)' /\ MergeLinks(n)'
        <4>1. ~Point(n)' /\ PointSound(n) /\ PointSound(s) /\ MergeLinks(n)
          BY <1>0, <2>1, <2>3 DEF Point, Made, PointInv
        <4>2. parent[n] # NoSnap => Point(parent[n])'
          BY <2>1, <2>3, <4>1 DEF PointSound, Point, Made
        <4> QED BY <1>0, <2>1, <2>3, <3>1, <4>1, <4>2 DEF PointSound, MergeLinks, Present, New
      <3> QED BY <3>2, <3>3, <3>4 DEF PointInv
    <2> QED BY <1>3, <2>2, <2>3 DEF MergeImage, tables
  <1>4. CASE UnlockAfterMerge
    <2>1. /\ merge' = [merge EXCEPT ![s].stage = "stage1"]
          /\ UNCHANGED <<row, parent, file, merged, host, image, local, data, raced, backup>>
          /\ worker.pc = "merge_unlock" /\ worker'.pc = "stage1"
      BY <1>0, <1>4 DEF UnlockAfterMerge, Goto, WorkerState, WorkerPC, tables, disk
    <2>2. /\ \A x \in Snap : /\ merge'[x].new = merge[x].new /\ merge'[x].prev = merge[x].prev
                             /\ merge'[x].stage # "none" => merge[x].stage # "none"
          /\ \A x : New(x)' <=> New(x)
          /\ \A x : Point(x) => Point(x)'
          /\ \A x : Point(x)' => Point(x) \/ x = n
      BY <1>0, <2>1, PointTypes DEF New, Point, Made, MergeTask
    <2>3. WorkerLinks' /\ BackupLinks' /\ RacedSound'
      BY <2>1, <2>2, LinksAtRest DEF PointInv, BackupLinks, RacedSound, New, MadePC
    <2>4. n \in image /\ data[n] = data[s]
      BY <2>1 DEF PointInv, WorkerLinks
    <2>5. ASSUME NEW x \in Snap PROVE PointSound(x)'
      <3>1. PointSound(x) /\ PointSound(s)
        BY <1>0 DEF PointInv
      <3>2. parent[x] # NoSnap => Point(parent[x])'
        BY <2>1, <2>2, <3>1 DEF PointSound, Point, Made
      <3>3. Present(x)' => x \in image
        BY <2>1, <2>2, <2>4, <3>1 DEF PointSound, Present, Between
      <3>4. Point(x)' => \A d \in data[x] : host[d] = "successful" /\ ~New(d)
        BY <1>0, <2>2, <2>4, <3>1 DEF PointSound
      <3> QED BY <2>1, <2>2, <3>1, <3>2, <3>3, <3>4 DEF PointSound, New
    <2>6. ASSUME NEW x \in Snap PROVE MergeLinks(x)'
      BY <2>1, <2>2 DEF PointInv, MergeLinks, Point, Made
    <2> QED BY <2>3, <2>5, <2>6 DEF PointInv
  <1> QED BY <1>1, <1>2, <1>3, <1>4

LEMMA MergePoints == ASSUME TypeInv, TaskInv, PointInv, MergeStep PROVE PointInv'
  <1> PICK s, n, p : s = worker.snap /\ n = merge[s].new /\ p = merge[s].prev
    OBVIOUS
  <1>0. worker \in WorkerState /\ worker.pc \notin {"start", "idle"} => s \in Snap
    BY PointTypes
  <1>1. CASE CreateMerge
    <2>1. PICK m \in Snap :
            Fresh(m) /\ merge' = [merge EXCEPT ![s] = [stage |-> "stage0", new |-> m, prev |-> parent[s]]]
      BY <1>1 DEF CreateMerge
    <2>2. /\ worker.pc = "merge_create" /\ worker'.pc = "merge_list" /\ s \in Snap
          /\ UNCHANGED <<row, parent, file, merged, host, image, local, data, raced, backup>>
          /\ m \notin row /\ s \in row /\ parent[s] # NoSnap /\ file[parent[s]] # file[s]
          /\ merge[s].stage = "none" /\ merge[s].new = NoSnap
      BY <1>0, <1>1, <2>1, PointTypes
         DEF CreateMerge, Goto, Fresh, WorkerState, WorkerPC, tables, disk, PointInv, WorkerLinks,
             TaskInv, WorkerSound, RowSound, MergeSound
    <2>3. /\ \A x \in Snap \ {s} : merge'[x] = merge[x]
          /\ merge'[s].stage = "stage0" /\ merge'[s].new = m /\ merge'[s].prev = parent[s]
          /\ \A x : New(x)' => New(x) \/ x = m
          /\ \A x \in Snap : New(x) => New(x)'
          /\ \A x : Point(x)' <=> Point(x)
      BY <2>1, <2>2, PointTypes, NullAssumption DEF New, Point, Made
    <2>4. WorkerLinks' /\ BackupLinks' /\ RacedSound'
      BY <2>2, <2>3, LinksAtRest DEF PointInv, BackupLinks, RacedSound, MadePC
    <2>5. ASSUME NEW x \in Snap PROVE PointSound(x)' /\ MergeLinks(x)'
      <3>1. PointSound(x) /\ MergeLinks(x) /\ PointSound(s) /\ data[x] \subseteq Snap
        BY <2>2, PointTypes DEF PointInv
      <3>2. parent[x] # NoSnap => Point(parent[x])'
        BY <2>2, <2>3, <3>1 DEF PointSound
      <3>3. Present(x)' => Present(x)
        BY <2>2, <2>3 DEF Present, Between
      <3>4. \A d \in data[x] : host[d] = "successful" => d # m
        BY <2>2, <3>1 DEF TaskInv, RowSound
      <3>5. host[x] = "successful" /\ ~New(x)' => x \in data[x]
        BY <2>3, <3>1 DEF PointSound
      <3>6. Point(x)' => \A d \in data[x] : host[d] = "successful" /\ ~New(d)'
        BY <2>3, <3>1, <3>4 DEF PointSound
      <3>7. x \in row => file[x] \in row /\ ~New(file[x])'
        <4>1. x \in row => file[x] \in row /\ ~New(file[x]) /\ file[x] # m
          BY <2>2, <3>1 DEF PointSound
        <4> QED BY <2>2, <2>3, <4>1 DEF New
      <3>8. PointSound(x)'
        BY <2>2, <2>3, <3>1, <3>2, <3>3, <3>5, <3>6, <3>7 DEF PointSound
      <3>9. MergeLinks(x)'
        BY <2>2, <2>3, <3>1 DEF MergeLinks, PointSound, Point, Made
      <3> QED BY <3>8, <3>9
    <2> QED BY <2>4, <2>5 DEF PointInv
  <1>2. CASE ListMerge \/ CreateDelete \/ CondemnNew \/ CollectNew
    <2>1. UNCHANGED <<row, parent, file, merged, host, merge, image, data, raced, backup>>
      BY <1>2 DEF ListMerge, CreateDelete, CondemnNew, CollectNew, tables, tasks, disk
    <2>2. worker'.pc \in {"stage0", "delete", "merge_finish", "collect_new"}
      <3>1. CASE ListMerge
        BY <1>0, <3>1 DEF ListMerge, Goto, WorkerState, WorkerPC
      <3>2. CASE CreateDelete
        BY <1>0, <3>2 DEF CreateDelete, WorkerState, WorkerPC
      <3>3. CASE CondemnNew
        BY <1>0, <3>3 DEF CondemnNew, Goto, WorkerState, WorkerPC
      <3>4. CASE CollectNew
        BY <1>0, <3>4 DEF CollectNew, Goto, WorkerState, WorkerPC
      <3> QED BY <1>2, <3>1, <3>2, <3>3, <3>4
    <2> QED BY <2>1, <2>2, WorkerOnly DEF MadePC
  <1>3. ASSUME UNCHANGED <<row, file, host, image, data, raced, backup>>,
               \A x \in Snap : /\ merge'[x].new = merge[x].new /\ merge'[x].prev = merge[x].prev
                               /\ merge'[x].stage # "none" => merge[x].stage # "none",
               \A x : Point(x)' <=> Point(x), \A x : New(x)' <=> New(x),
               \A x \in Snap : Present(x)' => Present(x),
               \A x \in Snap : \/ parent'[x] = parent[x]
                               \/ parent'[x] \in Snap /\ Point(parent'[x]),
               worker'.pc \notin {"set_merged", "txn", "merge_create"} \cup MadePC
        PROVE  PointInv'
    <2>1. WorkerLinks' /\ BackupLinks' /\ RacedSound'
      BY <1>3, LinksAtRest DEF PointInv, BackupLinks, RacedSound
    <2>2. ASSUME NEW x \in Snap PROVE PointSound(x)' /\ MergeLinks(x)'
      <3>1. PointSound(x) /\ MergeLinks(x)
        BY DEF PointInv
      <3>2. parent'[x] # NoSnap => Point(parent'[x])
        BY <1>3, <3>1 DEF PointSound
      <3>3. parent'[x] # NoSnap => Point(parent[x])'
        <4>1. PICK q : q = parent'[x]
          OBVIOUS
        <4>2. q # NoSnap => Point(q)'
          BY <1>3, <3>2, <4>1
        <4> QED BY <4>1, <4>2 DEF Point, Made
      <3>4. New(file[x])' <=> New(file[x])
        BY <1>3 DEF New
      <3>5. PointSound(x)'
        BY <1>3, <3>1, <3>3, <3>4 DEF PointSound
      <3>6. merge[x].stage # "none" => Point(merge[x].prev)'
        BY <1>3, <3>1 DEF MergeLinks, Point, Made
      <3>7. merge'[x].stage # "none" => Point(merge[x].prev)' /\ parent'[x] # NoSnap
        BY <1>3, <3>1, <3>6, NullAssumption DEF MergeLinks
      <3>8. MergeLinks(x)'
        BY <1>3, <3>1, <3>7 DEF MergeLinks
      <3> QED BY <3>5, <3>8
    <2> QED BY <2>1, <2>2 DEF PointInv
  <1>4. CASE SetMergedStage1
    <2>1. /\ worker.pc = "stage1" /\ worker'.pc \in {"to_stage2", "idle", "reparent"}
          /\ worker'.pc = "reparent" => worker'.snap = s /\ ~merged[s]
          /\ \A x \in Snap \ {s} : merged'[x] = merged[x]
          /\ UNCHANGED <<row, parent, file, host, image, data, raced, backup, merge>>
          /\ worker'.pc # "reparent" => merged' = merged
      BY <1>0, <1>4, PointTypes DEF SetMergedStage1, Goto, Idle, WorkerState, WorkerPC, tasks, disk
    <2>2. \A x : (Point(x)' <=> Point(x)) /\ (New(x)' <=> New(x))
      BY <2>1 DEF Point, Made, New
    <2>3. \A x \in Snap : Present(x)' => Present(x)
      BY <2>1, <2>2 DEF Present, Between
    <2> QED BY <1>3, <2>1, <2>2, <2>3 DEF MadePC
  <1>5. CASE Reparent
    <2>1. /\ worker.pc = "reparent" /\ worker'.pc = "merge_delete"
          /\ \A x \in Snap : parent'[x] = parent[x] \/ parent'[x] = n
          /\ UNCHANGED <<row, file, merged, host, image, data, raced, backup, merge>>
      BY <1>0, <1>5, PointTypes DEF Reparent, Reparented, Goto, WorkerState, WorkerPC, tasks, disk
    <2>2. \A x : (Point(x)' <=> Point(x)) /\ (New(x)' <=> New(x))
      BY <2>1 DEF Point, Made, New
    <2>3. \A x \in Snap : Present(x)' => Present(x)
      BY <2>1, <2>2 DEF Present, Between
    <2>4. n \in Snap /\ Point(n)
      BY <1>0, <2>1, PointTypes DEF TaskInv, WorkerSound, MergeSound, Point, Made
    <2> QED BY <1>3, <2>1, <2>2, <2>3, <2>4 DEF MadePC
  <1>6. CASE ToStage2 \/ FinishMerge
    <2>1. /\ UNCHANGED <<row, parent, file, merged, host, image, data, raced, backup>>
          /\ s \in Snap /\ merge[s].stage \in {"stage1", "stage2"}
          /\ \E st \in {"stage2", "finished"} : merge' = [merge EXCEPT ![s].stage = st]
          /\ worker'.pc \in {"stage2", "idle"}
      BY <1>0, <1>6, PointTypes DEF ToStage2, FinishMerge, Goto, Idle, WorkerState, WorkerPC, tables, disk,
         TaskInv, WorkerSound
    <2>2. \A x \in Snap : /\ merge'[x].new = merge[x].new /\ merge'[x].prev = merge[x].prev
                          /\ merge'[x].stage # "none" => merge[x].stage # "none"
                          /\ (merge'[x].stage \in {"stage1", "stage2", "finished"} <=>
                              merge[x].stage \in {"stage1", "stage2", "finished"})
      BY <2>1, PointTypes DEF MergeTask
    <2>3. \A x : (Point(x)' <=> Point(x)) /\ (New(x)' <=> New(x))
      BY <2>1, <2>2 DEF Point, Made, New
    <2>4. \A x \in Snap : Present(x)' => Present(x)
      BY <2>1, <2>3 DEF Present, Between
    <2> QED BY <1>3, <2>1, <2>2, <2>3, <2>4 DEF MadePC
  <1>7. CASE FinishNew
    <2>1. /\ UNCHANGED <<row, parent, file, merged, merge, image, data, raced, backup>>
          /\ s \in Snap /\ n \in Snap /\ New(n) /\ Made(n) /\ worker'.pc = "condemn"
          /\ host[n] \in {"backuping", "successful"} /\ host'[n] = "successful"
          /\ \A x \in Snap \ {n} : host'[x] = host[x]
      BY <1>0, <1>7, PointTypes DEF FinishNew, Goto, WorkerState, WorkerPC, tasks, disk, New, Made,
         TaskInv, WorkerSound, MergeSound
    <2>2. \A x \in Snap : (Point(x)' <=> Point(x)) /\ (New(x)' <=> New(x))
      BY <2>1 DEF Point, Made, New
    <2>3. \A x \in Snap : Present(x)' => Present(x)
      BY <2>1, <2>2 DEF Present, Between
    <2>4. WorkerLinks' /\ BackupLinks' /\ RacedSound'
      BY <2>1, LinksAtRest, PointTypes
         DEF PointInv, BackupLinks, RacedSound, New, MadePC, BackupState, SnapOrNull
    <2>5. ASSUME NEW x \in Snap PROVE PointSound(x)' /\ MergeLinks(x)'
      <3>1. PointSound(x) /\ MergeLinks(x) /\ data[x] \subseteq Snap /\ parent[x] \in SnapOrNull
        BY PointTypes DEF PointInv
      <3>2. parent'[x] # NoSnap => Point(parent[x])'
        BY <2>1, <3>1 DEF PointSound, Point, Made, SnapOrNull
      <3>3. PointSound(x)'
        BY <2>1, <2>2, <2>3, <3>1, <3>2 DEF PointSound, New
      <3>4. MergeLinks(x)'
        BY <2>1, <3>1, PointTypes DEF MergeLinks, Point, Made
      <3> QED BY <3>3, <3>4
    <2> QED BY <2>4, <2>5 DEF PointInv
  <1> QED BY <1>1, <1>2, <1>4, <1>5, <1>6, <1>7, MakePoints DEF MergeStep

LEMMA WorkerPoints == ASSUME TypeInv, TaskInv, PointInv, WorkerStep PROVE PointInv'
  <1>1. CASE SetDeleting \/ CreateTask \/ UnlockFilesByPrefix
    <2>1. UNCHANGED <<row, parent, file, merged, host, merge, image, data, raced, backup>>
      BY <1>1 DEF SetDeleting, CreateTask, UnlockFilesByPrefix, tables, tasks, disk
    <2>2. worker'.pc \in {"create_task", "idle"}
      BY <1>1, PointTypes
         DEF SetDeleting, CreateTask, UnlockFilesByPrefix, Goto, Idle, WorkerState, WorkerPC
    <2> QED BY <2>1, <2>2, WorkerOnly DEF MadePC
  <1> QED BY <1>1, DeletePoints, MergePoints DEF WorkerStep

(* What a restart in the middle of a merge taints are finished backups.        *)
LEMMA CrashPoints == ASSUME TypeInv, TaskInv, PointInv, Crash PROVE PointInv'
  <1> PICK b : b = backup.snap
    OBVIOUS
  <1>1. /\ UNCHANGED <<row, parent, file, merged, merge, image, local, data>>
        /\ worker'.pc = "start" /\ backup' \in {backup, IdleBackup}
        /\ \/ host' = host
           \/ backup.pc = "created" /\ host' = [host EXCEPT ![b] = "failed"] /\ backup' = IdleBackup
    BY DEF Crash, Idle, tasks, disk
  <1>2. backup.pc = "created" => b \in Snap /\ ~Point(b) /\ ~New(b) /\ host[b] = "backuping"
    BY PointTypes, NotPoint DEF TaskInv, BackupSound
  <1>3. WorkerLinks'
    BY <1>1, LinksAtRest DEF MadePC
  <1>4. BackupLinks'
    BY <1>1, <1>2, PointTypes DEF PointInv, BackupLinks, IdleBackup, BackupState, SnapOrNull
  <1>5. RacedSound'
    <2>1. worker.pc = "reparent" => worker.snap \in Snap /\ Point(worker.snap)
      BY PointTypes DEF TaskInv, WorkerSound, RowSound, Point
    <2>2. worker.pc = "reparent" => \A d \in data[worker.snap] : d \in row /\ ~New(d)
      <3> SUFFICES ASSUME worker.pc = "reparent", NEW d \in data[worker.snap]
                   PROVE  d \in row /\ ~New(d)
        OBVIOUS
      <3>1. host[d] = "successful" /\ ~New(d) /\ d \in Snap
        BY <2>1, PointTypes DEF PointInv, PointSound
      <3> QED BY <3>1 DEF TaskInv, RowSound
    <2>3. \A d \in raced' : d \in raced \/ (worker.pc = "reparent" /\ d \in data[worker.snap])
      BY DEF Crash
    <2> QED BY <1>1, <2>2, <2>3 DEF PointInv, RacedSound, New
  <1>6. CASE host' = host
    BY <1>1, <1>3, <1>4, <1>5, <1>6, LinksFrame
  <1>7. CASE backup.pc = "created" /\ host' = [host EXCEPT ![b] = "failed"]
    <2>1. host'[b] = "failed" /\ \A x \in Snap \ {b} : host'[x] = host[x]
      BY <1>2, <1>7, PointTypes
    <2>2. \A x \in Snap \ {b} : PointSound(x)' /\ MergeLinks(x)' /\ (Point(x)' <=> Point(x))
      BY <1>1, <1>2, <1>7, <2>1, PointElsewhere
    <2>3. PointSound(b)' /\ MergeLinks(b)'
      <3>1. ~Point(b)' /\ PointSound(b) /\ merge[b].stage = "none"
        BY <1>2, <1>7, <2>1 DEF Point, PointInv, TaskInv, MergeSound
      <3>2. parent[b] # NoSnap => Point(parent[b])'
        <4>1. parent[b] # NoSnap => Point(parent[b]) /\ parent[b] \in Snap \ {b}
          BY <1>2, <1>7, <3>1, PointTypes DEF PointSound, SnapOrNull
        <4> QED BY <1>1, <2>2, <4>1 DEF Point, Made
      <3> QED BY <1>1, <2>1, <3>1, <3>2 DEF PointSound, MergeLinks, Present, New
    <2> QED BY <1>2, <1>3, <1>4, <1>5, <1>7, <2>2, <2>3 DEF PointInv
  <1> QED BY <1>1, <1>6, <1>7

(* The files of a point never change, a present point is on the disk, a merge   *)
(* works on a point that hangs on a point of another file, and what the worker *)
(* has decided about a snapshot still holds when it acts on it.               *)
THEOREM PointsInvariant == Spec => []PointInv
  <1>1. PointInv /\ TypeInv /\ TaskInv /\ [Next]_vars => PointInv'
    <2> SUFFICES ASSUME PointInv, TypeInv, TaskInv, [Next]_vars PROVE PointInv'
      OBVIOUS
    <2>1. CASE UNCHANGED vars
      <3>1. UNCHANGED <<row, parent, file, merged, host, deleted, merge, image, local, data, raced,
                        worker, backup>>
        BY <2>1 DEF vars, tables, tasks, disk
      <3>2. WorkerLinks' /\ BackupLinks'
        BY <3>1, WorkerStill DEF PointInv, BackupLinks
      <3> QED BY <3>1, <3>2, LinksFrame
    <2> QED BY <2>1, BackupPoints, ReaderPoints, PickPoints, WorkerPoints, CrashPoints
            DEF Next, Condemn
  <1> QED BY <1>1, InitPoints, TypesInvariant, TasksInvariant, PTL DEF Spec

-----------------------------------------------------------------------------
(* LINKS.  What a point is made of: the deltas it holds in its own file and    *)
(* those of its parent.  The links are promised for live points only, what is  *)
(* present or being backed up, and only for those none of whose deltas was     *)
(* taken on top of a point that was being collected.                          *)

UnderWay(x) == backup.pc \in {"created", "running"} /\ backup.snap = x
Live(x)     == Present(x) \/ UnderWay(x)

(* the deltas x holds, and all it consists of; of a backup, once it is finished *)
Held(x) ==
  LET p == backup.parent
  IN  IF UnderWay(x)
      THEN {x} \cup (IF p # NoSnap /\ file[p] = file[x] THEN local[p] ELSE {})
      ELSE local[x]
Line(x) ==
  LET p == backup.parent
  IN  IF UnderWay(x) THEN {x} \cup (IF p = NoSnap THEN {} ELSE data[p]) ELSE data[x]

Clean(x) == Line(x) \cap raced = {}
Sound(x) == Live(x) /\ Clean(x)

(* The parent is there, has strictly less, and in the same file holds nothing  *)
(* that x does not hold; and the nodes of a chain that are in one file are     *)
(* next to each other, which is why the walk may skip all but the first.       *)
Linked(x) ==
  LET p == parent[x]
  IN  /\ Held(x) \subseteq Line(x)
      /\ p = NoSnap => Line(x) = Held(x)
      /\ p # NoSnap =>
           /\ Present(p)
           /\ data[p] \subseteq Line(x) /\ data[p] # Line(x) /\ Line(x) = Held(x) \cup data[p]
           /\ file[p] = file[x] => local[p] \subseteq Held(x)
      /\ \A z \in Chain(x) : file[z] = file[x] /\ z # x => p # NoSnap /\ file[p] = file[x]

(* A merge of s whose image is there can give the children of s to its new     *)
(* snapshot n: n stands beside s with the same content, and what is above s    *)
(* is not in the file of n, where it would not be next to it.                 *)
Beside(s) ==
  LET n == merge[s].new
  IN  /\ parent[n] = parent[s] /\ data[n] = data[s]
      /\ file[n] # file[s] /\ file[parent[s]] # file[s]
Rewritten(s)  == merge[s].stage = "stage1" /\ Present(s) /\ Clean(s) => Beside(s)
Apart(s, x)   == merge[s].stage = "stage1" /\ Present(s) /\ Clean(s) =>
                   (Sound(x) /\ s \in Chain(x) => file[x] # file[merge[s].new])

ChainInv == \A x \in Snap : /\ Sound(x) => Linked(x)
                            /\ Rewritten(x)
                            /\ \A s \in Snap : Apart(s, x)

(* a present point is not being backed up, and what is, is no point            *)
LEMMA PresentPoint ==
  ASSUME TypeInv, TaskInv, NEW x \in Snap, Present(x)
  PROVE  Point(x) /\ ~UnderWay(x) /\ Held(x) = local[x] /\ Line(x) = data[x]
  <1>1. Point(x) /\ ~UnderWay(x)
    BY PointRow DEF Present, UnderWay
  <1> QED BY <1>1 DEF Held, Line

(* Below a sound snapshot everything is sound, present and smaller.            *)
LEMMA Below ==
  ASSUME TypeInv, TaskInv, ChainInv, NEW x \in Snap, Sound(x), NEW z \in Chain(x)
  PROVE  /\ z \in Snap /\ Sound(z) /\ Linked(z)
         /\ z # x => Present(z) /\ data[z] \subseteq Line(x) /\ data[z] # Line(x)
  <1> DEFINE A == {y \in Snap : /\ Sound(y)
                                /\ y # x => /\ Present(y) /\ data[y] \subseteq Line(x)
                                            /\ data[y] # Line(x)}
  <1>1. ASSUME NEW y \in A, parent[y] # NoSnap PROVE parent[y] \in A
    <2>1. y \in Snap /\ Linked(y) /\ parent[y] \in Snap
      BY <1>1, PointTypes DEF ChainInv, SnapOrNull
    <2>2. /\ Present(parent[y]) /\ data[parent[y]] \subseteq Line(y)
          /\ data[parent[y]] # Line(y)
      BY <1>1, <2>1 DEF Linked
    <2>3. Line(parent[y]) = data[parent[y]]
      BY <2>1, <2>2, PresentPoint
    <2>4. Sound(parent[y])
      BY <1>1, <2>2, <2>3 DEF Sound, Clean, Live
    <2>5. y # x => Line(y) = data[y]
      BY <1>1, <2>1, PresentPoint
    <2>6. data[parent[y]] \subseteq Line(x) /\ data[parent[y]] # Line(x)
      BY <1>1, <2>2, <2>5
    <2> QED BY <2>1, <2>2, <2>4, <2>6
  <1>2. A \in SUBSET Snap /\ x \in A /\ Closed(A)
    BY <1>1 DEF Closed
  <1> HIDE DEF A
  <1>3. z \in A
    BY <1>2, ChainLeast
  <1> QED BY <1>3 DEF A, ChainInv

LEMMA Acyclic ==
  ASSUME TypeInv, TaskInv, ChainInv, NEW x \in Snap, Sound(x), Present(x),
         NEW z \in Chain(x), z # x
  PROVE  x \notin Chain(z)
  <1>1. z \in Snap /\ Sound(z) /\ Present(z) /\ data[z] \subseteq data[x] /\ data[z] # data[x]
    BY Below, PresentPoint
  <1>2. x \in Chain(z) => data[x] \subseteq data[z]
    BY <1>1, Below, PresentPoint
  <1> QED BY <1>1, <1>2

(* Every child of s that is sound is one of those that a merge of s moves.     *)
LEMMA SoundChild ==
  ASSUME TypeInv, TaskInv, PointInv, NEW x \in Snap, Sound(x), ~Between(x)
  PROVE  x \in Children(parent[x]) \ raced
  <1>1. CASE UnderWay(x)
    <2>1. host[x] = "backuping" /\ x \in row /\ ~merged[x] /\ ~deleted[x]
      BY <1>1 DEF UnderWay, TaskInv, BackupSound, RowSound
    <2>2. x \in Line(x)
      BY <1>1 DEF Line
    <2> QED BY <2>1, <2>2 DEF Children, Sound, Clean
  <1>2. CASE Present(x)
    <2>1. x \in row /\ ~merged[x] /\ ~deleted[x] /\ host[x] # "failed"
      BY <1>2, PointRow DEF Present, Point, TaskInv, RowSound
    <2>2. Line(x) = data[x] /\ (New(x) \/ x \in data[x])
      BY <1>2, PresentPoint DEF Present, Point, Made, New, PointInv, PointSound
    <2>3. x \notin raced
      BY <2>2 DEF Sound, Clean, PointInv, RacedSound
    <2> QED BY <2>1, <2>3 DEF Children
  <1> QED BY <1>1, <1>2 DEF Sound, Live

LEMMA InitChains == Init => ChainInv
  <1> SUFFICES ASSUME Init, NEW x \in Snap
               PROVE  ~Sound(x) /\ Rewritten(x) /\ \A s \in Snap : Apart(s, x)
    BY DEF ChainInv
  <1>1. ~Point(x) /\ ~UnderWay(x) /\ \A s \in Snap : merge[s].stage = "none"
    BY DEF Init, Point, Made, NoMerge, UnderWay, IdleBackup
  <1>2. ~Sound(x)
    BY <1>1 DEF Sound, Live, Present
  <1>3. Rewritten(x)
    BY <1>1 DEF Rewritten
  <1>4. \A s \in Snap : Apart(s, x)
    BY <1>2 DEF Apart
  <1> QED BY <1>2, <1>3, <1>4

(* A sound snapshot stays linked if nothing of what it is linked to changes.   *)
LEMMA LinkKept ==
  ASSUME NEW x \in Snap, Linked(x), parent'[x] = parent[x], Held(x)' = Held(x), Line(x)' = Line(x),
         Chain(x)' \subseteq Chain(x), x \in Chain(x), \A z \in Chain(x) : file'[z] = file[z],
         NEW p, p = parent[x],
         p # NoSnap => p \in Chain(x) /\ Present(p)' /\ data'[p] = data[p] /\ local'[p] = local[p]
  PROVE  Linked(x)'
  <1>1. parent'[x] = p
    OBVIOUS
  <1> QED BY <1>1 DEF Linked

(* A snapshot is linked to a parent in the same file that it contains.        *)
LEMMA LinkMade ==
  ASSUME NEW x, NEW p, parent'[x] = p, p # NoSnap, Present(p)', file'[p] = file'[x],
         Held(x)' \subseteq Line(x)', data'[p] \subseteq Line(x)', data'[p] # Line(x)',
         Line(x)' = Held(x)' \cup data'[p], local'[p] \subseteq Held(x)'
  PROVE  Linked(x)'
  BY DEF Linked

(* A snapshot is given another parent, and holds what it held.               *)
LEMMA LinkMoved ==
  ASSUME NEW x, NEW q, parent'[x] = q, q # NoSnap, Present(q)', Held(x)' = Held(x), Line(x)' = Line(x),
         UNCHANGED <<file, local, data>>, Held(x) \subseteq Line(x),
         data[q] \subseteq Line(x), data[q] # Line(x), Line(x) = Held(x) \cup data[q],
         file[q] = file[x] => local[q] \subseteq Held(x),
         \A z \in Chain(x)' : file[z] = file[x] /\ z # x => file[q] = file[x]
  PROVE  Linked(x)'
  <1>1. /\ file'[q] = file[q] /\ file'[x] = file[x] /\ data'[q] = data[q] /\ local'[q] = local[q]
        /\ \A z : file'[z] = file[z]
    OBVIOUS
  <1> QED BY <1>1 DEF Linked

(* Steps that touch no link.  What was sound stays so, or is not any more.     *)
LEMMA ChainFrame ==
  ASSUME TypeInv, TaskInv, ChainInv, UNCHANGED <<parent, file, local, data>>, raced \subseteq raced',
         \A x \in Snap : Present(x)' => Present(x),
         \A x \in Snap : UnderWay(x)' => UnderWay(x) /\ backup'.parent = backup.parent,
         \A s \in Snap : merge'[s].stage = "stage1" =>
                           merge[s].stage = "stage1" /\ merge'[s].new = merge[s].new,
         \A x, p \in Snap : Sound(x) /\ Sound(x)' /\ p = parent[x] => Present(p)'
  PROVE  ChainInv'
  <1>1. \A x \in Snap : Chain(x)' = Chain(x)
    BY DEF Chain, Closed
  <1>2. ASSUME NEW x \in Snap, Live(x)'
        PROVE  Held(x)' = Held(x) /\ Line(x)' = Line(x) /\ Live(x) /\ (Clean(x)' => Clean(x))
    <2>1. CASE UnderWay(x)'
      <3>1. UnderWay(x) /\ backup'.parent = backup.parent
        BY <2>1
      <3> QED BY <2>1, <3>1 DEF Held, Line, Live, Clean
    <2>2. CASE ~UnderWay(x)'
      <3>1. Present(x)
        BY <1>2, <2>2 DEF Live
      <3>2. Held(x) = local[x] /\ Line(x) = data[x]
        BY <3>1, PresentPoint
      <3>3. Held(x)' = local'[x] /\ Line(x)' = data'[x]
        BY <2>2 DEF Held, Line
      <3> QED BY <3>1, <3>2, <3>3 DEF Live, Clean
    <2> QED BY <2>1, <2>2
  <1>3. \A x \in Snap : Sound(x)' => Sound(x)
    BY <1>2 DEF Sound
  <1>4. ASSUME NEW x \in Snap, Sound(x)' PROVE Linked(x)'
    <2>1. PICK p : p = parent[x]
      OBVIOUS
    <2>2. Sound(x) /\ Linked(x) /\ p \in SnapOrNull /\ Held(x)' = Held(x) /\ Line(x)' = Line(x)
      BY <1>2, <1>3, <1>4, <2>1, PointTypes DEF ChainInv, Sound
    <2>3. x \in Chain(x) /\ Closed(Chain(x))
      BY PointTypes, ChainClosed
    <2>4. p # NoSnap => p \in Chain(x) /\ Present(p)'
      BY <1>4, <2>1, <2>2, <2>3 DEF Closed, SnapOrNull
    <2> QED BY <1>1, <2>1, <2>2, <2>3, <2>4, LinkKept
  <1>5. ASSUME NEW s \in Snap, merge'[s].stage = "stage1", Present(s)', Clean(s)'
        PROVE  /\ merge[s].stage = "stage1" /\ Present(s) /\ Clean(s)
               /\ merge'[s].new = merge[s].new
    BY <1>2, <1>5 DEF Live
  <1>6. ASSUME NEW x \in Snap PROVE Rewritten(x)'
    <2> SUFFICES ASSUME merge'[x].stage = "stage1", Present(x)', Clean(x)' PROVE Beside(x)'
      BY DEF Rewritten
    <2>1. Beside(x) /\ merge'[x].new = merge[x].new
      BY <1>5 DEF ChainInv, Rewritten
    <2> QED BY <2>1 DEF Beside
  <1>7. ASSUME NEW x \in Snap, NEW s \in Snap PROVE Apart(s, x)'
    <2>1. Apart(s, x)
      BY DEF ChainInv
    <2> QED BY <1>1, <1>3, <1>5, <2>1 DEF Apart
  <1> QED BY <1>4, <1>6, <1>7 DEF ChainInv

(* Steps that change one snapshot which is not a point: everything else keeps  *)
(* its links, for a point is on no such snapshot.                            *)
LEMMA ChainElsewhere ==
  ASSUME TypeInv, TaskInv, PointInv, ChainInv, NEW b \in Snap, ~Point(b),
         UNCHANGED <<merge, merged>>, raced \subseteq raced',
         worker' = worker \/ (worker.pc # "reparent" /\ worker'.pc # "reparent"),
         \A x \in Snap \ {b} : /\ parent'[x] = parent[x] /\ file'[x] = file[x]
                               /\ host'[x] = host[x]
                               /\ local'[x] = local[x] /\ data'[x] = data[x],
         \A x \in Snap \ {b} : UnderWay(x)' => UnderWay(x) /\ backup'.parent = backup.parent
  PROVE  /\ \A x \in Snap : Rewritten(x)'
         /\ \A x \in Snap \ {b} : /\ Sound(x)' => Sound(x) /\ Linked(x)'
                                  /\ Chain(x)' \subseteq Chain(x) \/ ~Sound(x)'
                                  /\ \A s \in Snap : Apart(s, x)'
         /\ \A s \in Snap : merge[s].stage = "stage1" /\ Present(s)' /\ Clean(s)' =>
              Present(s) /\ Clean(s) /\ s # b /\ merge[s].new \in Snap \ {b}
  <1>1. \A x \in Snap \ {b} : (Present(x)' <=> Present(x)) /\ (Point(x)' <=> Point(x))
    BY DEF Present, Point, Made, Between
  <1>2. \A x \in Snap : Present(x) => x # b
    BY DEF Present
  <1>3. ASSUME NEW x \in Snap \ {b}, Live(x)'
        PROVE  Held(x)' = Held(x) /\ Line(x)' = Line(x) /\ Live(x) /\ (Clean(x)' => Clean(x))
    <2>1. CASE UnderWay(x)'
      <3>1. UnderWay(x) /\ backup'.parent = backup.parent
        BY <2>1
      <3>2. PICK p : p = backup.parent
        OBVIOUS
      <3>3. p # NoSnap => p \in Snap \ {b}
        BY <3>2, PointTypes DEF PointInv, BackupLinks, BackupState, SnapOrNull, Point
      <3>4. p # NoSnap => file'[p] = file[p] /\ local'[p] = local[p] /\ data'[p] = data[p]
        BY <3>3
      <3> QED BY <2>1, <3>1, <3>2, <3>4 DEF Held, Line, Live, Clean
    <2>2. CASE ~UnderWay(x)'
      <3>1. Present(x)
        BY <1>1, <1>3, <2>2 DEF Live
      <3>2. Held(x) = local[x] /\ Line(x) = data[x]
        BY <3>1, PresentPoint
      <3>3. Held(x)' = local'[x] /\ Line(x)' = data'[x]
        BY <2>2 DEF Held, Line
      <3> QED BY <3>1, <3>2, <3>3 DEF Live, Clean
    <2> QED BY <2>1, <2>2
  <1>4. ASSUME NEW x \in Snap \ {b}, Sound(x)'
        PROVE  Sound(x) /\ Linked(x)' /\ Chain(x)' \subseteq Chain(x)
    <2>1. Sound(x) /\ Linked(x)
      BY <1>3, <1>4 DEF ChainInv, Sound
    <2>2. x \in Chain(x) /\ Closed(Chain(x)) /\ \A z \in Chain(x) : z \in Snap \ {b}
      BY <1>2, <2>1, Below, PointTypes, ChainClosed
    <2>3. Chain(x)' \subseteq Chain(x)
      BY <2>2, PointTypes, ChainKept
    <2>4. PICK p : p = parent[x]
      OBVIOUS
    <2>5. p # NoSnap => p \in Chain(x) /\ Present(p)
      BY <2>1, <2>2, <2>4 DEF Closed, Linked
    <2>6. p # NoSnap => Present(p)' /\ data'[p] = data[p] /\ local'[p] = local[p]
      BY <1>1, <2>2, <2>5
    <2>7. Held(x)' = Held(x) /\ Line(x)' = Line(x)
      BY <1>3, <1>4 DEF Sound
    <2> QED BY <2>1, <2>2, <2>3, <2>4, <2>5, <2>6, <2>7, LinkKept
  <1>5. ASSUME NEW s \in Snap, merge[s].stage = "stage1", Present(s)', Clean(s)'
        PROVE  /\ Present(s) /\ Clean(s) /\ s # b /\ merge[s].new \in Snap \ {b}
               /\ Beside(s) /\ Beside(s)'
    <2>1. s # b
      BY <1>5 DEF TaskInv, MergeSound, Point
    <2>2. Present(s) /\ Clean(s)
      BY <1>1, <1>3, <1>5, <2>1 DEF Live
    <2>3. merge[s].new \in Snap \ {b} /\ Beside(s)
      BY <1>5, <2>2, PointTypes
         DEF ChainInv, Rewritten, TaskInv, MergeSound, Point, Made
    <2>4. parent[s] \in Snap \ {b}
      BY <1>5, PointTypes DEF PointInv, MergeLinks, PointSound, SnapOrNull
    <2>5. Beside(s)'
      BY <2>1, <2>3, <2>4 DEF Beside
    <2> QED BY <2>1, <2>2, <2>3, <2>5
  <1>6. ASSUME NEW x \in Snap PROVE Rewritten(x)'
    BY <1>5 DEF Rewritten
  <1>7. ASSUME NEW x \in Snap \ {b}, NEW s \in Snap PROVE Apart(s, x)'
    <2>1. Apart(s, x) /\ (Sound(x)' => Sound(x) /\ (s \in Chain(x)' => s \in Chain(x)))
      BY <1>4 DEF ChainInv
    <2>2. merge'[s] = merge[s]
      OBVIOUS
    <2> QED BY <1>5, <2>1, <2>2 DEF Apart
  <1> QED BY <1>4, <1>5, <1>6, <1>7

(* Steps that change neither a row nor the disk, nor who is a point.           *)
LEMMA ChainStill ==
  ASSUME TypeInv, TaskInv, ChainInv, UNCHANGED <<parent, file, merged, local, data, raced, backup>>,
         \A x \in Snap : Point(x)' <=> Point(x),
         worker' = worker \/ (worker.pc # "reparent" /\ worker'.pc # "reparent"),
         \A s \in Snap : merge'[s].stage = "stage1" =>
                           merge[s].stage = "stage1" /\ merge'[s].new = merge[s].new
  PROVE  ChainInv'
  <1>1. \A x \in Snap : Present(x)' <=> Present(x)
    BY DEF Present, Between
  <1>2. \A x \in Snap : UnderWay(x)' => UnderWay(x) /\ backup'.parent = backup.parent
    BY DEF UnderWay
  <1>3. \A x, p \in Snap : Sound(x) /\ p = parent[x] => Present(p)
    BY NullAssumption DEF ChainInv, Linked
  <1> QED BY <1>1, <1>2, <1>3, ChainFrame

(* A backup is linked to the parent it validated, if the parent was not being  *)
(* collected when the row was created.                                       *)
LEMMA BackupCreateChains ==
  ASSUME TypeInv, TaskInv, PointInv, ChainInv, BackupCreate PROVE ChainInv'
  <1> PICK b, p : b = backup.snap /\ p = backup.parent
    OBVIOUS
  <1>1. /\ b \in Snap /\ ~New(b) /\ b \notin row /\ host[b] = "none" /\ ~Point(b)
        /\ backup.pc = "queried" /\ p \in SnapOrNull /\ (p # NoSnap => host[p] = "successful")
    BY PointTypes, NotPoint
       DEF BackupCreate, Fresh, TaskInv, RowSound, PointInv, BackupLinks, BackupState
  <1>2. /\ parent'[b] = p /\ file'[b] \in {b} \cup (IF p = NoSnap THEN {} ELSE {file[p]})
        /\ raced' = IF p # NoSnap /\ ((worker.snap = p /\ worker.pc \in {"set_merged", "txn"})
                                      \/ (merged[p] /\ ~Between(p)))
                    THEN raced \cup {b} ELSE raced
        /\ backup'.pc = "created" /\ backup'.snap = b /\ backup'.parent = p
        /\ UNCHANGED <<merged, merge, local, data, worker>>
        /\ \A x \in Snap \ {b} : /\ parent'[x] = parent[x] /\ file'[x] = file[x]
                                 /\ host'[x] = host[x]
    BY <1>1, PointTypes DEF BackupCreate, Between, BackupState, tasks, disk
  <1>3. /\ \A x \in Snap : Rewritten(x)'
        /\ \A x \in Snap \ {b} : (Sound(x)' => Linked(x)') /\ \A s \in Snap : Apart(s, x)'
        /\ \A s \in Snap : merge[s].stage = "stage1" /\ Present(s)' /\ Clean(s)' =>
             Present(s) /\ Clean(s) /\ s # b /\ merge[s].new \in Snap \ {b}
    <2>1. \A x \in Snap \ {b} : UnderWay(x)' => UnderWay(x) /\ backup'.parent = backup.parent
      BY <1>2 DEF UnderWay
    <2> QED BY <1>1, <1>2, <2>1, ChainElsewhere
  <1>4. /\ UnderWay(b)' /\ Line(b)' = {b} \cup (IF p = NoSnap THEN {} ELSE data[p])
        /\ Held(b)' = {b} \cup (IF p # NoSnap /\ file'[p] = file'[b] THEN local[p] ELSE {})
    BY <1>2 DEF UnderWay, Line, Held
  <1>5. ASSUME Sound(b)', p # NoSnap
        PROVE  /\ p \in Snap \ {b} /\ Sound(p) /\ Present(p) /\ Present(p)' /\ Linked(p)
               /\ b \notin data[p] /\ file'[p] = file[p] /\ parent'[p] = parent[p]
    <2>1. p \in Snap \ {b} /\ Point(p)
      BY <1>1, <1>5 DEF SnapOrNull, Point
    <2>2. b \notin raced' /\ data[p] \cap raced = {}
      BY <1>2, <1>4, <1>5 DEF Sound, Clean
    <2>3. Present(p)
      BY <1>2, <1>5, <2>1, <2>2 DEF Present
    <2>4. Sound(p)
      BY <2>1, <2>2, <2>3, PresentPoint DEF Sound, Live, Clean
    <2>5. Present(p)'
      BY <1>1, <1>2, <1>5, <2>1, <2>3 DEF Present, Point, Made, Between
    <2>6. b \notin data[p]
      BY <1>1, <2>1 DEF PointInv, PointSound
    <2> QED BY <1>2, <2>1, <2>3, <2>4, <2>5, <2>6 DEF ChainInv
  <1>6. ASSUME Sound(b)', NEW z \in Chain(b)', z # b
        PROVE  p # NoSnap /\ z \in Chain(p) /\ z \in Snap \ {b} /\ z \in row
    <2>1. CASE p = NoSnap
      <3>1. Chain(b)' \subseteq {b}
        BY <1>1, <1>2, <2>1, ChainShrinks
      <3> QED BY <1>6, <3>1
    <2>2. CASE p # NoSnap
      <3>1. p \in Snap /\ Sound(p)
        BY <1>5, <1>6, <2>2
      <3>2. p \in Chain(p) /\ Closed(Chain(p))
        BY <3>1, PointTypes, ChainClosed
      <3>3. \A y \in Chain(p) : y \in Snap \ {b} /\ y \in row
        <4> SUFFICES ASSUME NEW y \in Chain(p) PROVE y \in Snap \ {b} /\ y \in row
          OBVIOUS
        <4>1. y \in Snap /\ Point(y)
          BY <1>5, <1>6, <2>2, <3>1, Below DEF Present
        <4> QED BY <1>1, <4>1, PointRow
      <3>4. \A y \in {b} \cup Chain(p) : parent'[y] = NoSnap \/ parent'[y] \in {b} \cup Chain(p)
        BY <1>2, <3>2, <3>3 DEF Closed
      <3>5. Chain(b)' \subseteq {b} \cup Chain(p)
        <4>1. PICK A : A = {b} \cup Chain(p)
          OBVIOUS
        <4>2. A \in SUBSET Snap /\ b \in A
          BY <1>1, <3>3, <4>1
        <4>3. \A y \in A : parent'[y] = NoSnap \/ parent'[y] \in A
          BY <3>4, <4>1
        <4> QED BY <4>1, <4>2, <4>3, ChainShrinks
      <3> QED BY <1>6, <2>2, <3>3, <3>5
    <2> QED BY <2>1, <2>2
  <1>7. ASSUME NEW z \in Snap \ {b}, z \in row PROVE file'[z] = file[z] /\ file[z] # b
    BY <1>1, <1>2, <1>7 DEF PointInv, PointSound
  <1>8. Sound(b)' => Linked(b)'
    <2> SUFFICES ASSUME Sound(b)' PROVE Linked(b)'
      OBVIOUS
    <2>1. CASE p = NoSnap
      BY <1>2, <1>4, <1>6, <2>1 DEF Linked
    <2>2. CASE p # NoSnap
      <3>1. Line(p) = data[p] /\ Held(p) = local[p]
        BY <1>5, <2>2, PresentPoint
      <3>2. local[p] \subseteq data[p]
        BY <1>5, <2>2, <3>1 DEF Linked
      <3>3. ASSUME NEW z \in Chain(b)', file'[z] = file'[b], z # b PROVE file'[p] = file'[b]
        BY <1>2, <1>5, <1>6, <1>7, <2>2, <3>3
      <3> QED BY <1>2, <1>4, <1>5, <2>2, <3>2, <3>3 DEF Linked
    <2> QED BY <2>1, <2>2
  <1>9. ASSUME NEW s \in Snap PROVE Apart(s, b)'
    <2> SUFFICES ASSUME merge[s].stage = "stage1", Present(s)', Clean(s)', Sound(b)', s \in Chain(b)'
                 PROVE  file'[b] # file'[merge[s].new]
      BY <1>2 DEF Apart
    <2>1. PICK n : n = merge[s].new
      OBVIOUS
    <2>2. Present(s) /\ Clean(s) /\ s # b /\ n \in Snap \ {b} /\ n \in row
      <3>1. Present(s) /\ Clean(s) /\ s # b /\ n \in Snap \ {b}
        BY <1>3, <2>1
      <3>2. host[n] = "backuping"
        BY <2>1 DEF TaskInv, MergeSound
      <3> QED BY <3>1, <3>2 DEF TaskInv, RowSound
    <2>3. p # NoSnap /\ s \in Chain(p) /\ file'[n] = file[n] /\ file[n] # b
      BY <1>6, <1>7, <2>2
    <2>4. file[p] # file[n]
      BY <1>5, <2>1, <2>2, <2>3 DEF ChainInv, Apart
    <2> QED BY <1>2, <2>1, <2>3, <2>4
  <1> QED BY <1>3, <1>8, <1>9 DEF ChainInv

LEMMA BackupChains == ASSUME TypeInv, TaskInv, PointInv, ChainInv, BackupStep PROVE ChainInv'
  <1> PICK b, p : b = backup.snap /\ p = backup.parent
    OBVIOUS
  <1>1. CASE BackupQuery
    <2>1. /\ UNCHANGED <<parent, file, merged, host, merge, local, data, raced, worker>>
          /\ backup'.pc = "queried"
      BY <1>1 DEF BackupQuery, tables, tasks, disk
    <2>2. \A x \in Snap : (Present(x)' <=> Present(x)) /\ ~UnderWay(x)'
      BY <2>1 DEF Present, Point, Made, Between, UnderWay
    <2>3. \A x, q \in Snap : Sound(x) /\ q = parent[x] => Present(q)
      BY NullAssumption DEF ChainInv, Linked
    <2> QED BY <2>1, <2>2, <2>3, ChainFrame
  <1>2. ASSUME backup.pc \in {"created", "running"}, host' = [host EXCEPT ![b] = "failed"],
               backup' = IdleBackup,
               UNCHANGED <<parent, file, merged, merge, local, data, raced, worker>>
        PROVE  ChainInv'
    <2>1. b \in Snap /\ ~Point(b) /\ host'[b] = "failed" /\ \A x \in Snap \ {b} : host'[x] = host[x]
      BY <1>2, PointTypes, NotPoint
    <2>2. \A x \in Snap : (Present(x)' <=> Present(x)) /\ ~UnderWay(x)'
      BY <1>2, <2>1 DEF Present, Point, Made, Between, UnderWay, IdleBackup
    <2>3. \A x, q \in Snap : Sound(x) /\ q = parent[x] => Present(q)
      BY NullAssumption DEF ChainInv, Linked
    <2> QED BY <1>2, <2>2, <2>3, ChainFrame
  <1>3. CASE BackupSend
    <2>1. UNCHANGED <<parent, file, merged, merge, local, data, raced, worker>>
      BY <1>3 DEF BackupSend, tasks, disk
    <2>2. CASE host' = [host EXCEPT ![b] = "failed"] /\ backup' = IdleBackup
      BY <1>2, <1>3, <2>1, <2>2 DEF BackupSend
    <2>3. CASE backup' = [backup EXCEPT !.pc = "running"] /\ UNCHANGED host
      <3>1. /\ backup.pc = "created" /\ backup'.pc = "running" /\ backup'.snap = b
            /\ backup'.parent = p
        BY <1>3, <2>3, PointTypes DEF BackupSend, BackupState
      <3>2. \A x \in Snap : /\ Present(x)' <=> Present(x)
                            /\ UnderWay(x)' => UnderWay(x) /\ backup'.parent = backup.parent
        BY <2>1, <2>3, <3>1 DEF Present, Point, Made, Between, UnderWay
      <3>3. \A x, q \in Snap : Sound(x) /\ q = parent[x] => Present(q)
        BY NullAssumption DEF ChainInv, Linked
      <3> QED BY <2>1, <3>2, <3>3, ChainFrame
    <2> QED BY <1>3, <2>2, <2>3 DEF BackupSend
  <1>4. CASE BackupFinish
    <2>1. /\ backup.pc = "running" /\ backup' = IdleBackup /\ b \in Snap /\ ~Point(b) /\ ~New(b)
          /\ host[b] = "backuping" /\ p \in SnapOrNull
          /\ UNCHANGED <<parent, file, merged, merge, raced, worker>>
      BY <1>4, PointTypes, NotPoint DEF BackupFinish, tasks, TaskInv, BackupSound, BackupState
    <2>2. CASE host' = [host EXCEPT ![b] = "failed"] /\ UNCHANGED disk
      BY <1>2, <2>1, <2>2 DEF disk
    <2>3. CASE /\ host' = [host EXCEPT ![b] = "successful"]
               /\ local' = [local EXCEPT ![b] =
                              {b} \cup (IF p # NoSnap /\ file[p] = file[b] THEN local[p] ELSE {})]
               /\ data' = [data EXCEPT ![b] = {b} \cup (IF p = NoSnap THEN {} ELSE data[p])]
      <3>1. /\ \A x \in Snap \ {b} : /\ host'[x] = host[x] /\ local'[x] = local[x]
                                     /\ data'[x] = data[x]
            /\ UnderWay(b) /\ \A x \in Snap : ~UnderWay(x)'
            /\ local'[b] = Held(b) /\ data'[b] = Line(b)
        BY <2>1, <2>3, PointTypes DEF UnderWay, IdleBackup, Held, Line
      <3>2. /\ \A x \in Snap : Rewritten(x)'
            /\ \A x \in Snap \ {b} : (Sound(x)' => Linked(x)') /\ \A s \in Snap : Apart(s, x)'
            /\ \A s \in Snap : merge[s].stage = "stage1" /\ Present(s)' /\ Clean(s)' =>
                 Present(s) /\ Clean(s) /\ s # b /\ merge[s].new \in Snap \ {b}
        <4>1. \A x \in Snap \ {b} : UnderWay(x)' => UnderWay(x) /\ backup'.parent = backup.parent
          BY <3>1
        <4> QED BY <2>1, <3>1, <4>1, ChainElsewhere
      <3>3. Held(b)' = Held(b) /\ Line(b)' = Line(b) /\ Chain(b)' = Chain(b)
        BY <2>1, <3>1 DEF Held, Line, Chain, Closed
      <3>4. Sound(b)' => Sound(b)
        BY <2>1, <3>1, <3>3 DEF Sound, Live, Clean
      <3>5. Sound(b)' => Linked(b)'
        <4> SUFFICES ASSUME Sound(b)' PROVE Linked(b)'
          OBVIOUS
        <4>1. PICK q : q = parent[b]
          OBVIOUS
        <4>2. Sound(b) /\ Linked(b) /\ b \in Chain(b) /\ Closed(Chain(b)) /\ q \in SnapOrNull
          BY <2>1, <3>4, <4>1, PointTypes, ChainClosed DEF ChainInv
        <4>3. q # NoSnap => q \in Chain(b) /\ Present(q) /\ q \in Snap \ {b}
          BY <2>1, <4>1, <4>2 DEF Closed, Linked, SnapOrNull, Present
        <4>4. q # NoSnap => Present(q)' /\ data'[q] = data[q] /\ local'[q] = local[q]
          BY <2>1, <3>1, <4>3 DEF Present, Point, Made, Between
        <4> QED BY <2>1, <3>3, <4>1, <4>2, <4>3, <4>4, LinkKept
      <3>6. ASSUME NEW s \in Snap PROVE Apart(s, b)'
        <4>1. Apart(s, b)
          BY <2>1 DEF ChainInv
        <4> QED BY <2>1, <3>2, <3>3, <3>4, <4>1 DEF Apart
      <3> QED BY <3>2, <3>5, <3>6 DEF ChainInv
    <2> QED BY <1>4, <2>2, <2>3 DEF BackupFinish
  <1> QED BY <1>1, <1>3, <1>4, BackupCreateChains DEF BackupStep

LEMMA ClientChains ==
  ASSUME TypeInv, TaskInv, ChainInv,
         \/ \E r \in Reader : ReaderStep(r)
         \/ \E s \in Snap : Condemn(s) \/ PickTask(s)
  PROVE  ChainInv'
  <1>1. UNCHANGED <<parent, file, merged, host, local, data, raced, backup, merge>>
    BY DEF ReaderStep, RestoreCreate, LockFile, LockFileWaited, RestoreDone, UnlockFiles, Condemn,
           CreateDeleteTask, Expire, PickTask, StartCollect, StartDelete, ResumeMerge,
           tables, tasks, disk
  <1>2. worker' = worker \/ (worker.pc # "reparent" /\ worker'.pc # "reparent")
    <2>1. ASSUME NEW s \in Snap, PickTask(s) \/ Expire(s)
          PROVE  worker.pc # "reparent" /\ worker'.pc # "reparent"
      <3>1. worker = Idle
        BY <2>1 DEF PickTask, Expire, StartCollect, StartDelete, ResumeMerge
      <3>2. worker'.pc # "reparent"
        BY <2>1 DEF PickTask, Expire, StartCollect, StartDelete, ResumeMerge, Idle
      <3> QED BY <3>1, <3>2 DEF Idle
    <2>2. ASSUME NEW r \in Reader, ReaderStep(r) PROVE worker' = worker
      BY <2>2 DEF ReaderStep, RestoreCreate, LockFile, LockFileWaited, RestoreDone, UnlockFiles
    <2>3. ASSUME NEW s \in Snap, CreateDeleteTask(s) PROVE worker' = worker
      BY <2>3 DEF CreateDeleteTask
    <2> QED BY <2>1, <2>2, <2>3 DEF Condemn
  <1>3. \A x \in Snap : Point(x)' <=> Point(x)
    BY <1>1 DEF Point, Made
  <1> QED BY <1>1, <1>2, <1>3, ChainStill

(* A restart before the children have their new parent leaves them on a merged *)
(* snapshot: what they have more than its parent is tainted.                  *)
LEMMA CrashChains == ASSUME TypeInv, TaskInv, PointInv, ChainInv, Crash PROVE ChainInv'
  <1> PICK b, w : b = backup.snap /\ w = worker.snap
    OBVIOUS
  <1>1. /\ UNCHANGED <<parent, file, merged, merge, local, data>> /\ worker'.pc = "start"
        /\ raced \subseteq raced' /\ backup' \in {backup, IdleBackup}
        /\ worker.pc = "reparent" => data[w] \ data[parent[w]] \subseteq raced'
        /\ \/ host' = host
           \/ backup.pc = "created" /\ host' = [host EXCEPT ![b] = "failed"]
    BY DEF Crash, Idle, tasks, disk
  <1>2. backup.pc = "created" => b \in Snap /\ ~Point(b) /\ ~Made(b)
    BY PointTypes, NotPoint DEF New, Made
  <1>3. \A x \in Snap : Point(x)' <=> Point(x)
    <2>1. CASE host' = host
      BY <1>1, <2>1 DEF Point, Made
    <2>2. CASE backup.pc = "created" /\ host' = [host EXCEPT ![b] = "failed"]
      <3>1. host'[b] = "failed" /\ \A x \in Snap \ {b} : host'[x] = host[x]
        BY <1>2, <2>2, PointTypes
      <3> QED BY <1>1, <1>2, <2>2, <3>1 DEF Point, Made
    <2> QED BY <1>1, <2>1, <2>2
  <1>4. \A x \in Snap : Present(x)' => Present(x)
    BY <1>1, <1>3 DEF Present, Between
  <1>5. \A x \in Snap : UnderWay(x)' => UnderWay(x) /\ backup' = backup
    BY <1>1 DEF UnderWay, IdleBackup
  <1>6. ASSUME NEW x \in Snap, NEW p \in Snap, Sound(x), Sound(x)', p = parent[x]
        PROVE  Present(p)'
    <2>1. /\ Present(p) /\ data[p] \subseteq Line(x) /\ Linked(x)
      BY <1>6, NullAssumption DEF ChainInv, Linked
    <2>2. Line(x)' = Line(x)
      <3>1. CASE UnderWay(x)'
        BY <1>1, <1>5, <3>1 DEF Line, UnderWay
      <3>2. CASE ~UnderWay(x)'
        <4>1. Present(x)
          BY <1>4, <1>6, <3>2 DEF Sound, Live
        <4> QED BY <1>1, <3>2, <4>1, PresentPoint DEF Line
      <3> QED BY <3>1, <3>2
    <2>3. CASE Between(p)
      <3>1. p = w /\ worker.pc = "reparent" /\ parent[p] # NoSnap /\ parent[p] \in Snap
        BY <2>3, PointTypes DEF Between, PointInv, MergeLinks, TaskInv, WorkerSound, SnapOrNull
      <3>2. Sound(p) /\ Linked(p) /\ Line(p) = data[p]
        BY <1>6, <2>1, PresentPoint DEF ChainInv, Sound, Live, Clean
      <3>3. data[parent[p]] \subseteq data[p] /\ data[parent[p]] # data[p]
        BY <3>1, <3>2 DEF Linked
      <3>4. PICK d \in data[p] : d \notin data[parent[p]]
        BY <3>3
      <3>5. d \in Line(x) /\ d \in raced'
        BY <1>1, <2>1, <3>1, <3>4
      <3> QED BY <1>6, <2>2, <3>5 DEF Sound, Clean
    <2>4. CASE ~Between(p)
      BY <1>1, <1>3, <2>1, <2>4 DEF Present
    <2> QED BY <2>3, <2>4
  <1> QED BY <1>1, <1>4, <1>5, <1>6, ChainFrame

(* The steps of the worker that change no link, no merge and no point.        *)
LEMMA QuietChains ==
  ASSUME TypeInv, TaskInv, ChainInv,
         \/ SetDeleting \/ CreateTask \/ UnlockFilesByPrefix \/ SetMerged \/ ListDelete
         \/ LockForDelete \/ DeleteImage \/ UnlockAfterDelete \/ FinishDelete \/ SetDeleted
         \/ SetTaskFinished \/ ListMerge \/ CreateDelete \/ CondemnNew \/ CollectNew
  PROVE  ChainInv'
  <1>1. UNCHANGED <<parent, file, merged, host, local, data, raced, backup, merge>>
    BY DEF SetDeleting, CreateTask, UnlockFilesByPrefix, SetMerged, ListDelete, LockForDelete,
           DeleteImage, UnlockAfterDelete, FinishDelete, SetDeleted, SetTaskFinished, ListMerge,
           CreateDelete, CondemnNew, CollectNew, tables, tasks, disk
  <1>2. worker.pc # "reparent"
    BY DEF SetDeleting, CreateTask, UnlockFilesByPrefix, SetMerged, ListDelete, LockForDelete,
           DeleteImage, UnlockAfterDelete, FinishDelete, SetDeleted, SetTaskFinished, ListMerge,
           CreateDelete, CondemnNew, CollectNew
  <1>3. worker'.pc # "reparent"
    <2>0. worker \in WorkerState
      BY PointTypes
    <2>1. CASE SetDeleting \/ UnlockFilesByPrefix \/ CreateTask
      BY <2>0, <2>1 DEF SetDeleting, UnlockFilesByPrefix, CreateTask, Goto, Idle, WorkerState
    <2>2. CASE SetMerged \/ ListDelete \/ LockForDelete
      BY <2>0, <2>2 DEF SetMerged, ListDelete, LockForDelete, Goto, WorkerState
    <2>3. CASE DeleteImage \/ SetDeleted \/ SetTaskFinished
      BY <2>0, <2>3 DEF DeleteImage, SetDeleted, SetTaskFinished, Goto, Idle, WorkerState
    <2>4. CASE UnlockAfterDelete \/ FinishDelete
      <3>1. Goto("finish") \/ Return
        BY <2>4 DEF UnlockAfterDelete, FinishDelete
      <3> QED BY <2>0, <3>1, ReturnAtRest DEF Goto, WorkerState
    <2>5. CASE ListMerge \/ CreateDelete
      BY <2>0, <2>5 DEF ListMerge, CreateDelete, Goto, WorkerState
    <2>6. CASE CondemnNew \/ CollectNew
      BY <2>0, <2>6 DEF CondemnNew, CollectNew, Goto, WorkerState
    <2> QED BY <2>1, <2>2, <2>3, <2>4, <2>5, <2>6
  <1>4. \A x \in Snap : Point(x)' <=> Point(x)
    BY <1>1 DEF Point, Made
  <1> QED BY <1>1, <1>2, <1>3, <1>4, ChainStill

(* The steps that move a merge on, before and after it touches the links.      *)
LEMMA StageChains ==
  ASSUME TypeInv, TaskInv, ChainInv, CreateMerge \/ ToStage2 \/ FinishNew \/ FinishMerge
  PROVE  ChainInv'
  <1> PICK s, n : s = worker.snap /\ n = merge[s].new
    OBVIOUS
  <1>0. worker \in WorkerState /\ s \in Snap /\ merge \in [Snap -> MergeTask] /\ host \in [Snap -> HostState]
    BY PointTypes DEF CreateMerge, ToStage2, FinishNew, FinishMerge
  <1>1. /\ UNCHANGED <<parent, file, merged, local, data, raced, backup>>
        /\ worker.pc # "reparent" /\ worker'.pc # "reparent"
    BY <1>0 DEF CreateMerge, ToStage2, FinishNew, FinishMerge, Goto, Idle, WorkerState, tables, tasks, disk
  <1>2. CASE CreateMerge
    <2>1. merge[s].stage = "none" /\ merge'[s].stage = "stage0" /\ host' = host
          /\ \A t \in Snap \ {s} : merge'[t] = merge[t]
      BY <1>0, <1>2 DEF CreateMerge, TaskInv, WorkerSound, tables
    <2>2. \A x \in Snap : Point(x)' <=> Point(x)
      BY <2>1 DEF Point, Made
    <2>3. \A t \in Snap : merge'[t].stage = "stage1" =>
                           merge[t].stage = "stage1" /\ merge'[t].new = merge[t].new
      BY <2>1
    <2> QED BY <1>1, <2>2, <2>3, ChainStill
  <1>3. CASE ToStage2 \/ FinishMerge
    <2>1. /\ merge[s].stage \in {"stage1", "stage2"} /\ merge'[s].stage \in {"stage2", "finished"}
          /\ merge'[s].new = merge[s].new /\ host' = host
          /\ \A t \in Snap \ {s} : merge'[t] = merge[t]
      BY <1>0, <1>3 DEF ToStage2, FinishMerge, TaskInv, WorkerSound, MergeTask, tables
    <2>2. \A x \in Snap : Point(x)' <=> Point(x)
      BY <2>1 DEF Point, Made
    <2>3. \A t \in Snap : merge'[t].stage = "stage1" =>
                           merge[t].stage = "stage1" /\ merge'[t].new = merge[t].new
      BY <2>1
    <2> QED BY <1>1, <2>2, <2>3, ChainStill
  <1>4. CASE FinishNew
    <2>1. /\ merge[s].stage = "stage2" /\ merge' = merge
          /\ host' = host \/ (host' = [host EXCEPT ![n] = "successful"] /\ host[n] = "backuping")
      BY <1>4 DEF FinishNew, TaskInv, WorkerSound, tasks
    <2>2. n \in Snap /\ Made(n) /\ \A x \in Snap : Made(x)' <=> Made(x)
      BY <1>0, <2>1, PointTypes DEF Made
    <2>3. \A x \in Snap : Point(x)' <=> Point(x)
      BY <1>0, <2>1, <2>2 DEF Point
    <2> QED BY <1>1, <2>1, <2>3, ChainStill
  <1> QED BY <1>2, <1>3, <1>4

(* The attempts of stage 0 change the new snapshot only, which is no point     *)
(* before its merge has the image.                                           *)
LEMMA NewChains ==
  ASSUME TypeInv, TaskInv, PointInv, ChainInv, NEW s \in Snap, merge[s].stage = "stage0",
         NEW n \in Snap, n = merge[s].new, host'[n] \in {"none", "backuping"},
         UNCHANGED <<merge, merged, raced, backup>>, worker.pc # "reparent", worker'.pc # "reparent",
         \A x \in Snap \ {n} : /\ parent'[x] = parent[x] /\ file'[x] = file[x]
                               /\ host'[x] = host[x]
                               /\ local'[x] = local[x] /\ data'[x] = data[x]
  PROVE  ChainInv'
  <1>1. ~Point(n) /\ ~Made(n) /\ New(n)
    BY NotPoint DEF New
  <1>2. \A x \in Snap : UnderWay(x)' => UnderWay(x) /\ backup'.parent = backup.parent
    BY DEF UnderWay
  <1>3. /\ \A x \in Snap : Rewritten(x)'
        /\ \A x \in Snap \ {n} : (Sound(x)' => Linked(x)') /\ \A t \in Snap : Apart(t, x)'
    BY <1>1, <1>2, ChainElsewhere
  <1>4. ~Sound(n)'
    <2>1. ~Point(n)'
      BY <1>1 DEF Point, Made
    <2>2. ~UnderWay(n)'
      BY <1>1, NotPoint DEF UnderWay
    <2> QED BY <2>1, <2>2 DEF Sound, Live, Present
  <1>5. \A t \in Snap : Apart(t, n)'
    BY <1>4 DEF Apart
  <1> QED BY <1>3, <1>4, <1>5 DEF ChainInv

LEMMA MakeChains ==
  ASSUME TypeInv, TaskInv, PointInv, ChainInv, RecreateNew \/ LockForMerge \/ MergeImage
  PROVE  ChainInv'
  <1> PICK s, n : s = worker.snap /\ n = merge[s].new
    OBVIOUS
  <1>1. /\ s \in Snap /\ n \in Snap /\ merge[s].stage = "stage0" /\ worker.pc # "reparent"
        /\ worker.pc \in MadePC => host[n] = "backuping"
    BY PointTypes DEF RecreateNew, LockForMerge, MergeImage, TaskInv, WorkerSound, MadePC
  <1>2. worker'.pc # "reparent" /\ UNCHANGED <<merge, merged, raced, backup>>
    BY PointTypes DEF RecreateNew, LockForMerge, MergeImage, Goto, Idle, WorkerState, tables, tasks
  <1>3. ASSUME UNCHANGED <<parent, file, host, local, data>> PROVE ChainInv'
    <2>1. \A x \in Snap : Point(x)' <=> Point(x)
      BY <1>2, <1>3 DEF Point, Made
    <2> QED BY <1>1, <1>2, <1>3, <2>1, ChainStill
  <1>4. ASSUME DropNew(n), UNCHANGED <<file, local, data>> PROVE ChainInv'
    <2>1. /\ host'[n] = "none"
          /\ \A x \in Snap \ {n} : parent'[x] = parent[x] /\ host'[x] = host[x]
      BY <1>1, <1>4, PointTypes DEF DropNew
    <2> QED BY <1>1, <1>2, <1>4, <2>1, NewChains
  <1>5. CASE RecreateNew
    <2>1. CASE UNCHANGED tables
      BY <1>3, <1>5, <2>1 DEF RecreateNew, tables, disk
    <2>2. CASE ~UNCHANGED tables
      <3>1. /\ host'[n] = "backuping" /\ UNCHANGED <<local, data>>
            /\ \A x \in Snap \ {n} : /\ parent'[x] = parent[x] /\ file'[x] = file[x]
                                     /\ host'[x] = host[x]
        BY <1>1, <1>5, <2>2, PointTypes DEF RecreateNew, disk
      <3> QED BY <1>1, <1>2, <3>1, NewChains
    <2> QED BY <2>1, <2>2
  <1>6. CASE LockForMerge
    <2>1. UNCHANGED <<file, local, data>> /\ (UNCHANGED <<parent, host>> \/ DropNew(n))
      BY <1>6, Zenon DEF LockForMerge, disk
    <2> QED BY <1>3, <1>4, <2>1
  <1>7. CASE MergeImage
    <2>1. CASE DropNew(n) /\ UNCHANGED <<file, local, data>>
      BY <1>4, <2>1
    <2>2. CASE UNCHANGED <<parent, file, host>>
      <3>1. CASE UNCHANGED <<local, data>>
        BY <1>3, <2>2, <3>1
      <3>2. CASE ~UNCHANGED <<local, data>>
        <4>1. \A x \in Snap \ {n} : local'[x] = local[x] /\ data'[x] = data[x]
          BY <1>1, <1>7, <3>2, PointTypes DEF MergeImage
        <4>2. host'[n] = "backuping"
          BY <1>1, <1>7, <2>2 DEF MergeImage, MadePC
        <4> QED BY <1>1, <1>2, <2>2, <4>1, <4>2, NewChains
      <3> QED BY <3>1, <3>2
    <2> QED BY <1>7, <2>1, <2>2 DEF MergeImage
  <1> QED BY <1>5, <1>6, <1>7

(* What is below two snapshots of one file in a chain, and above the other, is *)
(* in that file as well.                                                     *)
LEMMA Contiguous ==
  ASSUME TypeInv, TaskInv, ChainInv, NEW x \in Snap, Sound(x), NEW s \in Chain(x),
         NEW z \in Chain(s), file[z] = file[x]
  PROVE  file[s] = file[x]
  <1> SUFFICES ASSUME file[s] # file[x] PROVE FALSE
    OBVIOUS
  <1>1. s # x /\ z # s /\ s \in Snap /\ Sound(s) /\ Present(s) /\ z \in Snap
    BY Below DEF Chain
  <1>2. s \notin Chain(z)
    BY <1>1, Acyclic
  <1> DEFINE A == {y \in Chain(x) : s \in Chain(y) /\ y # s /\ file[y] = file[x]}
  <1>3. ASSUME NEW y \in A PROVE parent[y] # NoSnap /\ parent[y] \in A
    <2>1. y \in Snap /\ Linked(y) /\ z \in Chain(y) /\ z # y
      BY <1>1, <1>2, Below, ChainTransitive, PointTypes
    <2>2. parent[y] # NoSnap /\ file[parent[y]] = file[y]
      BY <2>1 DEF Linked
    <2>3. s \in Chain(parent[y])
      BY <2>1, <2>2, ChainStep, PointTypes
    <2>4. parent[y] \in Chain(x)
      BY <2>2, ChainClosed, PointTypes DEF Closed
    <2> QED BY <2>2, <2>3, <2>4
  <1>4. A \in SUBSET Snap /\ x \in A /\ Closed(A)
    BY <1>1, <1>3, ChainClosed, PointTypes DEF Closed
  <1> HIDE DEF A
  <1>5. s \in A
    BY <1>4, ChainLeast
  <1> QED BY <1>5 DEF A

(* Once the image of a merge is there, its new snapshot stands beside the      *)
(* snapshot it replaces.                                                     *)
LEMMA UnlockChains ==
  ASSUME TypeInv, TaskInv, PointInv, ChainInv, UnlockAfterMerge PROVE ChainInv'
  <1> PICK s, n, p : s = worker.snap /\ n = merge[s].new /\ p = merge[s].prev
    OBVIOUS
  <1>1. /\ s \in Snap /\ n \in Snap /\ p \in Snap /\ merge[s].stage = "stage0"
        /\ n # s /\ n # p /\ parent[s] = p /\ parent[n] = p /\ p # NoSnap
        /\ file[n] = file[p] /\ file[p] # file[s]
        /\ data[n] = data[s] /\ local[n] = local[p] \cup local[s]
        /\ Present(s) /\ Present(p) /\ host[n] = "backuping" /\ ~Point(n) /\ New(n)
        /\ host[s] = "successful"
    <2>1. worker.pc = "merge_unlock" /\ worker.pc \in MadePC
      BY DEF UnlockAfterMerge, MadePC
    <2>2. s \in Snap /\ merge[s].stage = "stage0" /\ n \in Snap /\ p \in Snap /\ host[n] = "backuping"
          /\ host[s] = "successful"
      BY <2>1, PointTypes DEF TaskInv, WorkerSound, MergeSound
    <2>3. ~Point(n) /\ New(n) /\ p # NoSnap
      BY <2>2, NotPoint, NullAssumption DEF New
    <2>4. /\ parent[s] = p /\ parent[n] = p /\ file[n] = file[p] /\ ~merged[s] /\ ~merged[p]
          /\ data[n] = data[s] /\ local[n] = local[p] \cup local[s]
      BY <2>1 DEF PointInv, WorkerLinks
    <2>5. Point(p) /\ file[p] # file[s] /\ n # s
      BY <2>2 DEF PointInv, MergeLinks
    <2> QED BY <2>2, <2>3, <2>4, <2>5 DEF Present, Point
  <1>2. /\ merge'[s].stage = "stage1" /\ merge'[s].new = n
        /\ \A t \in Snap \ {s} : merge'[t] = merge[t]
        /\ worker.pc = "merge_unlock" /\ worker'.pc = "stage1"
        /\ UNCHANGED <<parent, file, merged, host, local, data, raced, backup>>
    BY <1>1, PointTypes DEF UnlockAfterMerge, Goto, WorkerState, MergeTask, tables, disk
  <1>3. /\ \A x \in Snap \ {n} : Point(x)' <=> Point(x)
        /\ Point(n)'
    BY <1>1, <1>2 DEF Point, Made
  <1>4. /\ \A x \in Snap \ {n} : Present(x)' <=> Present(x)
        /\ \A x \in Snap : Present(x) => Present(x)'
    <2>1. ~Present(n)
      BY <1>1 DEF Present
    <2> QED BY <1>2, <1>3, <2>1 DEF Present, Between
  <1>5. \A x \in Snap : /\ Chain(x)' = Chain(x) /\ Held(x)' = Held(x) /\ Line(x)' = Line(x)
                        /\ (Clean(x)' <=> Clean(x)) /\ (UnderWay(x)' <=> UnderWay(x))
    <2>1. UNCHANGED <<parent, file, local, data, raced, backup>>
      BY <1>2
    <2> QED BY <2>1 DEF Chain, Closed, Held, Line, Clean, UnderWay
  <1>6. \A x \in Snap \ {n} : Sound(x)' <=> Sound(x)
    BY <1>4, <1>5 DEF Sound, Live
  <1>7. ~UnderWay(n) /\ Held(n) = local[n] /\ Line(n) = data[n]
    BY <1>1, NotPoint DEF UnderWay, Held, Line
  <1>8. ASSUME Clean(s) \/ Sound(n)'
        PROVE  Sound(s) /\ Linked(s) /\ p \in Chain(s) /\ Sound(p) /\ Linked(p) /\ s \notin Chain(p)
    <2>1. Line(s) = data[s]
      BY <1>1, PresentPoint
    <2>2. Sound(s)
      BY <1>1, <1>5, <1>7, <1>8, <2>1 DEF Sound, Live, Clean
    <2>3. p \in Chain(s) /\ p # s
      BY <1>1, ChainClosed, PointTypes DEF Closed
    <2> QED BY <1>1, <2>2, <2>3, Below, Acyclic DEF ChainInv
  <1>9. ASSUME NEW x \in Snap, Sound(x)' PROVE Linked(x)'
    <2>1. CASE x = n
      <3>1. Line(s) = data[s] /\ Held(s) = local[s] /\ Line(p) = data[p] /\ Held(p) = local[p]
        BY <1>1, PresentPoint
      <3>2. /\ local[s] \subseteq data[s] /\ data[p] \subseteq data[s] /\ data[p] # data[s]
            /\ data[s] = local[s] \cup data[p] /\ local[p] \subseteq data[p]
        BY <1>1, <1>8, <1>9, <2>1, <3>1 DEF Linked
      <3>3. Held(n)' = local[n] /\ Line(n)' = data[n]
        BY <1>1, <1>5, <1>7
      <3>4. Present(p)'
        BY <1>1, <1>4
      <3>5. /\ local[n] \subseteq data[n] /\ data[p] \subseteq data[n] /\ data[p] # data[n]
            /\ data[n] = local[n] \cup data[p] /\ local[p] \subseteq local[n]
        BY <1>1, <3>2
      <3>6. /\ parent'[n] = p /\ file'[n] = file'[p]
            /\ local'[p] = local[p] /\ data'[p] = data[p]
        BY <1>1, <1>2
      <3>7. Linked(n)'
        <4>1. /\ Held(n)' \subseteq Line(n)' /\ data'[p] \subseteq Line(n)' /\ data'[p] # Line(n)'
              /\ Line(n)' = Held(n)' \cup data'[p] /\ local'[p] \subseteq Held(n)'
          BY <3>3, <3>5, <3>6
        <4> QED BY <1>1, <3>4, <3>6, <4>1, LinkMade
      <3> QED BY <2>1, <3>7
    <2>2. CASE x # n
      <3>1. PICK q : q = parent[x]
        OBVIOUS
      <3>2. Sound(x) /\ Linked(x) /\ x \in Chain(x) /\ Closed(Chain(x)) /\ q \in SnapOrNull
        BY <1>6, <1>9, <2>2, <3>1, PointTypes, ChainClosed DEF ChainInv
      <3>3. q # NoSnap => q \in Chain(x) /\ Present(q)'
        BY <1>4, <3>1, <3>2 DEF Closed, Linked, SnapOrNull
      <3> QED BY <1>2, <1>5, <3>1, <3>2, <3>3, LinkKept
    <2> QED BY <2>1, <2>2
  <1>10. ASSUME NEW t \in Snap, merge'[t].stage = "stage1", Present(t)', Clean(t)'
         PROVE  /\ t # n /\ Present(t) /\ Clean(t)
                /\ t # s => merge[t].stage = "stage1" /\ merge'[t].new = merge[t].new
    <2>1. t # n
      <3>1. t # s => host[t] = "successful"
        BY <1>2, <1>10 DEF TaskInv, MergeSound
      <3> QED BY <1>1, <3>1
    <2> QED BY <1>2, <1>4, <1>5, <1>10, <2>1
  <1>11. ASSUME NEW t \in Snap PROVE Rewritten(t)'
    <2> SUFFICES ASSUME merge'[t].stage = "stage1", Present(t)', Clean(t)' PROVE Beside(t)'
      BY DEF Rewritten
    <2>1. CASE t = s
      BY <1>1, <1>2, <2>1 DEF Beside
    <2>2. CASE t # s
      <3>1. Beside(t) /\ merge'[t].new = merge[t].new
        BY <1>10, <2>2 DEF ChainInv, Rewritten
      <3> QED BY <1>2, <3>1 DEF Beside
    <2> QED BY <2>1, <2>2
  <1>12. ASSUME NEW t \in Snap, NEW x \in Snap PROVE Apart(t, x)'
    <2> SUFFICES ASSUME merge'[t].stage = "stage1", Present(t)', Clean(t)', Sound(x)', t \in Chain(x)
                 PROVE  file[x] # file[merge'[t].new]
      BY <1>2, <1>5 DEF Apart
    <2>1. x = n => t \in Chain(p)
      BY <1>1, <1>10, ChainStep, PointTypes
    <2>2. CASE t # s
      <3>1. PICK y \in Snap : Sound(y) /\ t \in Chain(y) /\ file[y] = file[x]
        BY <1>1, <1>6, <1>8, <2>1
      <3>2. file[y] # file[merge[t].new]
        BY <1>10, <2>2, <3>1 DEF ChainInv, Apart
      <3> QED BY <1>10, <2>2, <3>1, <3>2
    <2>3. CASE t = s
      <3>1. x # n /\ Sound(x) /\ p \in Chain(s)
        BY <1>6, <1>8, <1>10, <2>1, <2>3
      <3>2. file[x] # file[p]
        BY <1>1, <2>3, <3>1, Contiguous
      <3> QED BY <1>1, <1>2, <2>3, <3>2
    <2> QED BY <2>2, <2>3
  <1> QED BY <1>9, <1>11, <1>12 DEF ChainInv

LEMMA SetMergedChains ==
  ASSUME TypeInv, TaskInv, PointInv, ChainInv, SetMergedStage1 PROVE ChainInv'
  <1> PICK s : s = worker.snap
    OBVIOUS
  <1>1. /\ UNCHANGED <<parent, file, host, local, data, raced, backup, merge>>
        /\ worker.pc = "stage1" /\ s \in Snap
    BY PointTypes DEF SetMergedStage1, tasks, disk
  <1>2. \A x \in Snap : Point(x)' <=> Point(x)
    BY <1>1 DEF Point, Made
  <1>3. CASE UNCHANGED merged /\ worker'.pc # "reparent"
    BY <1>1, <1>2, <1>3, ChainStill
  <1>4. CASE merged' = [merged EXCEPT ![s] = TRUE] /\ ~merged[s] /\ worker'.pc = "reparent"
             /\ worker'.snap = s
    <2>1. /\ merged'[s] /\ \A x \in Snap \ {s} : merged'[x] = merged[x]
          /\ Between(s)' /\ \A x \in Snap : ~Between(x) /\ (x # s => ~Between(x)')
      BY <1>1, <1>4, PointTypes DEF Between
    <2>2. \A x \in Snap : Present(x)' <=> Present(x)
      BY <1>2, <1>4, <2>1 DEF Present
    <2>3. \A x \in Snap : UnderWay(x)' => UnderWay(x) /\ backup'.parent = backup.parent
      BY <1>1 DEF UnderWay
    <2>4. \A x, p \in Snap : Sound(x) /\ p = parent[x] => Present(p)
      BY NullAssumption DEF ChainInv, Linked
    <2> QED BY <1>1, <2>2, <2>3, <2>4, ChainFrame
  <1>5. \/ UNCHANGED merged /\ worker'.pc # "reparent"
        \/ /\ merged' = [merged EXCEPT ![s] = TRUE] /\ ~merged[s]
           /\ worker'.pc = "reparent" /\ worker'.snap = s
    BY <1>1, PointTypes DEF SetMergedStage1, Goto, Idle, WorkerState
  <1> QED BY <1>3, <1>4, <1>5

(* What is common to the two steps after which s is gone: its children get     *)
(* another parent, and nothing else becomes sound.                           *)
LEMMA GoneFrame ==
  ASSUME TypeInv, TaskInv, NEW s \in Snap, host[s] = "successful",
         merged'[s], worker'.pc # "reparent", worker.pc = "reparent" => worker.snap = s,
         \A x \in Snap \ {s} : merged'[x] = merged[x],
         UNCHANGED <<file, host, merge, local, data, raced, backup>>
  PROVE  /\ \A x \in Snap : /\ Held(x)' = Held(x) /\ Line(x)' = Line(x) /\ (Clean(x)' <=> Clean(x))
                            /\ x # s => ~Between(x) /\ (Present(x)' <=> Present(x))
                            /\ Sound(x)' => Sound(x) /\ x # s
         /\ ~Present(s)'
  <1>1. ~Present(s)'
    BY DEF Present, Between
  <1>2. \A x \in Snap : /\ Held(x)' = Held(x) /\ Line(x)' = Line(x) /\ (Clean(x)' <=> Clean(x))
                        /\ (UnderWay(x)' <=> UnderWay(x)) /\ (Point(x)' <=> Point(x))
    BY DEF Held, Line, Clean, UnderWay, Point, Made
  <1>3. \A x \in Snap \ {s} : ~Between(x) /\ (Present(x)' <=> Present(x))
    BY <1>2 DEF Present, Between
  <1>4. ~UnderWay(s)
    BY DEF TaskInv, BackupSound, UnderWay
  <1>5. ASSUME NEW x \in Snap, Sound(x)' PROVE Sound(x) /\ x # s
    <2>1. x # s
      BY <1>1, <1>2, <1>4, <1>5 DEF Sound, Live
    <2> QED BY <1>2, <1>3, <1>5, <2>1 DEF Sound, Live
  <1> QED BY <1>1, <1>2, <1>3, <1>5

(* The collection of s gives its children to the parent of s.                 *)
LEMMA CommitChains ==
  ASSUME TypeInv, TaskInv, PointInv, ChainInv, Commit PROVE ChainInv'
  <1> PICK s, q : s = worker.snap /\ q = parent[s]
    OBVIOUS
  <1>1. /\ s \in Snap /\ worker.pc = "txn" /\ host[s] = "successful" /\ q \in SnapOrNull
        /\ \A c \in Children(s) \ raced : q # NoSnap /\ file[c] = file[s]
    BY PointTypes DEF Commit, TaskInv, WorkerSound, PointInv, WorkerLinks
  <1>2. /\ merged'[s] /\ worker'.pc = "list_delete"
        /\ \A x \in Snap \ {s} : merged'[x] = merged[x]
        /\ UNCHANGED <<file, host, merge, local, data, raced, backup>>
        /\ \A x \in Snap : parent'[x] = IF q # NoSnap /\ x \in Children(s) THEN q ELSE parent[x]
        /\ \A x \in Children(s) : parent[x] = s
    BY <1>1, PointTypes DEF Commit, Goto, WorkerState, Reparented, Children, disk
  <1>3. /\ \A x \in Snap : /\ Held(x)' = Held(x) /\ Line(x)' = Line(x) /\ (Clean(x)' <=> Clean(x))
                           /\ x # s => ~Between(x) /\ (Present(x)' <=> Present(x))
                           /\ Sound(x)' => Sound(x) /\ x # s
        /\ ~Present(s)'
    BY <1>1, <1>2, GoneFrame
  <1>4. ASSUME NEW x \in Snap, Sound(x), x # s
        PROVE  /\ parent[x] # s => parent'[x] = parent[x]
               /\ parent[x] = s => q # NoSnap /\ file[x] = file[s] /\ parent'[x] = q
    <2>1. parent[x] = s => x \in Children(s) \ raced
      BY <1>3, <1>4, SoundChild
    <2> QED BY <1>1, <1>2, <2>1
  <1>5. ASSUME NEW x \in Snap, Sound(x), s \in Chain(x), s # x
        PROVE  /\ Present(s) /\ Sound(s) /\ Linked(s) /\ Line(s) = data[s] /\ Held(s) = local[s]
               /\ q # NoSnap => q \in Snap /\ q # s /\ q \in Chain(x)
    <2>1. Present(s) /\ Sound(s) /\ Linked(s)
      BY <1>5, Below
    <2>2. Line(s) = data[s] /\ Held(s) = local[s]
      BY <1>1, <2>1, PresentPoint
    <2>3. q # NoSnap => q \in Snap /\ q # s
      BY <1>1, <2>1, <2>2 DEF Linked, SnapOrNull
    <2>4. q # NoSnap => q \in Chain(x)
      BY <1>5, ChainClosed, PointTypes DEF Closed
    <2> QED BY <2>1, <2>2, <2>3, <2>4
  <1>6. ASSUME NEW x \in Snap, Sound(x), x # s PROVE Chain(x)' \subseteq Chain(x) \ {s}
    <2> DEFINE A == Chain(x) \ {s}
    <2>1. x \in Chain(x) /\ Closed(Chain(x)) /\ Chain(x) \subseteq Snap
      BY ChainClosed, PointTypes
    <2>2. ASSUME NEW z \in A PROVE parent'[z] = NoSnap \/ parent'[z] \in A
      <3>1. z \in Snap /\ Sound(z) /\ (parent[z] = NoSnap \/ parent[z] \in Chain(x))
        BY <1>6, <2>1, <2>2, Below DEF Closed
      <3>2. CASE parent[z] # s
        BY <1>4, <2>2, <3>1, <3>2
      <3>3. CASE parent[z] = s
        BY <1>1, <1>4, <1>5, <1>6, <2>2, <3>1, <3>3, NullAssumption
      <3> QED BY <3>2, <3>3
    <2>3. A \in SUBSET Snap /\ x \in A
      BY <1>6, <2>1
    <2> HIDE DEF A
    <2>4. Chain(x)' \subseteq A
      BY <2>2, <2>3, ChainShrinks
    <2> QED BY <2>4 DEF A
  <1>7. ASSUME NEW x \in Snap, Sound(x)' PROVE Linked(x)'
    <2>1. /\ Sound(x) /\ x # s /\ Linked(x) /\ x \in Chain(x) /\ Closed(Chain(x))
          /\ Chain(x)' \subseteq Chain(x) \ {s} /\ Chain(x) \subseteq Snap
      BY <1>3, <1>6, <1>7, ChainClosed, PointTypes DEF ChainInv
    <2>2. CASE parent[x] # s
      <3>1. PICK r : r = parent[x]
        OBVIOUS
      <3>2. parent'[x] = r
        BY <1>4, <2>1, <2>2, <3>1
      <3>3. r # NoSnap => r \in Chain(x) /\ Present(r)'
        BY <1>3, <2>1, <2>2, <3>1 DEF Closed, Linked
      <3> QED BY <1>2, <1>3, <2>1, <3>1, <3>2, <3>3, LinkKept
    <2>3. CASE parent[x] = s
      <3>1. q # NoSnap /\ file[x] = file[s] /\ parent'[x] = q /\ s \in Chain(x)
        BY <1>1, <1>4, <2>1, <2>3, NullAssumption DEF Closed
      <3>2. /\ Present(s) /\ Linked(s) /\ Line(s) = data[s] /\ Held(s) = local[s]
            /\ q \in Snap /\ q # s
        BY <1>5, <2>1, <3>1
      <3>3. /\ Present(q) /\ data[q] \subseteq data[s] /\ data[q] # data[s]
            /\ data[s] = local[s] \cup data[q]
            /\ file[q] = file[s] => local[q] \subseteq local[s]
            /\ \A z \in Chain(s) : file[z] = file[s] /\ z # s => file[q] = file[s]
        BY <3>1, <3>2 DEF Linked
      <3>4. /\ Held(x) \subseteq Line(x) /\ data[s] \subseteq Line(x) /\ data[s] # Line(x)
            /\ Line(x) = Held(x) \cup data[s] /\ local[s] \subseteq Held(x)
        BY <1>1, <2>1, <2>3, <3>1, NullAssumption DEF Linked
      <3>5. /\ data[q] \subseteq Line(x) /\ data[q] # Line(x) /\ Line(x) = Held(x) \cup data[q]
            /\ file[q] = file[x] => local[q] \subseteq Held(x)
        BY <3>1, <3>3, <3>4
      <3>6. ASSUME NEW z \in Chain(x)', file[z] = file[x], z # x PROVE file[q] = file[x]
        <4>1. z \in Chain(s) /\ z # s
          BY <1>1, <2>1, <2>3, <3>6, ChainStep, PointTypes, NullAssumption
        <4> QED BY <3>1, <3>3, <3>6, <4>1
      <3>7. Present(q)'
        BY <1>3, <3>2, <3>3
      <3>8. /\ Held(x)' = Held(x) /\ Line(x)' = Line(x) /\ UNCHANGED <<file, local, data>>
        BY <1>2, <1>3
      <3> QED BY <3>1, <3>4, <3>5, <3>6, <3>7, <3>8, LinkMoved
    <2> QED BY <2>2, <2>3
  <1>8. ASSUME NEW t \in Snap, merge'[t].stage = "stage1", Present(t)', Clean(t)'
        PROVE  t # s /\ Present(t) /\ Clean(t) /\ Sound(t) /\ merge[t].stage = "stage1"
    BY <1>2, <1>3, <1>8 DEF Sound, Live
  <1>9. ASSUME NEW t \in Snap PROVE Rewritten(t)'
    <2> SUFFICES ASSUME merge'[t].stage = "stage1", Present(t)', Clean(t)' PROVE Beside(t)'
      BY DEF Rewritten
    <2>1. t # s /\ Sound(t) /\ Beside(t) /\ merge[t].new \in Snap
      BY <1>8, PointTypes DEF ChainInv, Rewritten
    <2>2. parent[t] # s /\ parent[merge[t].new] = parent[t]
      BY <1>4, <2>1 DEF Beside
    <2>3. parent'[t] = parent[t] /\ parent'[merge[t].new] = parent[t]
      BY <1>2, <2>1, <2>2
    <2> QED BY <1>2, <2>1, <2>3 DEF Beside
  <1>10. ASSUME NEW t \in Snap, NEW x \in Snap PROVE Apart(t, x)'
    <2>1. Apart(t, x) /\ (Sound(x)' => Sound(x) /\ (t \in Chain(x)' => t \in Chain(x)))
      BY <1>3, <1>6 DEF ChainInv
    <2> QED BY <1>2, <1>8, <2>1 DEF Apart
  <1> QED BY <1>7, <1>9, <1>10 DEF ChainInv

(* Stage 1 of a merge gives the children of s to the new snapshot beside it.   *)
LEMMA ReparentChains ==
  ASSUME TypeInv, TaskInv, PointInv, ChainInv, Reparent PROVE ChainInv'
  <1> PICK s, n, p : s = worker.snap /\ n = merge[s].new /\ p = parent[s]
    OBVIOUS
  <1>1. /\ s \in Snap /\ n \in Snap /\ p \in Snap /\ p # NoSnap /\ worker.pc = "reparent"
        /\ merge[s].stage = "stage1" /\ merged[s] /\ host[s] = "successful" /\ Present(s)
        /\ host[n] = "backuping" /\ Present(n) /\ n # s
    <2>1. /\ s \in Snap /\ worker.pc = "reparent" /\ merge[s].stage = "stage1" /\ merged[s]
          /\ host[s] = "successful" /\ host[n] = "backuping" /\ n \in Snap
      BY PointTypes DEF Reparent, TaskInv, WorkerSound, MergeSound
    <2>2. p # NoSnap /\ p \in Snap
      BY <2>1, PointTypes DEF PointInv, MergeLinks, SnapOrNull
    <2>3. Present(s)
      BY <2>1 DEF Present, Point, Between
    <2>4. Present(n)
      BY <2>1, PointRow DEF Present, Point, Made
    <2> QED BY <2>1, <2>2, <2>3, <2>4
  <1>2. /\ merged'[s] /\ worker'.pc = "merge_delete"
        /\ UNCHANGED <<file, merged, host, merge, local, data, raced, backup>>
        /\ \A x \in Snap : parent'[x] = IF x \in Children(s) THEN n ELSE parent[x]
        /\ \A x \in Children(s) : parent[x] = s
    BY <1>1, PointTypes DEF Reparent, Goto, WorkerState, Reparented, Children, tasks, disk
  <1>3. /\ \A x \in Snap : /\ Held(x)' = Held(x) /\ Line(x)' = Line(x) /\ (Clean(x)' <=> Clean(x))
                           /\ x # s => ~Between(x) /\ (Present(x)' <=> Present(x))
                           /\ Sound(x)' => Sound(x) /\ x # s
        /\ ~Present(s)'
    BY <1>1, <1>2, GoneFrame
  <1>4. ASSUME NEW x \in Snap, Sound(x), x # s
        PROVE  parent'[x] = IF parent[x] = s THEN n ELSE parent[x]
    <2>1. parent[x] = s => x \in Children(s) \ raced
      BY <1>3, <1>4, SoundChild
    <2> QED BY <1>2, <2>1
  <1>5. ASSUME NEW x \in Snap, Sound(x), s \in Chain(x), s # x
        PROVE  /\ Sound(s) /\ Linked(s) /\ p \in Chain(s) /\ p \in Chain(x) /\ p # s
               /\ parent[n] = p /\ data[n] = data[s] /\ file[n] # file[s] /\ file[p] # file[s]
               /\ file[x] # file[n] /\ parent'[n] = p
    <2>1. Sound(s) /\ Linked(s) /\ Clean(s)
      BY <1>5, Below DEF Sound
    <2>2. /\ parent[n] = p /\ data[n] = data[s] /\ file[n] # file[s] /\ file[p] # file[s]
      BY <1>1, <2>1 DEF ChainInv, Rewritten, Beside
    <2>3. file[x] # file[n]
      BY <1>1, <1>5, <2>1 DEF ChainInv, Apart
    <2>4. p \in Chain(s) /\ p \in Chain(x) /\ p # s
      BY <1>1, <1>5, <2>2, ChainClosed, PointTypes DEF Closed
    <2>5. parent'[n] = p
      BY <1>1, <1>2, <2>2
    <2> QED BY <2>1, <2>2, <2>3, <2>4, <2>5
  <1>6. ASSUME NEW x \in Snap, Sound(x), x # s, s \notin Chain(x)
        PROVE  Chain(x)' \subseteq Chain(x)
    <2>1. \A z \in Chain(x) : parent'[z] = parent[z]
      <3> SUFFICES ASSUME NEW z \in Chain(x) PROVE parent'[z] = parent[z]
        OBVIOUS
      <3>1. z \in Snap /\ Sound(z) /\ z # s
        BY <1>6, Below
      <3>2. parent[z] # s
        BY <1>1, <1>6, <3>1, ChainClosed, PointTypes, NullAssumption DEF Closed
      <3> QED BY <1>4, <3>1, <3>2
    <2> QED BY <2>1, ChainKept, PointTypes
  <1>7. ASSUME NEW x \in Snap, Sound(x), x # s, s \in Chain(x)
        PROVE  Chain(x)' \subseteq (Chain(x) \cup {n}) \ {s}
    <2> DEFINE A == (Chain(x) \cup {n}) \ {s}
    <2>1. x \in Chain(x) /\ Closed(Chain(x)) /\ Chain(x) \subseteq Snap
      BY ChainClosed, PointTypes
    <2>2. ASSUME NEW z \in A PROVE parent'[z] = NoSnap \/ parent'[z] \in A
      <3>1. CASE z = n
        BY <1>5, <1>7, <3>1
      <3>2. CASE z # n
        <4>1. z \in Snap /\ Sound(z) /\ z # s /\ (parent[z] = NoSnap \/ parent[z] \in Chain(x))
          BY <1>7, <2>1, <2>2, <3>2, Below DEF Closed
        <4>2. parent'[z] = IF parent[z] = s THEN n ELSE parent[z]
          BY <1>4, <4>1
        <4> QED BY <1>1, <4>1, <4>2
      <3> QED BY <3>1, <3>2
    <2>3. A \in SUBSET Snap /\ x \in A
      BY <1>1, <1>7, <2>1
    <2> HIDE DEF A
    <2>4. Chain(x)' \subseteq A
      BY <2>2, <2>3, ChainShrinks
    <2> QED BY <2>4 DEF A
  <1>8. ASSUME NEW x \in Snap, Sound(x)' PROVE Linked(x)'
    <2>1. Sound(x) /\ x # s /\ Linked(x) /\ x \in Chain(x) /\ Closed(Chain(x))
      BY <1>3, <1>8, ChainClosed, PointTypes DEF ChainInv
    <2>2. CASE parent[x] = s
      <3>1. s \in Chain(x) /\ parent'[x] = n
        BY <1>1, <1>4, <2>1, <2>2, NullAssumption DEF Closed
      <3>2. /\ Linked(s) /\ data[n] = data[s] /\ file[n] # file[s] /\ file[p] # file[s]
            /\ file[x] # file[n]
        BY <1>5, <2>1, <3>1
      <3>3. /\ Held(x) \subseteq Line(x) /\ data[s] \subseteq Line(x) /\ data[s] # Line(x)
            /\ Line(x) = Held(x) \cup data[s]
        BY <1>1, <2>1, <2>2, NullAssumption DEF Linked
      <3>4. ASSUME NEW z \in Chain(x)', file[z] = file[x], z # x PROVE file[n] = file[x]
        <4>1. z \in Chain(x) /\ z # s
          BY <1>7, <2>1, <3>1, <3>2, <3>4
        <4>2. z \in Chain(s)
          BY <1>1, <2>1, <2>2, <3>4, <4>1, ChainStep, PointTypes, NullAssumption
        <4>3. file[s] = file[x]
          BY <2>1, <3>1, <3>4, <4>2, Contiguous
        <4>4. file[p] = file[s]
          BY <1>1, <3>2, <3>4, <4>1, <4>2, <4>3 DEF Linked
        <4> QED BY <3>2, <4>4
      <3>5. Present(n)' /\ n # NoSnap
        BY <1>1, <1>3, NullAssumption
      <3>6. Held(x)' = Held(x) /\ Line(x)' = Line(x) /\ UNCHANGED <<file, local, data>>
        BY <1>2, <1>3
      <3>7. /\ data[n] \subseteq Line(x) /\ data[n] # Line(x) /\ Line(x) = Held(x) \cup data[n]
            /\ file[n] = file[x] => local[n] \subseteq Held(x)
        BY <3>2, <3>3
      <3> QED BY <3>1, <3>3, <3>4, <3>5, <3>6, <3>7, LinkMoved
    <2>3. CASE parent[x] # s
      <3>1. PICK r : r = parent[x]
        OBVIOUS
      <3>2. parent'[x] = r
        BY <1>4, <2>1, <2>3, <3>1
      <3>3. r # NoSnap => r \in Chain(x) /\ Present(r)'
        BY <1>3, <2>1, <2>3, <3>1, PointTypes DEF Closed, Linked, SnapOrNull
      <3>4. CASE s \notin Chain(x)
        <4>1. Chain(x)' \subseteq Chain(x)
          BY <1>6, <2>1, <3>4
        <4> QED BY <1>2, <1>3, <2>1, <3>1, <3>2, <3>3, <4>1, LinkKept
      <3>5. CASE s \in Chain(x)
        <4>1. r # NoSnap
          <5>1. r = NoSnap => Chain(x) \subseteq {x}
            BY <3>1, ChainBase
          <5> QED BY <2>1, <3>5, <5>1
        <4>2. ASSUME NEW z \in Chain(x)', file[z] = file[x], z # x PROVE file[r] = file[x]
          <5>1. z \in Chain(x)
            BY <1>5, <1>7, <2>1, <3>5, <4>2
          <5> QED BY <2>1, <3>1, <4>2, <5>1 DEF Linked
        <4>3. Held(x)' = Held(x) /\ Line(x)' = Line(x) /\ UNCHANGED <<file, local, data>>
          BY <1>2, <1>3
        <4>4. /\ Held(x) \subseteq Line(x) /\ data[r] \subseteq Line(x) /\ data[r] # Line(x)
              /\ Line(x) = Held(x) \cup data[r]
              /\ file[r] = file[x] => local[r] \subseteq Held(x)
          BY <2>1, <3>1, <4>1 DEF Linked
        <4> QED BY <3>2, <3>3, <4>1, <4>2, <4>3, <4>4, LinkMoved
      <3> QED BY <3>4, <3>5
    <2> QED BY <2>2, <2>3
  <1>9. ASSUME NEW t \in Snap, merge'[t].stage = "stage1", Present(t)', Clean(t)'
        PROVE  /\ t # s /\ t # n /\ Present(t) /\ Clean(t) /\ Sound(t) /\ merge[t].stage = "stage1"
               /\ host[t] = "successful"
    <2>1. host[t] = "successful"
      BY <1>2, <1>9 DEF TaskInv, MergeSound
    <2> QED BY <1>1, <1>2, <1>3, <1>9, <2>1 DEF Sound, Live
  <1>10. ASSUME NEW t \in Snap PROVE Rewritten(t)'
    <2> SUFFICES ASSUME merge'[t].stage = "stage1", Present(t)', Clean(t)' PROVE Beside(t)'
      BY DEF Rewritten
    <2> PICK m : m = merge[t].new
      OBVIOUS
    <2>1. t # s /\ Sound(t) /\ Beside(t) /\ m \in Snap /\ m # n /\ merge[t].stage = "stage1"
      BY <1>1, <1>9, PointTypes, NullAssumption DEF ChainInv, Rewritten, TaskInv, MergeSound
    <2>2. Sound(m) /\ m # s
      <3>1. host[m] = "backuping" /\ Made(m)
        BY <2>1 DEF TaskInv, MergeSound, Made
      <3>2. Present(m)
        BY <2>1, <3>1, PointRow DEF Present, Point
      <3>3. Line(m) = data[m] /\ Line(t) = data[t] /\ data[m] = data[t]
        BY <1>9, <2>1, <3>2, PresentPoint DEF Beside
      <3> QED BY <1>1, <2>1, <3>1, <3>2, <3>3 DEF Sound, Live, Clean
    <2>3. /\ parent[m] = parent[t] /\ data[m] = data[t]
          /\ file[m] # file[t] /\ file[parent[t]] # file[t]
      BY <2>1 DEF Beside
    <2>4. parent'[m] = parent'[t]
      BY <1>4, <2>1, <2>2, <2>3
    <2>5. file[parent'[t]] # file[t]
      <3>1. CASE parent[t] # s
        BY <1>4, <2>1, <2>3, <3>1
      <3>2. CASE parent[t] = s
        <4>1. s \in Chain(t) /\ parent'[t] = n
          BY <1>1, <1>4, <2>1, <3>2, ChainClosed, PointTypes, NullAssumption DEF Closed
        <4> QED BY <1>5, <2>1, <4>1
      <3> QED BY <3>1, <3>2
    <2> QED BY <1>2, <2>3, <2>4, <2>5 DEF Beside
  <1>11. ASSUME NEW t \in Snap, NEW x \in Snap PROVE Apart(t, x)'
    <2> SUFFICES ASSUME merge'[t].stage = "stage1", Present(t)', Clean(t)', Sound(x)', t \in Chain(x)'
                 PROVE  file'[x] # file'[merge'[t].new]
      BY DEF Apart
    <2>1. Apart(t, x) /\ Sound(x) /\ x # s
      BY <1>3 DEF ChainInv
    <2>2. t # n /\ Present(t) /\ Clean(t) /\ merge[t].stage = "stage1"
      BY <1>9
    <2>3. t \in Chain(x)
      BY <1>6, <1>7, <2>1, <2>2
    <2> QED BY <1>2, <2>1, <2>2, <2>3 DEF Apart
  <1> QED BY <1>8, <1>10, <1>11 DEF ChainInv

LEMMA WorkerChains == ASSUME TypeInv, TaskInv, PointInv, ChainInv, WorkerStep PROVE ChainInv'
  <1>1. CASE DeleteStep
    BY <1>1, QuietChains, CommitChains DEF DeleteStep
  <1>2. CASE MergeStep
    BY <1>2, QuietChains, StageChains, MakeChains, UnlockChains, SetMergedChains, ReparentChains
       DEF MergeStep
  <1> QED BY <1>1, <1>2, QuietChains DEF WorkerStep

(* The links hold in every reachable state: whatever order backups, restores, *)
(* collections, merges and restarts come in, a sound snapshot is made of what *)
(* it holds and of a sound parent.                                           *)
THEOREM ChainsInvariant == Spec => []ChainInv
  <1>1. TypeInv /\ TaskInv /\ PointInv /\ ChainInv /\ [Next]_vars => ChainInv'
    <2> SUFFICES ASSUME TypeInv, TaskInv, PointInv, ChainInv, [Next]_vars PROVE ChainInv'
      OBVIOUS
    <2>1. CASE UNCHANGED vars
      <3>1. /\ UNCHANGED <<parent, file, merged, host, local, data, raced, backup, merge, worker>>
        BY <2>1 DEF vars, tables, tasks, disk
      <3>2. \A x \in Snap : Point(x)' <=> Point(x)
        BY <3>1 DEF Point, Made
      <3> QED BY <3>1, <3>2, ChainStill
    <2>2. CASE Next
      BY <2>2, BackupChains, ClientChains, WorkerChains, CrashChains DEF Next
    <2> QED BY <2>1, <2>2
  <1> QED BY <1>1, InitChains, TypesInvariant, TasksInvariant, PointsInvariant, PTL DEF Spec

-----------------------------------------------------------------------------
(* READING A CHAIN.  The key nodes of a sound point are in its chain, and what  *)
(* they hold is all of its data: the walk skips a node only when the last key  *)
(* node, in the same file, holds all of what the node holds.                  *)

Content(K) == UNION {local[k] : k \in K}
Yields(f, x) ==
  \A last \in SnapOrNull :
    /\ f[<<x, last>>] \subseteq Chain(x)
    /\ (last # NoSnap /\ file[last] = file[x] => local[x] \subseteq local[last]) =>
         data[x] \subseteq Content(f[<<x, last>>])
                           \cup (IF last = NoSnap THEN {} ELSE local[last])

LEMMA ContentAdd == ASSUME NEW x, NEW K PROVE Content({x} \cup K) = local[x] \cup Content(K)
  BY DEF Content

LEMMA WalkStep ==
  ASSUME TypeInv, TaskInv, PointInv, ChainInv, NEW f, Follows(f),
         NEW x \in Snap, Sound(x), Present(x), parent[x] # NoSnap => Yields(f, parent[x])
  PROVE  Yields(f, x)
  <1> PICK q : q = parent[x]
    OBVIOUS
  <1>1. /\ Linked(x) /\ Held(x) = local[x] /\ Line(x) = data[x]
        /\ q \in SnapOrNull /\ x \in SnapOrNull /\ NoSnap \in SnapOrNull /\ x # NoSnap
        /\ x \in Chain(x) /\ Closed(Chain(x))
    BY PresentPoint, PointTypes, ChainClosed, NullAssumption DEF ChainInv, SnapOrNull
  <1>2. q # NoSnap => /\ q \in Snap /\ Chain(q) \subseteq Chain(x) /\ Present(q)
                      /\ data[x] = local[x] \cup data[q] /\ Yields(f, q)
                      /\ file[q] = file[x] => local[q] \subseteq local[x]
    BY <1>1, ChainTransitive, PointTypes DEF Linked, Closed, SnapOrNull
  <1>3. q = NoSnap => data[x] = local[x]
    BY <1>1 DEF Linked
  <1>4. \A l \in SnapOrNull : f[<<NoSnap, l>>] = {}
    BY <1>1, FollowsStep
  <1>5. ASSUME NEW last \in SnapOrNull, IsKeyNode(x, last)
        PROVE  /\ f[<<x, last>>] \subseteq Chain(x)
               /\ data[x] \subseteq Content(f[<<x, last>>])
    <2>1. f[<<x, last>>] = {x} \cup f[<<q, x>>]
      BY <1>1, <1>5, FollowsStep
    <2>2. CASE q = NoSnap
      <3>1. Content({x}) = local[x]
        BY DEF Content
      <3> QED BY <1>1, <1>3, <1>4, <2>1, <2>2, <3>1
    <2>3. CASE q # NoSnap
      <3>1. /\ f[<<q, x>>] \subseteq Chain(q)
            /\ data[q] \subseteq Content(f[<<q, x>>]) \cup local[x]
        BY <1>1, <1>2, <2>3 DEF Yields
      <3>2. data[x] = local[x] \cup data[q] /\ Chain(q) \subseteq Chain(x)
        BY <1>2, <2>3
      <3>3. Content(f[<<x, last>>]) = local[x] \cup Content(f[<<q, x>>])
        BY <2>1, ContentAdd
      <3>4. f[<<x, last>>] \subseteq Chain(x)
        BY <1>1, <2>1, <3>1, <3>2
      <3> QED BY <3>1, <3>2, <3>3, <3>4
    <2> QED BY <2>2, <2>3
  <1>6. ASSUME NEW last \in SnapOrNull, ~IsKeyNode(x, last)
        PROVE  /\ f[<<x, last>>] \subseteq Chain(x)
               /\ (last # NoSnap /\ file[last] = file[x] => local[x] \subseteq local[last]) =>
                    /\ last # NoSnap
                    /\ data[x] \subseteq Content(f[<<x, last>>]) \cup local[last]
    <2>1. f[<<x, last>>] = f[<<q, last>>]
      <3>1. f[<<x, last>>] = IF x = NoSnap THEN {}
                             ELSE IF IsKeyNode(x, last) THEN {x} \cup f[<<parent[x], x>>]
                             ELSE f[<<parent[x], last>>]
        BY <1>1, FollowsStep
      <3> QED BY <1>1, <1>6, <3>1
    <2>2. /\ last # NoSnap /\ q # NoSnap /\ file[x] = file[q] /\ file[x] = file[last]
      BY <1>6 DEF IsKeyNode
    <2>3. f[<<q, last>>] \subseteq Chain(q) /\ Chain(q) \subseteq Chain(x)
      BY <1>2, <2>2 DEF Yields
    <2>4. ASSUME local[x] \subseteq local[last]
          PROVE  data[x] \subseteq Content(f[<<x, last>>]) \cup local[last]
      <3>1. local[q] \subseteq local[last]
        BY <1>2, <2>2, <2>4
      <3>2. data[q] \subseteq Content(f[<<q, last>>]) \cup local[last]
        BY <1>2, <2>2, <3>1 DEF Yields
      <3>3. data[x] = local[x] \cup data[q]
        BY <1>2, <2>2
      <3> QED BY <2>1, <2>4, <3>2, <3>3
    <2> QED BY <2>1, <2>2, <2>3, <2>4
  <1> SUFFICES ASSUME NEW last \in SnapOrNull
               PROVE  /\ f[<<x, last>>] \subseteq Chain(x)
                      /\ (last # NoSnap /\ file[last] = file[x] => local[x] \subseteq local[last]) =>
                           data[x] \subseteq Content(f[<<x, last>>])
                                             \cup (IF last = NoSnap THEN {} ELSE local[last])
    BY DEF Yields
  <1>7. CASE IsKeyNode(x, last)
    BY <1>5, <1>7
  <1>8. CASE ~IsKeyNode(x, last)
    BY <1>6, <1>8
  <1> QED BY <1>7, <1>8

(* The parents of a sound point have strictly less data, which is finite.      *)
LEMMA WalkYields ==
  ASSUME TypeInv, TaskInv, PointInv, ChainInv, NEW f, Follows(f),
         NEW x \in Snap, Sound(x), Present(x)
  PROVE  Yields(f, x)
  <1> DEFINE T == {d \in FiniteSubsetsOf(Snap) :
                     \E y \in Snap : data[y] = d /\ Sound(y) /\ Present(y) /\ ~Yields(f, y)}
  <1> SUFFICES ASSUME T # {} PROVE FALSE
    <2>1. IsFiniteSet(data[x]) /\ data[x] \in SUBSET Snap
      BY PointTypes DEF PointInv, PointSound
    <2>2. data[x] \in FiniteSubsetsOf(Snap)
      BY <2>1 DEF FiniteSubsetsOf
    <2> QED BY <2>2
  <1>1. T \subseteq FiniteSubsetsOf(Snap)
    OBVIOUS
  <1> HIDE DEF T
  <1>2. PICK d \in T : \A e \in T : ~(<<e, d>> \in StrictSubsetOrdering(Snap))
    BY <1>1, FS_StrictSubsetOrderingWellFounded, WFMin
  <1>3. PICK y \in Snap : data[y] = d /\ Sound(y) /\ Present(y) /\ ~Yields(f, y)
    BY DEF T
  <1>4. PICK q : q = parent[y]
    OBVIOUS
  <1>5. q # NoSnap /\ ~Yields(f, q)
    BY <1>3, <1>4, WalkStep
  <1>6. /\ q \in Snap /\ Sound(q) /\ Present(q) /\ data[q] \subseteq data[y] /\ data[q] # data[y]
    <2>1. Linked(y) /\ Line(y) = data[y] /\ q \in Snap
      BY <1>3, <1>4, <1>5, PresentPoint, PointTypes DEF ChainInv, SnapOrNull
    <2>2. Present(q) /\ data[q] \subseteq data[y] /\ data[q] # data[y]
      BY <1>4, <1>5, <2>1 DEF Linked
    <2>3. Sound(q)
      BY <1>3, <2>1, <2>2, PresentPoint DEF Sound, Live, Clean
    <2> QED BY <2>1, <2>2, <2>3
  <1>7. data[q] \in SUBSET Snap /\ IsFiniteSet(data[q]) /\ d \in SUBSET Snap
    BY <1>3, <1>6, PointTypes DEF PointInv, PointSound
  <1>8. data[q] \in T
    BY <1>5, <1>6, <1>7 DEF T, FiniteSubsetsOf
  <1>9. <<data[q], d>> \in StrictSubsetOrdering(Snap)
    BY <1>3, <1>6, <1>7 DEF StrictSubsetOrdering
  <1> QED BY <1>2, <1>8, <1>9

LEMMA KeyNodesYield ==
  ASSUME TypeInv, TaskInv, PointInv, ChainInv, NEW x \in Snap, Sound(x), Present(x)
  PROVE  /\ KeyNodes(x) \subseteq Snap
         /\ \A k \in KeyNodes(x) : Present(k)
         /\ Content(KeyNodes(x)) = data[x]
  <1>1. PICK f : Follows(f) /\ Walk(x) = f[<<x, NoSnap>>]
    BY WalkFollows, PointTypes DEF SnapOrNull
  <1>2. /\ Walk(x) \subseteq Chain(x)
        /\ data[x] \subseteq Content(Walk(x))
    BY <1>1, WalkYields DEF Yields, SnapOrNull
  <1>3. ASSUME NEW k \in Chain(x) PROVE Present(k) /\ k \in Snap /\ local[k] \subseteq data[x]
    <2>1. k \in Snap /\ Linked(k) /\ Present(k) /\ (k # x => data[k] \subseteq Line(x))
      BY <1>3, Below
    <2>2. Held(k) = local[k] /\ Line(k) = data[k] /\ Line(x) = data[x]
      BY <2>1, PresentPoint
    <2>3. local[k] \subseteq data[k]
      BY <2>1, <2>2 DEF Linked
    <2> QED BY <2>1, <2>2, <2>3
  <1>4. KeyNodes(x) = Walk(x)
    BY <1>2, <1>3 DEF KeyNodes
  <1>5. Content(Walk(x)) \subseteq data[x]
    BY <1>2, <1>3 DEF Content
  <1> QED BY <1>2, <1>3, <1>4, <1>5

-----------------------------------------------------------------------------
(* WHAT THE POINTS PROMISE.  No step changes the files of a point, or makes it  *)
(* anything but a point; and what is tainted stays so.                        *)
LEMMA PointFixed ==
  ASSUME TypeInv, TaskInv, PointInv, [Next]_vars
  PROVE  /\ raced \subseteq raced'
         /\ \A x \in Snap : Point(x) =>
              /\ Point(x)' /\ local'[x] = local[x] /\ data'[x] = data[x]
              /\ host[x] = "successful" => host'[x] = "successful"
  <1> PICK b, s, n : b = backup.snap /\ s = worker.snap /\ n = merge[s].new
    OBVIOUS
  <1> DEFINE Fixed(x) == /\ Point(x)' /\ local'[x] = local[x] /\ data'[x] = data[x]
                         /\ host[x] = "successful" => host'[x] = "successful"
  <1>1. ASSUME UNCHANGED <<host, merge, local, data, raced>>
        PROVE  raced \subseteq raced' /\ \A x \in Snap : Point(x) => Fixed(x)
    BY <1>1 DEF Point, Made
  <1>2. ASSUME merge' = merge, NEW a, ~Point(a),
               \A x \in Snap \ {a} : host'[x] = host[x] /\ local'[x] = local[x] /\ data'[x] = data[x]
        PROVE  \A x \in Snap : Point(x) => Fixed(x)
    BY <1>2 DEF Point, Made
  <1>3. CASE BackupStep \/ Crash
    <2>1. CASE UNCHANGED <<host, merge, local, data, raced>>
      BY <1>1, <2>1
    <2>2. CASE ~UNCHANGED <<host, merge, local, data, raced>>
      <3>1. BackupCreate \/ BackupSend \/ BackupFinish \/ Crash
        BY <1>3, <2>2 DEF BackupStep, BackupQuery, tables, tasks, disk
      <3>2. merge' = merge /\ raced \subseteq raced'
        BY <3>1 DEF BackupCreate, BackupSend, BackupFinish, Crash, tasks
      <3>3. CASE Crash /\ backup.pc # "created"
        <4>1. UNCHANGED <<host, local, data>>
          BY <3>3 DEF Crash, disk
        <4> QED BY <3>2, <4>1 DEF Point, Made
      <3>4. CASE BackupCreate \/ BackupSend \/ BackupFinish \/ (Crash /\ backup.pc = "created")
        <4>1. ~Point(b) /\ b \in Snap
          <5>1. CASE BackupCreate
            BY <5>1, PointTypes, NotPoint DEF BackupCreate, Fresh
          <5>2. CASE ~BackupCreate
            <6>1. backup.pc \in {"created", "running"}
              BY <3>4, <5>2 DEF BackupSend, BackupFinish
            <6> QED BY <6>1, PointTypes, NotPoint
          <5> QED BY <5>1, <5>2
        <4>2. \A x \in Snap \ {b} : host'[x] = host[x] /\ local'[x] = local[x] /\ data'[x] = data[x]
          BY <3>4, <4>1, PointTypes DEF BackupCreate, BackupSend, BackupFinish, Crash, disk
        <4> QED BY <1>2, <3>2, <4>1, <4>2
      <3> QED BY <3>1, <3>3, <3>4
    <2> QED BY <2>1, <2>2
  <1>4. CASE RecreateNew \/ LockForMerge \/ MergeImage
    <2>1. merge' = merge /\ raced \subseteq raced'
      BY <1>4 DEF RecreateNew, LockForMerge, MergeImage, tasks
    <2>2. ~Point(n) /\ n \in Snap
      <3>1. s \in Snap /\ merge[s].stage = "stage0"
        BY <1>4, PointTypes DEF RecreateNew, LockForMerge, MergeImage, TaskInv, WorkerSound, MadePC
      <3> QED BY <3>1, NotPoint, PointTypes
    <2>3. \A x \in Snap \ {n} : host'[x] = host[x] /\ local'[x] = local[x] /\ data'[x] = data[x]
      <3>1. CASE RecreateNew
        BY <2>2, <3>1, PointTypes DEF RecreateNew, tables, disk
      <3>2. CASE LockForMerge
        BY <2>2, <3>2, PointTypes DEF LockForMerge, DropNew, disk
      <3>3. CASE MergeImage
        BY <2>2, <3>3, PointTypes DEF MergeImage, DropNew
      <3> QED BY <1>4, <3>1, <3>2, <3>3
    <2> QED BY <1>2, <2>1, <2>2, <2>3
  <1>5. CASE CreateMerge \/ UnlockAfterMerge \/ ToStage2 \/ FinishMerge
    <2>1. UNCHANGED <<host, local, data, raced>> /\ s \in Snap /\ merge \in [Snap -> MergeTask]
      BY <1>5, PointTypes DEF CreateMerge, UnlockAfterMerge, ToStage2, FinishMerge, tables, disk
    <2>2. /\ \A t \in Snap \ {s} : merge'[t] = merge[t]
          /\ merge[s].stage \in {"stage1", "stage2", "finished"} =>
               /\ merge'[s].new = merge[s].new
               /\ merge'[s].stage \in {"stage1", "stage2", "finished"}
      <3>1. CASE CreateMerge
        <4>1. merge[s].stage = "none"
          BY <3>1 DEF CreateMerge, TaskInv, WorkerSound
        <4> QED BY <2>1, <3>1, <4>1 DEF CreateMerge
      <3>2. CASE UnlockAfterMerge \/ ToStage2 \/ FinishMerge
        BY <2>1, <3>2 DEF UnlockAfterMerge, ToStage2, FinishMerge, MergeTask
      <3> QED BY <1>5, <3>1, <3>2
    <2>3. \A x \in Snap : Made(x) => Made(x)'
      BY <2>1, <2>2 DEF Made
    <2> QED BY <2>1, <2>3 DEF Point
  <1>6. CASE FinishNew
    <2>1. UNCHANGED <<merge, local, data, raced>> /\ s \in Snap /\ n \in Snap
      BY <1>6, PointTypes DEF FinishNew, TaskInv, WorkerSound, tasks, disk
    <2>2. \A x \in Snap : host'[x] = host[x] \/ (host[x] = "backuping" /\ host'[x] = "successful")
      BY <1>6, <2>1, PointTypes DEF FinishNew
    <2> QED BY <2>1, <2>2 DEF Point, Made
  <1>7. CASE UNCHANGED vars
    BY <1>1, <1>7 DEF vars, tables, tasks, disk
  <1>8. CASE \/ \E r \in Reader : ReaderStep(r)
             \/ \E x \in Snap : Condemn(x) \/ PickTask(x)
    <2>1. UNCHANGED <<host, merge, local, data, raced>>
      BY <1>8 DEF ReaderStep, RestoreCreate, LockFile, LockFileWaited, RestoreDone, UnlockFiles,
           Condemn, CreateDeleteTask, Expire, PickTask, StartCollect, StartDelete, ResumeMerge,
           tables, tasks, disk
    <2> QED BY <1>1, <2>1
  <1>9. CASE \/ SetDeleting \/ CreateTask \/ UnlockFilesByPrefix \/ DeleteStep \/ ListMerge
             \/ SetMergedStage1 \/ Reparent \/ CreateDelete \/ CondemnNew \/ CollectNew
    <2>1. UNCHANGED <<host, merge, local, data, raced>>
      BY <1>9 DEF SetDeleting, CreateTask, UnlockFilesByPrefix, DeleteStep, SetMerged, Commit,
           ListDelete, LockForDelete, DeleteImage, UnlockAfterDelete, FinishDelete, SetDeleted,
           SetTaskFinished, ListMerge, SetMergedStage1, Reparent, CreateDelete, CondemnNew,
           CollectNew, tables, tasks, disk
    <2> QED BY <1>1, <2>1
  <1> QED BY <1>3, <1>4, <1>5, <1>6, <1>7, <1>8, <1>9 DEF Next, WorkerStep, MergeStep

(* A backup point that nobody condemned can be read back as it was when it was *)
(* taken: its chain is not merged, is on the disk and has all of its data, for *)
(* any number of points, backups, collections, merges and restarts.           *)
THEOREM KeptPointsReadable == Spec => []ChainIntact
  <1>1. TypeInv /\ TaskInv /\ PointInv /\ ChainInv => ChainIntact
    <2> SUFFICES ASSUME TypeInv, TaskInv, PointInv, ChainInv, worker.pc # "reparent",
                        NEW s \in Snap, Kept(s), data[s] \cap raced = {}
                 PROVE  ChainExists(s) /\ KeyNodes(s) \subseteq image /\ Readable(KeyNodes(s)) = data[s]
      BY DEF ChainIntact
    <2>1. Present(s)
      BY DEF Kept, TaskInv, RowSound, Present, Point
    <2>2. Sound(s)
      BY <2>1, PresentPoint DEF Sound, Live, Clean
    <2>3. /\ KeyNodes(s) \subseteq Snap /\ Content(KeyNodes(s)) = data[s]
          /\ \A k \in KeyNodes(s) : Present(k)
      BY <2>1, <2>2, KeyNodesYield
    <2>4. \A k \in KeyNodes(s) : k \in image /\ ~merged[k] /\ ~deleted[k]
      BY <2>3 DEF Present, Between, PointInv, PointSound, TaskInv, RowSound
    <2>5. ChainExists(s)
      BY <2>4 DEF ChainExists, FileExists
    <2>6. KeyNodes(s) \cap image = KeyNodes(s)
      BY <2>4
    <2> QED BY <2>3, <2>4, <2>5, <2>6 DEF Readable, Content
  <1> QED BY <1>1, TypesInvariant, TasksInvariant, PointsInvariant, ChainsInvariant, PTL

(* A merge that has finished has done all of it: the old snapshot is merged    *)
(* and has its delete task, and no kept point hangs on it.                    *)
THEOREM MergesComplete == Spec => []MergeDoesAll
  <1>1. TypeInv /\ TaskInv /\ PointInv /\ ChainInv => MergeDoesAll
    <2> SUFFICES ASSUME TypeInv, TaskInv, PointInv, ChainInv,
                        NEW s \in Snap, merge[s].stage = "finished"
                 PROVE  /\ merged[s] /\ (s \notin cut => del[s] # "none")
                        /\ \A x \in Snap : Kept(x) /\ data[x] \cap raced = {} => parent[x] # s
      BY DEF MergeDoesAll
    <2>1. merged[s]
      BY DEF TaskInv, MergeSound
    <2>2. ~(worker.snap = s /\ worker.pc \in {"reparent", "merge_delete"})
      BY DEF TaskInv, WorkerSound
    <2>3. s \notin cut => del[s] # "none"
      BY <2>1, <2>2 DEF TaskInv, DeleteKept
    <2>4. ASSUME NEW x \in Snap, Kept(x), data[x] \cap raced = {}, parent[x] = s PROVE FALSE
      <3>1. Present(x)
        BY <2>4 DEF Kept, TaskInv, RowSound, Present, Point
      <3>2. Sound(x)
        BY <2>4, <3>1, PresentPoint DEF Sound, Live, Clean
      <3>3. Present(s)
        BY <2>4, <3>2, NullAssumption DEF ChainInv, Linked
      <3> QED BY <2>1, <2>2, <3>3 DEF Present, Between
    <2> QED BY <2>1, <2>3, <2>4
  <1> QED BY <1>1, TypesInvariant, TasksInvariant, PointsInvariant, ChainsInvariant, PTL

(* What a restore knows of the chain it was given: these are points, and they  *)
(* hold the data of the one it restores.                                      *)
ReaderSound(r) ==
  LET t == reader[r].target
  IN  /\ reader[r].pc \in {"locking", "blocked", "using"} =>
           /\ t \in Snap /\ host[t] = "successful"
           /\ data[t] \cap raced = {} =>
                /\ \A k \in reader[r].chain : k \in Snap /\ Point(k)
                /\ Content(reader[r].chain) = data[t]
      /\ reader[r].pc = "using" => reader[r].locked = reader[r].chain
ReaderInv == \A r \in Reader : ReaderSound(r)

LEMMA ReaderKept ==
  ASSUME TypeInv, TaskInv, PointInv, [Next]_vars, NEW r \in Reader, ReaderSound(r),
         reader'[r].target = reader[r].target, reader'[r].chain = reader[r].chain,
         reader'[r].pc \in {"locking", "blocked", "using"} =>
           reader[r].pc \in {"locking", "blocked", "using"},
         reader'[r].pc = "using" => reader'[r].locked = reader[r].chain
  PROVE  ReaderSound(r)'
  <1> PICK t, C : t = reader[r].target /\ C = reader[r].chain
    OBVIOUS
  <1> SUFFICES ASSUME reader'[r].pc \in {"locking", "blocked", "using"}
               PROVE  /\ t \in Snap /\ host'[t] = "successful"
                      /\ data'[t] \cap raced' = {} =>
                           (\A k \in C : k \in Snap /\ Point(k)') /\ Content(C)' = data'[t]
    BY DEF ReaderSound
  <1>1. t \in Snap /\ host[t] = "successful" /\ Point(t)
    BY DEF ReaderSound, Point
  <1>2. host'[t] = "successful" /\ data'[t] = data[t] /\ raced \subseteq raced'
    BY <1>1, PointFixed
  <1>3. ASSUME data'[t] \cap raced' = {}
        PROVE  (\A k \in C : k \in Snap /\ Point(k)') /\ Content(C)' = data'[t]
    <2>1. (\A k \in C : k \in Snap /\ Point(k)) /\ Content(C) = data[t]
      BY <1>2, <1>3 DEF ReaderSound
    <2>2. \A k \in C : Point(k)' /\ local'[k] = local[k]
      BY <2>1, PointFixed
    <2>3. Content(C)' = Content(C)
      BY <2>2 DEF Content
    <2> QED BY <1>2, <2>1, <2>2, <2>3
  <1> QED BY <1>1, <1>2, <1>3

LEMMA ReaderStepSound ==
  ASSUME TypeInv, TaskInv, PointInv, ChainInv, NEW r \in Reader, ReaderStep(r), ReaderInv
  PROVE  ReaderInv'
  <1>0. /\ reader \in [Reader -> ReaderState] /\ [Next]_vars
        /\ UNCHANGED <<host, merge, local, data, raced>>
    BY DEF TypeInv, TypeOK, ClientsOK, Next, ReaderStep, RestoreCreate, LockFile, LockFileWaited,
           RestoreDone, UnlockFiles, tables, tasks, disk
  <1>1. ASSUME NEW x \in Reader, x # r PROVE ReaderSound(x)'
    <2>1. reader'[x] = reader[x]
      BY <1>0, <1>1 DEF ReaderStep, RestoreCreate, LockFile, LockFileWaited, AddReference,
                        RestoreDone, UnlockFiles
    <2> QED BY <1>0, <2>1, ReaderKept DEF ReaderInv, ReaderSound
  <1>2. CASE RestoreCreate(r)
    <2>1. PICK s \in row : /\ host[s] = "successful" /\ ~deleting[s]
                           /\ reader' = [reader EXCEPT ![r] =
                                [IdleReader EXCEPT !.pc = "locking", !.target = s, !.chain = KeyNodes(s)]]
      BY <1>2 DEF RestoreCreate
    <2>2. reader'[r].pc = "locking" /\ reader'[r].target = s /\ reader'[r].chain = KeyNodes(s)
      BY <1>0, <2>1 DEF IdleReader
    <2>3. s \in Snap /\ Present(s)
      BY <2>1, PointTypes DEF TaskInv, RowSound, Present, Point
    <2>4. ASSUME data[s] \cap raced = {}
          PROVE  (\A k \in KeyNodes(s) : k \in Snap /\ Point(k)) /\ Content(KeyNodes(s)) = data[s]
      <3>1. Sound(s)
        BY <2>3, <2>4, PresentPoint DEF Sound, Live, Clean
      <3> QED BY <2>3, <3>1, KeyNodesYield DEF Present
    <2>5. \A k \in Snap : Point(k)' <=> Point(k)
      BY <1>0 DEF Point, Made
    <2>6. \A K : Content(K)' = Content(K)
      BY <1>0 DEF Content
    <2>7. PICK K : K = KeyNodes(s)
      OBVIOUS
    <2>8. data'[s] \cap raced' = {} => (\A k \in K : k \in Snap /\ Point(k)') /\ Content(K)' = data'[s]
      BY <1>0, <2>4, <2>5, <2>6, <2>7
    <2>9. /\ reader'[r].pc = "locking" /\ reader'[r].target = s /\ reader'[r].chain = K
          /\ host'[s] = "successful"
      BY <1>0, <2>1, <2>2, <2>7
    <2>10. ReaderSound(r)'
      BY <2>3, <2>8, <2>9 DEF ReaderSound
    <2> QED BY <1>1, <2>10 DEF ReaderInv
  <1>3. CASE LockFile(r) \/ LockFileWaited(r) \/ RestoreDone(r) \/ UnlockFiles(r)
    <2>1. CASE UnlockFiles(r)
      <3>1. reader'[r] = IdleReader
        BY <1>0, <2>1 DEF UnlockFiles
      <3>2. ReaderSound(r)'
        BY <3>1 DEF ReaderSound, IdleReader
      <3> QED BY <1>1, <3>2 DEF ReaderInv
    <2>2. CASE LockFile(r) \/ LockFileWaited(r) \/ RestoreDone(r)
      <3>1. /\ reader'[r].target = reader[r].target /\ reader'[r].chain = reader[r].chain
            /\ reader[r].pc \in {"locking", "blocked", "using"}
            /\ reader'[r].pc = "using" => reader'[r].locked = reader[r].chain
        <4>1. CASE LockFile(r)
          <5>1. reader[r] \in ReaderState /\ reader[r].pc = "locking"
            BY <1>0, <4>1 DEF LockFile
          <5>2. PICK k : \/ reader' = [reader EXCEPT ![r].pc = "ending"]
                         \/ reader' = [reader EXCEPT ![r] = [@ EXCEPT !.pc = "blocked", !.wait = k]]
                         \/ AddReference(r, k, FALSE)
            BY <4>1 DEF LockFile
          <5>3. CASE AddReference(r, k, FALSE)
            BY <1>0, <5>1, <5>3 DEF AddReference, ReaderState
          <5>4. CASE \/ reader' = [reader EXCEPT ![r].pc = "ending"]
                     \/ reader' = [reader EXCEPT ![r] = [@ EXCEPT !.pc = "blocked", !.wait = k]]
            <6>1. \/ reader'[r] = [reader[r] EXCEPT !.pc = "ending"]
                  \/ reader'[r] = [reader[r] EXCEPT !.pc = "blocked", !.wait = k]
              BY <1>0, <5>4
            <6> QED BY <5>1, <6>1 DEF ReaderState
          <5> QED BY <5>2, <5>3, <5>4
        <4>2. CASE LockFileWaited(r)
          BY <1>0, <4>2 DEF LockFileWaited, AddReference, ReaderState
        <4>3. CASE RestoreDone(r)
          BY <1>0, <4>3 DEF RestoreDone, ReaderState
        <4> QED BY <2>2, <4>1, <4>2, <4>3
      <3>2. ReaderSound(r)'
        BY <1>0, <3>1, ReaderKept DEF ReaderInv
      <3> QED BY <1>1, <3>2 DEF ReaderInv
    <2> QED BY <1>3, <2>1, <2>2
  <1> QED BY <1>2, <1>3 DEF ReaderStep

LEMMA ReadersSound == Spec => []ReaderInv
  <1>1. Init => ReaderInv
    BY DEF Init, ReaderInv, ReaderSound, IdleReader
  <1>2. TypeInv /\ TaskInv /\ PointInv /\ ChainInv /\ ReaderInv /\ [Next]_vars => ReaderInv'
    <2> SUFFICES ASSUME TypeInv, TaskInv, PointInv, ChainInv, ReaderInv, [Next]_vars
                 PROVE  ReaderInv'
      OBVIOUS
    <2>1. CASE UNCHANGED reader
      <3> SUFFICES ASSUME NEW r \in Reader PROVE ReaderSound(r)'
        BY DEF ReaderInv
      <3> QED BY <2>1, ReaderKept DEF ReaderInv, ReaderSound
    <2>2. CASE Crash
      <3> SUFFICES ASSUME NEW r \in Reader PROVE ReaderSound(r)'
        BY DEF ReaderInv
      <3>1. reader[r] \in ReaderState
        BY DEF TypeInv, TypeOK, ClientsOK
      <3>2. reader'[r] = IF reader[r].pc \in {"locking", "blocked"}
                         THEN [reader[r] EXCEPT !.pc = "ending"] ELSE reader[r]
        BY <2>2 DEF Crash
      <3>3. /\ reader'[r].target = reader[r].target /\ reader'[r].chain = reader[r].chain
            /\ reader'[r].locked = reader[r].locked
            /\ reader'[r].pc \in {"locking", "blocked", "using"} => reader'[r].pc = reader[r].pc
        BY <3>1, <3>2 DEF ReaderState
      <3> QED BY <3>3, ReaderKept DEF ReaderInv, ReaderSound
    <2>3. CASE \E r \in Reader : ReaderStep(r)
      BY <2>3, ReaderStepSound
    <2>4. CASE BackupStep \/ (\E s \in Snap : Condemn(s) \/ PickTask(s)) \/ WorkerStep
      <3>1. UNCHANGED reader
        <4>1. CASE BackupStep
          BY <4>1 DEF BackupStep, BackupQuery, BackupCreate, BackupSend, BackupFinish
        <4>2. CASE \E s \in Snap : Condemn(s) \/ PickTask(s)
          BY <4>2 DEF Condemn, CreateDeleteTask, Expire, PickTask, StartCollect, StartDelete, ResumeMerge
        <4>3. CASE WorkerStep
          BY <4>3 DEF WorkerStep, SetDeleting, CreateTask, UnlockFilesByPrefix, DeleteStep,
             SetMerged, Commit, ListDelete, LockForDelete, DeleteImage, UnlockAfterDelete,
             FinishDelete, SetDeleted, SetTaskFinished, MergeStep, CreateMerge, ListMerge,
             RecreateNew, LockForMerge, MergeImage, UnlockAfterMerge, SetMergedStage1, Reparent,
             CreateDelete, ToStage2, FinishNew, CondemnNew, CollectNew, FinishMerge
        <4> QED BY <2>4, <4>1, <4>2, <4>3
      <3> QED BY <2>1, <3>1
    <2>5. CASE UNCHANGED vars
      BY <2>1, <2>5 DEF vars
    <2> QED BY <2>2, <2>3, <2>4, <2>5 DEF Next
  <1> QED BY <1>1, <1>2, TypesInvariant, TasksInvariant, PointsInvariant, ChainsInvariant, PTL DEF Spec

(* What a restore has locked stays on the disk until it is done, and is the    *)
(* content of the point it restores, for any number of restores that hold the *)
(* same files and whatever is collected meanwhile.                           *)
THEOREM RestoresStable == Spec => []RestoreStable
  <1>1. TypeInv /\ TaskInv /\ PointInv /\ ReaderInv /\ LockedNotMerged => RestoreStable
    <2> SUFFICES ASSUME TypeInv, TaskInv, PointInv, ReaderInv, LockedNotMerged, NEW r \in Reader,
                        reader[r].pc = "using", ~reader[r].late,
                        data[reader[r].target] \cap raced = {}
                 PROVE  /\ reader[r].chain \subseteq image
                        /\ Readable(reader[r].chain) = data[reader[r].target]
      BY DEF RestoreStable
    <2>1. /\ reader[r].locked = reader[r].chain
          /\ \A k \in reader[r].chain : k \in Snap /\ Point(k)
          /\ Content(reader[r].chain) = data[reader[r].target]
      BY DEF ReaderInv, ReaderSound
    <2>2. \A k \in reader[r].chain : Present(k)
      BY <2>1 DEF LockedNotMerged, Present
    <2>3. reader[r].chain \subseteq image
      BY <2>1, <2>2 DEF PointInv, PointSound
    <2>4. reader[r].chain \cap image = reader[r].chain
      BY <2>3
    <2> QED BY <2>1, <2>3, <2>4 DEF Readable, Content
  <1> QED BY <1>1, TypesInvariant, TasksInvariant, PointsInvariant, ReadersSound,
             LockedStaysUnmerged, PTL

-----------------------------------------------------------------------------
(* THE LOOP.  The order in which do_run walks its queries only restricts the   *)
(* steps, so the invariants hold under it.                                   *)

(* A task that the loop works on was returned by the query it is walking.    *)
LEMMA WorkableTask ==
  ASSUME NEW t, Workable(t)
  PROVE  t[1] \in Snap /\ (phase = "collect" => t[2] \in Slot)
  <1>1. t \in Unfinished(phase)
    BY DEF Workable
  <1>2. CASE phase = "delete"
    BY <1>1, <1>2 DEF Unfinished
  <1>3. CASE phase = "merge"
    BY <1>1, <1>3 DEF Unfinished
  <1>4. CASE phase = "collect"
    BY <1>1, <1>4 DEF Unfinished
  <1>5. CASE phase \notin {"delete", "merge", "collect"}
    BY <1>1, <1>5 DEF Unfinished
  <1> QED BY <1>2, <1>3, <1>4, <1>5

LEMMA VisitStep == Visit => Next \/ UNCHANGED vars
  <1> SUFFICES ASSUME NEW t \in todo,
                      IF Workable(t) THEN Start(t) ELSE UNCHANGED vars
               PROVE  Next \/ UNCHANGED vars
    BY DEF Visit
  <1>1. CASE ~Workable(t)
    BY <1>1
  <1>2. CASE Workable(t)
    <2>1. t[1] \in Snap /\ (phase = "collect" => t[2] \in Slot) /\ Start(t)
      BY <1>2, WorkableTask
    <2>2. PickTask(t[1])
      BY <2>1 DEF Start, PickTask
    <2> QED BY <2>1, <2>2 DEF Next
  <1> QED BY <1>1, <1>2

(* Every behaviour of the loop is a behaviour of SpaceCollection: what is     *)
(* checked and proved of the tasks in any order holds of the order in which  *)
(* do_run takes them.                                                        *)
THEOREM LoopImplements == LoopSpec => Spec
  <1>1. Init /\ LoopInit => Init
    OBVIOUS
  <1>2. [LoopNext]_loopvars => [Next]_vars
    <2> SUFFICES ASSUME [LoopNext]_loopvars PROVE Next \/ UNCHANGED vars
      OBVIOUS
    <2>1. CASE Visit
      BY <2>1, VisitStep
    <2>2. CASE Retain
      BY <2>2 DEF Retain, Next, Condemn
    <2>3. CASE NextQuery
      BY <2>3 DEF NextQuery
    <2>4. CASE Restart
      BY <2>4 DEF Restart, Next
    <2>5. CASE WorkerStep \/ Others
      BY <2>5 DEF Others, Next, Condemn
    <2>6. CASE UNCHANGED loopvars
      BY <2>6 DEF loopvars
    <2> QED BY <2>1, <2>2, <2>3, <2>4, <2>5, <2>6 DEF LoopNext
  <1> QED BY <1>1, <1>2, PTL DEF LoopSpec, Spec

(* In particular the loop never merges what a restore has locked.             *)
COROLLARY LoopLockedStaysUnmerged == LoopSpec => []LockedNotMerged
  BY LoopImplements, LockedStaysUnmerged, PTL

(* ... a kept point stays readable while the loop collects around it ...      *)
COROLLARY LoopKeepsPoints == LoopSpec => []ChainIntact
  BY LoopImplements, KeptPointsReadable, PTL

(* ... and whatever it has merged keeps its delete task.                      *)
COROLLARY LoopLeaksNothing == LoopSpec => []NothingLeaks
  BY LoopImplements, SpaceNotLost, PTL

=============================================================================
