------------------------- MODULE BackupRetry_proofs -------------------------
(***************************************************************************)
(* Theorems about BackupRetry, for any plans, users, counts and restarts.     *)
(***************************************************************************)
EXTENDS BackupRetry, TLAPS

-----------------------------------------------------------------------------
(* THE INDUCTIVE INVARIANT.                                                  *)

(* While a chain of counted failures goes on, the counter in the row of the    *)
(* plan is the number of its retries, the one whose date is set included; only  *)
(* one of the date, a start and a running backup carries the chain on.         *)
Pure(p)     == chain[p].of \in {"nothing", "failures"}
Starting(p) == sched.pc # "idle" /\ sched.plan = p
AtWork(p)   == work[p] \in {"running", "forced"}

Within(p) == plan[p].retries <= plan[p].retry.count

Tracked(p) ==
  /\ Within(p)
  /\ Pure(p) =>
       /\ chain[p].retry => chain[p].count + 1 = plan[p].retries
       /\ AtWork(p) \/ Starting(p) => ~ chain[p].retry /\ chain[p].count = plan[p].retries
       /\ ~ (AtWork(p) /\ Starting(p))
       /\ chain[p].count <= plan[p].retry.count
       /\ work[p] = "given_up" => ~ chain[p].retry /\ chain[p].count = plan[p].retry.count

CounterIsChain == \A p \in Plan : Tracked(p)

IInv == TypeOK /\ CounterIsChain /\ NeverForgotten

-----------------------------------------------------------------------------
(* THE OPERATIONS ON THE ROW OF A PLAN.                                      *)

LEMMA AnyIsPlan == AnyPlan \in Plan
  BY PlanAssumption DEF AnyPlan

LEMMA OptionsTyped ==
  ASSUME NEW o \in Options
  PROVE  o.enable \in BOOLEAN /\ o.count \in Nat
  BY CountAssumption DEF Options

LEMMA RowTyped ==
  ASSUME NEW row \in PlanRow
  PROVE  /\ row.once \in BOOLEAN /\ row.enabled \in BOOLEAN /\ row.next_run \in NextRun
         /\ row.retries \in Nat /\ row.retry \in Options
  BY DEF PlanRow

LEMMA DatesTyped ==
  /\ AfterEdit \subseteq NextRun \ {"none"}
  /\ \A row : row.next_run \in NextRun => AfterRun(row) \subseteq NextRun
  /\ \A row : row.next_run \in NextRun /\ ~ row.once => "none" \notin AfterRun(row)
  BY DEF AfterEdit, AfterRun, NextRun

(* What is written in one row. *)
LEMMA DateIsSet ==
  ASSUME TypeOK, NEW p \in Plan, NEW date \in NextRun, plan' = [plan EXCEPT ![p].next_run = date]
  PROVE  /\ plan' \in [Plan -> PlanRow]
         /\ \A q \in Plan \ {p} : plan'[q] = plan[q]
         /\ plan'[p].next_run = date /\ plan'[p].once = plan[p].once
         /\ plan'[p].retries = plan[p].retries /\ plan'[p].retry = plan[p].retry
  <1>1. plan[p] \in PlanRow
    BY DEF TypeOK
  <1>2. plan' = [plan EXCEPT ![p] = [plan[p] EXCEPT !.next_run = date]]
    OBVIOUS
  <1>3. plan'[p] = [plan[p] EXCEPT !.next_run = date] /\ \A q \in Plan \ {p} : plan'[q] = plan[q]
    BY <1>2 DEF TypeOK
  <1>4. [plan[p] EXCEPT !.next_run = date] \in PlanRow
    BY <1>1 DEF PlanRow
  <1>5. plan' \in [Plan -> PlanRow]
    BY <1>2, <1>4 DEF TypeOK
  <1> QED BY <1>1, <1>3, <1>5 DEF PlanRow

LEMMA CleanKeeps ==
  ASSUME TypeOK, NEW p \in Plan, Clean(p)
  PROVE  /\ plan' \in [Plan -> PlanRow]
         /\ \A q \in Plan \ {p} : plan'[q] = plan[q]
         /\ plan'[p].next_run = plan[p].next_run /\ plan'[p].once = plan[p].once
         /\ plan'[p].retries = 0 /\ plan'[p].retry = plan[p].retry
  <1>1. plan[p] \in PlanRow
    BY DEF TypeOK
  <1>2. plan' = [plan EXCEPT ![p] = [plan[p] EXCEPT !.retries = 0]]
    BY DEF Clean
  <1>3. plan'[p] = [plan[p] EXCEPT !.retries = 0] /\ \A q \in Plan \ {p} : plan'[q] = plan[q]
    BY <1>2 DEF TypeOK
  <1>4. [plan[p] EXCEPT !.retries = 0] \in PlanRow
    BY <1>1 DEF PlanRow
  <1>5. plan' \in [Plan -> PlanRow]
    BY <1>2, <1>4 DEF TypeOK
  <1> QED BY <1>1, <1>3, <1>5 DEF PlanRow

(* modify keeps the row well formed and the counter within its bound; it never  *)
(* takes a date away, and there is one when it answers "will retry".           *)
LEMMA ModifyKeeps ==
  ASSUME TypeOK, NEW p \in Plan, NEW check \in BOOLEAN, Modify(p, check)
  PROVE  /\ plan' \in [Plan -> PlanRow]
         /\ \A q \in Plan \ {p} : plan'[q] = plan[q]
         /\ plan'[p].once = plan[p].once /\ plan'[p].retry = plan[p].retry
         /\ plan[p].next_run # "none" \/ WillRetry(p, check) => plan'[p].next_run # "none"
         /\ Within(p) => Within(p)'
         /\ check => plan'[p].retries = IF Counted(p) THEN plan[p].retries + 1 ELSE 0
  <1>1. plan[p].retries + 1 \in Nat /\ plan[p] \in PlanRow
    BY DEF TypeOK, PlanRow
  <1>2. CASE ~ check /\ ~ RunsSoon(p)
    <2>1. plan' = [plan EXCEPT ![p].next_run = "soon"]
      BY <1>2 DEF Modify
    <2> QED BY <1>2, <2>1, DateIsSet DEF NextRun, Within
  <1>3. CASE ~ (~ check /\ ~ RunsSoon(p)) /\ Counted(p)
    <2> DEFINE row == [plan[p] EXCEPT !.next_run = "soon", !.retries = plan[p].retries + 1]
    <2>1. plan' = [plan EXCEPT ![p] = row]
      BY <1>3 DEF Modify
    <2>2. row \in PlanRow /\ row.next_run = "soon" /\ row.retries = plan[p].retries + 1
            /\ row.once = plan[p].once /\ row.retry = plan[p].retry
      BY <1>1 DEF PlanRow, NextRun
    <2> HIDE DEF row
    <2>3. plan' \in [Plan -> PlanRow] /\ plan'[p] = row /\ \A q \in Plan \ {p} : plan'[q] = plan[q]
      BY <2>1, <2>2 DEF TypeOK
    <2>4. plan[p].retries < plan[p].retry.count
      BY <1>3 DEF Counted
    <2>5. plan[p].retry.count \in Nat
      BY <1>1, OptionsTyped, RowTyped
    <2>6. plan'[p].retries = plan[p].retries + 1 /\ plan'[p].retry = plan[p].retry
            /\ plan'[p].next_run = "soon" /\ plan'[p].once = plan[p].once
      BY <2>2, <2>3
    <2>7. Within(p)'
      BY <1>1, <2>4, <2>5, <2>6, RowTyped DEF Within
    <2> QED BY <1>3, <2>3, <2>6, <2>7
  <1>4. CASE ~ (~ check /\ ~ RunsSoon(p)) /\ ~ Counted(p)
    <2>1. Clean(p)
      BY <1>4 DEF Modify, Clean
    <2>2. WillRetry(p, check) => plan[p].next_run # "none"
      BY <1>4 DEF WillRetry, RunsSoon
    <2>3. plan[p].retry.count \in Nat
      BY <1>1, OptionsTyped, RowTyped
    <2> QED BY <1>4, <2>1, <2>2, <2>3, CleanKeeps DEF Within
  <1> QED BY <1>2, <1>3, <1>4

(* What is written in the history of one plan. *)
LEMMA ChainIsSet ==
  ASSUME TypeOK, NEW p \in Plan, NEW retry \in BOOLEAN, NEW count \in Nat, NEW of \in ChainOf,
         SetChain(p, retry, count, of)
  PROVE  /\ chain' \in [Plan -> Link]
         /\ \A q \in Plan \ {p} : chain'[q] = chain[q]
         /\ chain'[p].retry = retry /\ chain'[p].count = count /\ chain'[p].of = of
  BY DEF TypeOK, SetChain, Link

LEMMA LinkTyped ==
  ASSUME TypeOK, NEW p \in Plan
  PROVE  /\ chain[p].retry \in BOOLEAN /\ chain[p].count \in Nat /\ chain[p].of \in ChainOf
         /\ Continues(p, "failures") \in ChainOf
         /\ Continues(p, "refusals") \in {"refusals", "mixture"}
         /\ \A check \in BOOLEAN : Brought(p, check) \in BOOLEAN
  <1>1. chain[p].retry \in BOOLEAN /\ chain[p].count \in Nat /\ chain[p].of \in ChainOf
    BY DEF TypeOK, Link
  <1>2. \A check \in BOOLEAN : Brought(p, check) \in BOOLEAN
    BY DEF Brought, Counted, RunsSoon
  <1> QED BY <1>1, <1>2 DEF Continues, ChainOf

LEMMA ChainDisturbed ==
  ASSUME TypeOK, NEW p \in Plan, NEW retry \in BOOLEAN, Disturbed(p, retry) \/ Refused(p, retry)
  PROVE  /\ chain' \in [Plan -> Link]
         /\ \A q \in Plan \ {p} : chain'[q] = chain[q]
         /\ chain'[p].of \in {"refusals", "mixture"}
  BY ChainIsSet, LinkTyped DEF Disturbed, Refused, ChainOf

-----------------------------------------------------------------------------
(* EACH CONJUNCT IS PRESERVED.                                               *)

LEMMA InitHolds == Init => IInv
  <1> SUFFICES ASSUME Init PROVE IInv
    OBVIOUS
  <1>1. plan \in [Plan -> PlanRow]
    <2>1. [enabled : {TRUE}, once : BOOLEAN, next_run : {"later"}, retries : {0}, retry : Options]
            \subseteq PlanRow
      <3>1. {TRUE} \subseteq BOOLEAN /\ {"later"} \subseteq NextRun /\ {0} \subseteq Nat
        BY DEF NextRun
      <3> QED BY <3>1 DEF PlanRow
    <2> QED BY <2>1 DEF Init
  <1>2. TypeOK
    BY <1>1, BoundAssumption, AnyIsPlan
    DEF Init, TypeOK, NextRun, WorkAt, SchedAt, ChainOf, CallerAt, Nothing, Call, Link
  <1>3. ASSUME NEW p \in Plan PROVE Tracked(p)
    <2>1. plan[p].retries = 0 /\ plan[p].retry.count \in Nat /\ chain[p].of = "mixture"
      BY OptionsTyped DEF Init
    <2> QED BY <2>1 DEF Tracked, Within, Pure
  <1>4. NeverForgotten
    BY DEF Init, NeverForgotten
  <1> QED BY <1>2, <1>3, <1>4 DEF IInv, CounterIsChain

LEMMA TypeHolds == TypeOK /\ [Next]_vars => TypeOK'
  <1> SUFFICES ASSUME TypeOK, [Next]_vars PROVE TypeOK'
    OBVIOUS
  <1> USE DEF TypeOK, history
  <1>0. \A c \in User : caller[c].pc \in CallerAt /\ caller[c].plan \in Plan
                        /\ caller[c].once \in BOOLEAN /\ caller[c].next_run \in NextRun
    BY DEF Call
  <1>a. Nothing \in Call
    BY AnyIsPlan DEF Nothing, Call, CallerAt, NextRun
  <1>1. CASE SchedStep
    <2>1. CASE BeginPass
      BY <2>1 DEF BeginPass, SchedAt
    <2>2. CASE CreateAuto
      BY <2>2 DEF CreateAuto, SchedAt, WorkAt
    <2>3. CASE RefuseAuto \/ RefuseAgain
      BY <2>3, ModifyKeeps, ChainDisturbed, LinkTyped DEF RefuseAuto, RefuseAgain, SchedAt
    <2>4. ASSUME NEW p \in Plan, StartAuto(p) PROVE TypeOK'
      <3>1. plan' \in [Plan -> PlanRow]
        <4>1. PICK date \in AfterRun(plan[p]) : plan' = [plan EXCEPT ![p].next_run = date]
          BY <2>4 DEF StartAuto
        <4>2. date \in NextRun
          BY <4>1, DatesTyped, RowTyped
        <4> QED BY <4>1, <4>2, DateIsSet
      <3>2. chain' \in [Plan -> Link]
        <4>1. PICK retry \in BOOLEAN, count \in Nat, of \in ChainOf : SetChain(p, retry, count, of)
          <5>1. chain[p].count + 1 \in Nat
            BY LinkTyped
          <5>2. CASE chain[p].retry
            <6> DEFINE early == plan[p].next_run \in {"later", "soon"}
                       count == IF chain[p].count > plan[p].retry.count THEN chain[p].count
                                ELSE chain[p].count + 1
                       of == IF early THEN "mixture" ELSE chain[p].of
            <6>1. early \in BOOLEAN /\ count \in Nat /\ of \in ChainOf
              BY <5>1, LinkTyped DEF ChainOf
            <6>2. SetChain(p, early, count, of)
              BY <2>4, <5>2 DEF StartAuto
            <6> QED BY <6>1, <6>2
          <5>3. CASE ~ chain[p].retry
            <6>1. {"nothing", "mixture"} \subseteq ChainOf /\ 0 \in Nat /\ FALSE \in BOOLEAN
              BY DEF ChainOf
            <6>2. SetChain(p, FALSE, 0, IF plan[p].retries = 0 /\ work[p] = "none" /\ p \notin cleaning
                                         THEN "nothing" ELSE "mixture")
              BY <2>4, <5>3 DEF StartAuto
            <6> QED BY <6>1, <6>2
          <5> QED BY <5>2, <5>3
        <4> QED BY <4>1, ChainIsSet
      <3> QED BY <2>4, <3>1, <3>2 DEF StartAuto, SchedAt
    <2> QED BY <1>1, <2>1, <2>2, <2>3, <2>4 DEF SchedStep
  <1>2. ASSUME NEW c \in User, UserStep(c) PROVE TypeOK'
    <2>1. ASSUME NEW p \in Plan, StartManual(c, p) PROVE TypeOK'
      <3>1. [pc |-> "starting", plan |-> p, once |-> plan[p].once, next_run |-> plan[p].next_run] \in Call
        BY RowTyped DEF Call, CallerAt
      <3> QED BY <2>1, <3>1 DEF StartManual
    <2>2. CASE CreateManual(c)
      <3>1. caller' \in [User -> Call]
        BY <1>0, <2>2 DEF CreateManual, Call, CallerAt
      <3> QED BY <1>0, <2>2, <3>1, ChainDisturbed, LinkTyped DEF CreateManual, WorkAt
    <2>3. CASE RefuseManual(c)
      BY <1>0, <1>a, <2>3, ModifyKeeps, ChainDisturbed, LinkTyped DEF RefuseManual
    <2>4. CASE RecordRun(c)
      <3>1. PICK date \in AfterRun(caller[c]) :
              /\ plan' = [plan EXCEPT ![caller[c].plan].next_run = date]
              /\ erased' \in {erased, erased \cup {caller[c].plan}}
        BY <2>4 DEF RecordRun
      <3>2. date \in NextRun
        BY <1>0, <3>1, DatesTyped
      <3>3. plan' \in [Plan -> PlanRow]
        BY <1>0, <3>1, <3>2, DateIsSet
      <3> QED BY <1>0, <1>a, <2>4, <3>1, <3>3, ChainDisturbed DEF RecordRun
    <2> QED BY <1>2, <2>1, <2>2, <2>3, <2>4 DEF UserStep
  <1>3. ASSUME NEW p \in Plan, EditPlan(p) \/ TogglePlan(p) PROVE TypeOK'
    <2>1. chain' \in [Plan -> Link]
      BY <1>3, ChainIsSet DEF EditPlan, TogglePlan, ChainOf
    <2>2. plan' \in [Plan -> PlanRow]
      <3>1. PICK row \in PlanRow : plan' = [plan EXCEPT ![p] = row]
        <4>1. CASE EditPlan(p)
          <5>1. PICK once \in BOOLEAN, date \in AfterEdit, retry \in Options :
                  plan' = [plan EXCEPT ![p] = [enabled |-> plan[p].enabled, once |-> once,
                             next_run |-> date, retries |-> 0, retry |-> retry]]
            BY <4>1 DEF EditPlan
          <5>2. [enabled |-> plan[p].enabled, once |-> once, next_run |-> date, retries |-> 0,
                 retry |-> retry] \in PlanRow
            BY DatesTyped, RowTyped DEF PlanRow
          <5> QED BY <5>1, <5>2
        <4>2. CASE TogglePlan(p)
          <5>1. PICK date \in AfterEdit : plan' = [plan EXCEPT ![p].enabled = ~ @, ![p].next_run = date]
            BY <4>2 DEF TogglePlan
          <5>2. plan' = [plan EXCEPT ![p] = [plan[p] EXCEPT !.enabled = ~ plan[p].enabled, !.next_run = date]]
            BY <5>1
          <5>3. [plan[p] EXCEPT !.enabled = ~ plan[p].enabled, !.next_run = date] \in PlanRow
            BY DatesTyped DEF PlanRow
          <5> QED BY <5>2, <5>3
        <4> QED BY <1>3, <4>1, <4>2
      <3> QED BY <3>1
    <2> QED BY <1>3, <2>1, <2>2 DEF EditPlan, TogglePlan
  <1>4. ASSUME NEW p \in Plan, WorkStep(p) PROVE TypeOK'
    <2>1. CASE Fail(p)
      <3>1. PICK check \in BOOLEAN :
              /\ Modify(p, check)
              /\ \/ SetChain(p, Brought(p, TRUE), chain[p].count, Continues(p, "failures"))
                 \/ Disturbed(p, Brought(p, check))
        BY <2>1 DEF Fail
      <3>2. plan' \in [Plan -> PlanRow]
        BY <3>1, ModifyKeeps
      <3>3. chain' \in [Plan -> Link]
        BY <3>1, ChainIsSet, ChainDisturbed, LinkTyped
      <3>4. work' \in [Plan -> WorkAt] /\ silent' \subseteq Plan /\ erased' \subseteq Plan
        BY <2>1 DEF Fail, WorkAt
      <3> QED BY <2>1, <3>2, <3>3, <3>4 DEF Fail
    <2>2. CASE Cancelled(p) \/ CleanRetries(p)
      BY <2>2, CleanKeeps, ChainDisturbed, LinkTyped DEF Cancelled, CleanRetries, WorkAt
    <2>3. CASE Finish(p) \/ Succeed(p)
      BY <2>3 DEF Finish, Succeed, WorkAt
    <2>4. CASE ForceFull(p)
      BY <2>4, DateIsSet, ChainDisturbed DEF ForceFull, NextRun, WorkAt
    <2> QED BY <1>4, <2>1, <2>2, <2>3, <2>4 DEF WorkStep
  <1>5. ASSUME NEW p \in Plan, Tick(p) PROVE TypeOK'
    <2>1. \A date \in NextRun : Closer(date) \in NextRun
      BY DEF Closer, NextRun
    <2>2. plan' \in [Plan -> PlanRow]
      BY <1>5, <2>1, DateIsSet, RowTyped DEF Tick
    <2>3. \A c \in User : [caller[c] EXCEPT !.next_run = Closer(@)] \in Call
      BY <2>1 DEF Call
    <2> QED BY <1>5, <2>2, <2>3 DEF Tick
  <1>6. CASE Restart
    <2>1. chain' \in [Plan -> Link]
      BY <1>6 DEF Restart, Link, ChainOf
    <2>2. caller' \in [User -> Call] /\ work' \in [Plan -> WorkAt]
      BY <1>6, <1>a DEF Restart, WorkAt
    <2>3. sched' \in [pc : SchedAt, todo : SUBSET Plan, plan : Plan]
      BY <1>6 DEF Restart, SchedAt
    <2> QED BY <1>6, <2>1, <2>2, <2>3, BoundAssumption DEF Restart
  <1>7. CASE UNCHANGED vars
    BY <1>7 DEF vars
  <1> QED BY <1>1, <1>2, <1>3, <1>4, <1>5, <1>6, <1>7 DEF Next

(* Two ways to keep what is known of the counter of a plan: nothing it is about  *)
(* changes, or the chain is no longer one of counted failures.                 *)
LEMMA SameTracked ==
  ASSUME NEW p \in Plan, Tracked(p),
         plan'[p].retries = plan[p].retries, plan'[p].retry = plan[p].retry,
         chain'[p] = chain[p], work'[p] = work[p], Starting(p)' => Starting(p)
  PROVE  Tracked(p)'
  BY DEF Tracked, Within, Pure, AtWork

LEMMA DisturbedTracked ==
  ASSUME NEW p \in Plan, Within(p)', chain'[p].of \in {"refusals", "mixture"}
  PROVE  Tracked(p)'
  BY DEF Tracked, Pure

(* The end of a chain of failures, or one more. *)
LEMMA FailTracked ==
  ASSUME TypeOK, NEW p \in Plan, Tracked(p), AtWork(p), sched' = sched,
         Modify(p, TRUE), ~ RunsSoon(p),
         SetChain(p, Brought(p, TRUE), chain[p].count, Continues(p, "failures")),
         work'[p] = IF WillRetry(p, TRUE) THEN "retried" ELSE "given_up"
  PROVE  Tracked(p)'
  <1> DEFINE n == plan[p].retries
             m == plan[p].retry.count
  <1>1. n \in Nat /\ m \in Nat /\ n <= m
    BY OptionsTyped DEF TypeOK, PlanRow, Tracked, Within
  <1>2. Counted(p) <=> n < m
    BY DEF Counted
  <1>3. plan'[p].retry = plan[p].retry /\ plan'[p].retries = IF Counted(p) THEN n + 1 ELSE 0
    BY ModifyKeeps
  <1>4. /\ chain'[p].retry = Brought(p, TRUE) /\ chain'[p].count = chain[p].count
        /\ chain'[p].of = Continues(p, "failures")
    BY DEF SetChain, TypeOK
  <1>5. work'[p] = IF Counted(p) THEN "retried" ELSE "given_up"
    BY DEF WillRetry
  <1>6. ~ AtWork(p)' /\ (Starting(p)' <=> Starting(p))
    BY <1>5 DEF AtWork, Starting
  <1>7. CASE ~ Pure(p)
    <2>1. ~ Pure(p)'
      BY <1>4, <1>7 DEF Pure, Continues
    <2>2. Within(p)'
      BY <1>1, <1>2, <1>3 DEF Within
    <2> QED BY <2>1, <2>2 DEF Tracked
  <1>8. CASE Pure(p)
    <2>1. ~ chain[p].retry /\ chain[p].count = n /\ ~ Starting(p)
      BY <1>8 DEF Tracked
    <2>2. chain'[p].retry <=> Counted(p)
      BY <1>4, <2>1 DEF Brought
    <2>3. CASE Counted(p)
      <3>1. work'[p] = "retried" /\ plan'[p].retries = n + 1 /\ n < m /\ plan'[p].retry.count = m
        BY <1>2, <1>3, <1>5, <2>3
      <3>2. chain'[p].count = n
        BY <1>4, <2>1
      <3>3. Within(p)' /\ chain'[p].count + 1 = plan'[p].retries /\ chain'[p].count <= plan'[p].retry.count
        BY <1>1, <3>1, <3>2 DEF Within
      <3> QED BY <1>6, <2>1, <3>1, <3>3 DEF Tracked
    <2>4. CASE ~ Counted(p)
      <3>1. plan'[p].retries = 0 /\ plan'[p].retry.count = m /\ n = m /\ ~ chain'[p].retry
        BY <1>1, <1>2, <1>3, <2>2, <2>4
      <3>2. chain'[p].count = m
        BY <1>4, <2>1, <3>1
      <3>3. Within(p)' /\ chain'[p].count <= plan'[p].retry.count
        BY <1>1, <3>1, <3>2 DEF Within
      <3> QED BY <1>6, <2>1, <3>1, <3>2, <3>3 DEF Tracked
    <2> QED BY <2>3, <2>4
  <1> QED BY <1>7, <1>8

(* A start at the date of a retry, or a new chain.                           *)
LEMMA StartTracked ==
  ASSUME TypeOK, NEW p \in Plan, Tracked(p), StartAuto(p)
  PROVE  Tracked(p)'
  <1> DEFINE n == plan[p].retries
             m == plan[p].retry.count
             early == plan[p].next_run \in {"later", "soon"}
  <1>1. n \in Nat /\ m \in Nat /\ n <= m
    BY OptionsTyped DEF TypeOK, PlanRow, Tracked, Within
  <1>2. plan'[p].retries = n /\ plan'[p].retry = plan[p].retry
    <2>1. PICK date \in AfterRun(plan[p]) : plan' = [plan EXCEPT ![p].next_run = date]
      BY DEF StartAuto
    <2>2. date \in NextRun
      BY <2>1, DatesTyped, RowTyped DEF TypeOK
    <2> QED BY <2>1, <2>2, DateIsSet
  <1>3. work' = work /\ Within(p)'
    BY <1>1, <1>2 DEF StartAuto, Within
  <1>4. CASE chain[p].retry
    <2> DEFINE count == IF chain[p].count > m THEN chain[p].count ELSE chain[p].count + 1
               of == IF early THEN "mixture" ELSE chain[p].of
    <2>0. chain[p].count \in Nat /\ chain[p].of \in ChainOf
      BY LinkTyped
    <2>1. SetChain(p, early, count, of)
      BY <1>4 DEF StartAuto
    <2>2. count \in Nat /\ of \in ChainOf /\ early \in BOOLEAN
      BY <1>1, <2>0 DEF ChainOf
    <2> HIDE DEF count, of
    <2>3. chain'[p].retry = early /\ chain'[p].count = count /\ chain'[p].of = of
      BY <2>1, <2>2, ChainIsSet
    <2> USE DEF count, of
    <2>4. CASE early \/ ~ Pure(p)
      <3>1. ~ Pure(p)'
        BY <2>3, <2>4 DEF Pure
      <3> QED BY <1>3, <3>1 DEF Tracked
    <2>5. CASE ~ early /\ Pure(p)
      <3>1. chain[p].count + 1 = n /\ ~ AtWork(p) /\ work[p] # "given_up"
        BY <1>4, <2>5 DEF Tracked
      <3>2. chain'[p].count = n
        BY <1>1, <2>0, <2>3, <3>1
      <3>3. ~ AtWork(p)' /\ work'[p] # "given_up"
        BY <1>3, <3>1 DEF AtWork
      <3> QED BY <1>1, <1>2, <1>3, <2>3, <2>5, <3>2, <3>3 DEF Tracked
    <2> QED BY <2>4, <2>5
  <1>5. CASE ~ chain[p].retry
    <2> DEFINE of == IF n = 0 /\ work[p] = "none" /\ p \notin cleaning THEN "nothing" ELSE "mixture"
    <2>1. SetChain(p, FALSE, 0, of)
      BY <1>5 DEF StartAuto
    <2>2. of \in ChainOf
      BY DEF ChainOf
    <2> HIDE DEF of
    <2>3. chain'[p].retry = FALSE /\ chain'[p].count = 0 /\ chain'[p].of = of
      BY <2>1, <2>2, ChainIsSet
    <2> USE DEF of
    <2>4. CASE n = 0 /\ work[p] = "none"
      <3>1. ~ AtWork(p)' /\ work'[p] # "given_up"
        BY <1>3, <2>4 DEF AtWork
      <3> QED BY <1>1, <1>2, <1>3, <2>3, <2>4, <3>1 DEF Tracked
    <2>5. CASE ~ (n = 0 /\ work[p] = "none")
      BY <1>3, <2>3, <2>5 DEF Tracked, Pure
    <2> QED BY <2>4, <2>5
  <1> QED BY <1>4, <1>5

LEMMA ChainHolds == TypeOK /\ CounterIsChain /\ [Next]_vars => CounterIsChain'
  <1> SUFFICES ASSUME TypeOK, CounterIsChain, [Next]_vars, NEW p \in Plan PROVE Tracked(p)'
    BY DEF CounterIsChain
  <1> USE DEF TypeOK, history
  <1>0. Tracked(p) /\ Within(p)
    BY DEF CounterIsChain, Tracked
  <1>a. \A q \in Plan, retry \in BOOLEAN : Disturbed(q, retry) \/ Refused(q, retry) =>
          IF q = p THEN chain'[p].of \in {"refusals", "mixture"} ELSE chain'[p] = chain[p]
    BY ChainDisturbed
  <1>b. \A q \in Plan, check \in BOOLEAN : Modify(q, check) =>
          IF q = p THEN Within(p)' ELSE plan'[p] = plan[p]
    BY <1>0, ModifyKeeps
  <1>c. \A q \in Plan, date \in NextRun : plan' = [plan EXCEPT ![q].next_run = date] =>
          plan'[p].retries = plan[p].retries /\ plan'[p].retry = plan[p].retry
    BY DateIsSet
  <1>d. \A q \in Plan, check \in BOOLEAN : Brought(q, check) \in BOOLEAN /\ chain[q].retry \in BOOLEAN
    BY LinkTyped
  <1>1. CASE SchedStep
    <2>1. CASE BeginPass
      BY <1>0, <2>1, SameTracked DEF BeginPass, Starting
    <2>2. CASE CreateAuto
      <3>1. CASE sched.plan = p
        <4>1. sched'.pc = "idle" /\ Starting(p) /\ work[p] = "none" /\ work'[p] = "running"
          BY <2>2, <3>1 DEF CreateAuto, Starting
        <4>2. plan' = plan /\ chain' = chain /\ AtWork(p)' /\ ~ Starting(p)'
          BY <2>2, <4>1 DEF CreateAuto, AtWork, Starting
        <4> QED BY <1>0, <4>1, <4>2 DEF Tracked, Within, Pure
      <3>2. CASE sched.plan # p
        BY <1>0, <2>2, <3>2, SameTracked DEF CreateAuto, Starting
      <3> QED BY <3>1, <3>2
    <2>3. CASE RefuseAuto \/ RefuseAgain
      <3>1. /\ IF sched.plan = p THEN chain'[p].of \in {"refusals", "mixture"} ELSE chain'[p] = chain[p]
            /\ IF sched.plan = p THEN Within(p)' ELSE plan'[p] = plan[p]
        BY <1>a, <1>b, <1>d, <2>3 DEF RefuseAuto, RefuseAgain
      <3>2. CASE sched.plan = p
        BY <3>1, <3>2, DisturbedTracked
      <3>3. CASE sched.plan # p
        <4>1. work' = work /\ ~ Starting(p)'
          BY <2>3, <3>3 DEF RefuseAuto, RefuseAgain, Starting
        <4> QED BY <1>0, <3>1, <3>3, <4>1, SameTracked
      <3> QED BY <3>2, <3>3
    <2>4. ASSUME NEW q \in Plan, StartAuto(q) PROVE Tracked(p)'
      <3>1. CASE q = p
        BY <1>0, <2>4, <3>1, StartTracked
      <3>2. CASE q # p
        <4>1. plan'[p] = plan[p] /\ chain'[p] = chain[p] /\ work' = work /\ ~ Starting(p)'
          BY <2>4, <3>2 DEF StartAuto, SetChain, Starting
        <4> QED BY <1>0, <4>1, SameTracked
      <3> QED BY <3>1, <3>2
    <2> QED BY <1>1, <2>1, <2>2, <2>3, <2>4 DEF SchedStep
  <1>2. ASSUME NEW c \in User, UserStep(c) PROVE Tracked(p)'
    <2>0. caller[c].plan \in Plan
      BY DEF Call
    <2>1. ASSUME NEW q \in Plan, StartManual(c, q) PROVE Tracked(p)'
      BY <1>0, <2>1, SameTracked DEF StartManual, Starting
    <2>2. CASE CreateManual(c)
      <3>1. /\ IF caller[c].plan = p THEN chain'[p].of \in {"refusals", "mixture"} ELSE chain'[p] = chain[p]
            /\ plan' = plan
        BY <1>a, <1>d, <2>0, <2>2 DEF CreateManual
      <3>2. CASE caller[c].plan = p
        <4>1. Within(p)'
          BY <1>0, <3>1 DEF Within
        <4> QED BY <3>1, <3>2, <4>1, DisturbedTracked
      <3>3. CASE caller[c].plan # p
        <4>1. work'[p] = work[p] /\ Starting(p)' = Starting(p)
          BY <2>0, <2>2, <3>3 DEF CreateManual, Starting
        <4> QED BY <1>0, <3>1, <3>3, <4>1, SameTracked
      <3> QED BY <3>2, <3>3
    <2>3. CASE RefuseManual(c)
      <3>1. /\ IF caller[c].plan = p THEN chain'[p].of \in {"refusals", "mixture"} ELSE chain'[p] = chain[p]
            /\ IF caller[c].plan = p THEN Within(p)' ELSE plan'[p] = plan[p]
        BY <1>a, <1>b, <1>d, <2>0, <2>3 DEF RefuseManual
      <3>2. CASE caller[c].plan = p
        BY <3>1, <3>2, DisturbedTracked
      <3>3. CASE caller[c].plan # p
        <4>1. work' = work /\ Starting(p)' = Starting(p)
          BY <2>3 DEF RefuseManual, Starting
        <4> QED BY <1>0, <3>1, <3>3, <4>1, SameTracked
      <3> QED BY <3>2, <3>3
    <2>4. CASE RecordRun(c)
      <3>1. PICK date \in AfterRun(caller[c]) : plan' = [plan EXCEPT ![caller[c].plan].next_run = date]
        BY <2>4 DEF RecordRun
      <3>2. date \in NextRun
        BY <3>1, DatesTyped DEF Call
      <3>3. plan'[p].retries = plan[p].retries /\ plan'[p].retry = plan[p].retry
        BY <1>c, <2>0, <3>1, <3>2
      <3>4. IF caller[c].plan = p THEN chain'[p].of \in {"refusals", "mixture"} ELSE chain'[p] = chain[p]
        BY <1>a, <2>0, <2>4 DEF RecordRun
      <3>5. CASE caller[c].plan = p
        <4>1. Within(p)'
          BY <1>0, <3>3 DEF Within
        <4> QED BY <3>4, <3>5, <4>1, DisturbedTracked
      <3>6. CASE caller[c].plan # p
        <4>1. work' = work /\ Starting(p)' = Starting(p)
          BY <2>4 DEF RecordRun, Starting
        <4> QED BY <1>0, <3>3, <3>4, <3>6, <4>1, SameTracked
      <3> QED BY <3>5, <3>6
    <2> QED BY <1>2, <2>1, <2>2, <2>3, <2>4 DEF UserStep
  <1>3. ASSUME NEW q \in Plan, EditPlan(q) \/ TogglePlan(q) PROVE Tracked(p)'
    <2>1. CASE q # p
      <3>1. plan'[p] = plan[p] /\ chain'[p] = chain[p] /\ work' = work /\ sched' = sched
        BY <1>3, <2>1 DEF EditPlan, TogglePlan, SetChain
      <3> QED BY <1>0, <3>1, SameTracked DEF Starting
    <2>2. CASE q = p
      <3>1. chain'[p].of = "mixture"
        BY <1>3, <2>2, ChainIsSet DEF EditPlan, TogglePlan, ChainOf
      <3>2. Within(p)'
        <4>1. CASE EditPlan(p)
          <5>1. PICK once \in BOOLEAN, date \in AfterEdit, retry \in Options :
                  plan' = [plan EXCEPT ![p] = [enabled |-> plan[p].enabled, once |-> once,
                             next_run |-> date, retries |-> 0, retry |-> retry]]
            BY <4>1 DEF EditPlan
          <5>2. plan'[p].retries = 0 /\ plan'[p].retry = retry
            BY <5>1
          <5>3. 0 <= retry.count
            BY OptionsTyped
          <5> QED BY <5>2, <5>3 DEF Within
        <4>2. CASE TogglePlan(p)
          <5>1. plan'[p].retries = plan[p].retries /\ plan'[p].retry = plan[p].retry
            BY <4>2 DEF TogglePlan, PlanRow
          <5> QED BY <1>0, <5>1 DEF Within
        <4> QED BY <1>3, <2>2, <4>1, <4>2
      <3> QED BY <3>1, <3>2 DEF Tracked, Pure
    <2> QED BY <2>1, <2>2
  <1>4. ASSUME NEW q \in Plan, WorkStep(q) PROVE Tracked(p)'
    <2>1. CASE Fail(q)
      <3>1. PICK check \in BOOLEAN :
              /\ Modify(q, check)
              /\ IF check /\ ~ RunsSoon(q)
                   THEN SetChain(q, Brought(q, TRUE), chain[q].count, Continues(q, "failures"))
                   ELSE Disturbed(q, Brought(q, check))
              /\ work' = [work EXCEPT ![q] = IF WillRetry(q, check) THEN "retried" ELSE "given_up"]
        BY <2>1 DEF Fail
      <3>2. CASE q # p
        <4>1. plan'[p] = plan[p]
          BY <3>1, <3>2, ModifyKeeps
        <4>2. chain'[p] = chain[p]
          BY <3>1, <3>2 DEF Disturbed, SetChain
        <4>3. work'[p] = work[p] /\ sched' = sched
          BY <2>1, <3>1, <3>2 DEF Fail
        <4> QED BY <1>0, <4>1, <4>2, <4>3, SameTracked DEF Starting
      <3>3. CASE q = p /\ ~ (check /\ ~ RunsSoon(q))
        <4>1. chain'[p].of \in {"refusals", "mixture"} /\ Within(p)'
          BY <1>a, <1>b, <1>d, <3>1, <3>3
        <4> QED BY <4>1, DisturbedTracked
      <3>4. CASE q = p /\ check /\ ~ RunsSoon(q)
        <4>1. AtWork(p) /\ sched' = sched
          BY <2>1, <3>4 DEF Fail, AtWork
        <4>2. /\ Modify(p, TRUE)
              /\ SetChain(p, Brought(p, TRUE), chain[p].count, Continues(p, "failures"))
              /\ work'[p] = IF WillRetry(p, TRUE) THEN "retried" ELSE "given_up"
          <5>1. check = TRUE
            BY <3>4
          <5> QED BY <3>1, <3>4, <5>1
        <4> QED BY <1>0, <3>4, <4>1, <4>2, FailTracked
      <3> QED BY <3>2, <3>3, <3>4
    <2>2. CASE Cancelled(q) \/ CleanRetries(q)
      <3>1. IF q = p THEN chain'[p].of \in {"refusals", "mixture"} ELSE chain'[p] = chain[p]
        BY <1>a, <1>d, <2>2 DEF Cancelled, CleanRetries
      <3>2. Clean(q)
        BY <2>2 DEF Cancelled, CleanRetries
      <3>3. CASE q = p
        <4>1. plan'[p].retries = 0 /\ plan'[p].retry = plan[p].retry
          BY <3>2, <3>3, CleanKeeps
        <4>2. 0 <= plan[p].retry.count
          BY OptionsTyped, RowTyped
        <4>3. Within(p)'
          BY <4>1, <4>2 DEF Within
        <4> QED BY <3>1, <3>3, <4>3, DisturbedTracked
      <3>4. CASE q # p
        <4>1. plan'[p] = plan[p] /\ work'[p] = work[p] /\ Starting(p)' = Starting(p)
          BY <2>2, <3>2, <3>4, CleanKeeps DEF Cancelled, CleanRetries, Starting
        <4> QED BY <1>0, <3>1, <3>4, <4>1, SameTracked
      <3> QED BY <3>3, <3>4
    <2>3. CASE Finish(q) \/ Succeed(q)
      BY <1>0, <2>3 DEF Finish, Succeed, Tracked, Within, Pure, AtWork, Starting
    <2>4. CASE ForceFull(q)
      <3>1. plan'[p].retries = plan[p].retries /\ plan'[p].retry = plan[p].retry
        BY <1>c, <2>4 DEF ForceFull, NextRun
      <3>2. IF q = p THEN chain'[p].of \in {"refusals", "mixture"} ELSE chain'[p] = chain[p]
        BY <1>a, <2>4 DEF ForceFull
      <3>3. CASE q = p
        <4>1. Within(p)'
          BY <1>0, <3>1 DEF Within
        <4> QED BY <3>2, <3>3, <4>1, DisturbedTracked
      <3>4. CASE q # p
        <4>1. work'[p] = work[p] /\ Starting(p)' = Starting(p)
          BY <2>4, <3>4 DEF ForceFull, Starting
        <4> QED BY <1>0, <3>1, <3>2, <3>4, <4>1, SameTracked
      <3> QED BY <3>3, <3>4
    <2> QED BY <1>4, <2>1, <2>2, <2>3, <2>4 DEF WorkStep
  <1>5. ASSUME NEW q \in Plan, Tick(q) PROVE Tracked(p)'
    <2>1. plan'[p].retries = plan[p].retries /\ plan'[p].retry = plan[p].retry
      BY <1>5 DEF Tick, PlanRow
    <2> QED BY <1>0, <1>5, <2>1, SameTracked DEF Tick, Starting
  <1>6. CASE Restart
    <2>1. chain'[p].of = "mixture"
      BY <1>6 DEF Restart, Link
    <2>2. Within(p)'
      BY <1>0, <1>6 DEF Restart, Within
    <2> QED BY <2>1, <2>2, DisturbedTracked
  <1>7. CASE UNCHANGED vars
    BY <1>0, <1>7, SameTracked DEF vars, Starting
  <1> QED BY <1>1, <1>2, <1>3, <1>4, <1>5, <1>6, <1>7 DEF Next

LEMMA ForgottenHolds == TypeOK /\ NeverForgotten /\ [Next]_vars => NeverForgotten'
  <1> SUFFICES ASSUME TypeOK, NeverForgotten, [Next]_vars PROVE NeverForgotten'
    OBVIOUS
  <1> USE DEF TypeOK, NeverForgotten, history
  <1>1. CASE SchedStep
    <2>1. CASE BeginPass \/ CreateAuto
      BY <2>1 DEF BeginPass, CreateAuto
    <2>2. CASE RefuseAuto \/ RefuseAgain
      BY <2>2, ModifyKeeps DEF RefuseAuto, RefuseAgain
    <2>3. ASSUME NEW p \in Plan, StartAuto(p) PROVE NeverForgotten'
      <3>1. PICK date \in AfterRun(plan[p]) : plan' = [plan EXCEPT ![p].next_run = date]
        BY <2>3 DEF StartAuto
      <3>2. date \in NextRun /\ (~ plan[p].once => date # "none")
        BY <3>1, DatesTyped, RowTyped
      <3>3. plan'[p].next_run = date /\ plan'[p].once = plan[p].once
              /\ \A q \in Plan \ {p} : plan'[q] = plan[q]
        BY <3>1, <3>2, DateIsSet
      <3>4. silent' = silent \ {p} /\ erased' = erased \ {p}
        BY <2>3 DEF StartAuto
      <3> QED BY <3>2, <3>3, <3>4
    <2> QED BY <1>1, <2>1, <2>2, <2>3 DEF SchedStep
  <1>2. ASSUME NEW c \in User, UserStep(c) PROVE NeverForgotten'
    <2>1. ASSUME NEW p \in Plan, StartManual(c, p) PROVE NeverForgotten'
      BY <2>1 DEF StartManual
    <2>2. CASE CreateManual(c)
      BY <2>2 DEF CreateManual
    <2>3. CASE RefuseManual(c)
      <3>1. caller[c].plan \in Plan
        BY DEF Call
      <3> QED BY <2>3, <3>1, ModifyKeeps DEF RefuseManual
    <2>4. CASE RecordRun(c)
      BY <2>4 DEF RecordRun
    <2> QED BY <1>2, <2>1, <2>2, <2>3, <2>4 DEF UserStep
  <1>3. ASSUME NEW p \in Plan, EditPlan(p) \/ TogglePlan(p) PROVE NeverForgotten'
    <2>1. plan'[p].next_run # "none" /\ (\A q \in Plan \ {p} : plan'[q] = plan[q])
            /\ silent' = silent \ {p} /\ erased' = erased \ {p}
      <3>1. CASE EditPlan(p)
        BY <3>1, DatesTyped DEF EditPlan
      <3>2. CASE TogglePlan(p)
        BY <3>2, DatesTyped DEF TogglePlan, PlanRow
      <3> QED BY <1>3, <3>1, <3>2
    <2> QED BY <2>1
  <1>4. ASSUME NEW p \in Plan, WorkStep(p) PROVE NeverForgotten'
    <2>1. CASE Fail(p)
      BY <2>1, ModifyKeeps DEF Fail
    <2>2. CASE Cancelled(p) \/ CleanRetries(p)
      BY <2>2, CleanKeeps DEF Cancelled, CleanRetries
    <2>3. CASE Finish(p) \/ Succeed(p)
      BY <2>3 DEF Finish, Succeed
    <2>4. CASE ForceFull(p)
      BY <2>4 DEF ForceFull
    <2> QED BY <1>4, <2>1, <2>2, <2>3, <2>4 DEF WorkStep
  <1>5. ASSUME NEW p \in Plan, Tick(p) PROVE NeverForgotten'
    BY <1>5 DEF Tick, Closer
  <1>6. CASE Restart \/ UNCHANGED vars
    BY <1>6 DEF Restart, vars
  <1> QED BY <1>1, <1>2, <1>3, <1>4, <1>5, <1>6 DEF Next

-----------------------------------------------------------------------------
(* THEOREMS.                                                                 *)

(* The inductive invariant holds in every state. *)
THEOREM Inductive == Spec => []IInv
  <1>1. IInv /\ [Next]_vars => IInv'
    BY TypeHolds, ChainHolds, ForgottenHolds DEF IInv
  <1> QED BY InitHolds, <1>1, PTL DEF Spec

(* The rows, the threads and the histories of BackupRetry have their types.    *)
THEOREM TypeCorrect == Spec => []TypeOK
  <1>1. IInv => TypeOK
    BY DEF IInv
  <1> QED BY Inductive, <1>1, PTL

(* A chain of failures that nothing interferes with is retried as often as      *)
(* configured, neither more nor less, before the failure is mailed.            *)
THEOREM RetriesCounted == Spec => []RetriedAsConfigured
  <1>1. IInv => RetriedAsConfigured
    BY DEF IInv, CounterIsChain, Tracked, Pure, RetriedAsConfigured
  <1> QED BY Inductive, <1>1, PTL

(* A periodic plan, and one whose failure mail was withheld, keeps a date at    *)
(* which the scheduler looks at it, except after the recorded lost update.      *)
THEOREM DateKept == Spec => []NeverForgotten
  <1>1. IInv => NeverForgotten
    BY DEF IInv
  <1> QED BY Inductive, <1>1, PTL
=============================================================================
