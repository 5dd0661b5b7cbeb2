---------------------------- MODULE BackupRetry ----------------------------
(***************************************************************************)
(* When the plans of a host run next, and how failed backups are retried.     *)
(*                                                                         *)
(* The plan scheduler starts, minute by minute, the plans whose date has      *)
(* come; a user starts them by hand or edits them.  A start moves the date of  *)
(* its plan before the backup runs (scheduler) or after it was started (user). *)
(* A backup that fails, and a start that is refused, may bring the date        *)
(* forward, a configured number of times in a row; the mail about a failure    *)
(* is withheld when the plan will be retried.                               *)
(*                                                                         *)
(* Dates are what the code compares: a next run is none, later, soon (not      *)
(* after the retry interval) or due.  The backup itself succeeds or fails      *)
(* (see BackupTask); a start may be refused at any time, as the host may be    *)
(* offline or busy.                                                         *)
(***************************************************************************)
EXTENDS Naturals, FiniteSets

CONSTANTS Plan,         \* rows of BackupTaskSchedule, not CDP
          Counts,       \* numbers of retries a user may enter
          DefaultCount, \* the number the page sends for a plan without retries
          User,         \* REST threads that start a plan by hand
          MaxRestarts   \* bound: restarts of the service

ASSUME PlanAssumption  == Plan # {}
ASSUME CountAssumption == Counts \subseteq Nat /\ DefaultCount \in Nat \ {0}
ASSUME BoundAssumption == MaxRestarts \in Nat

VARIABLES
  plan,     \* the row of each plan: enabled, cycle_type, next_run_date, ext_config
  work,     \* where the thread of the backup of each plan is
  cleaning, \* plans with a thread that succeeded and has not cleaned the counter yet
  sched,    \* the thread of the scheduler
  caller,   \* the threads of users
  restarts,
  chain,    \* history: the retries of a plan in a row, see SetChain
  silent,   \* history: plans whose failure was not mailed, until they are started
  erased    \* history: plans whose date a user's start erased, until they have one

vars    == <<plan, work, cleaning, sched, caller, restarts, chain, silent, erased>>
history == <<chain, silent, erased>>

NextRun  == {"none", "later", "soon", "due"}
WorkAt   == {"none", "running", "forced", "retried", "given_up", "cancelled"}
SchedAt  == {"idle", "starting", "refused_again"}
ChainOf  == {"nothing", "failures", "refusals", "mixture"}
CallerAt == {"idle", "starting", "record_run"}

(* What the page sends: the options it hides have a default.                  *)
Options == [enable : {TRUE}, count : Counts] \cup [enable : {FALSE}, count : {DefaultCount}]

PlanRow == [enabled : BOOLEAN, once : BOOLEAN, next_run : NextRun, retries : Nat, retry : Options]
Call    == [pc : CallerAt, plan : Plan, once : BOOLEAN, next_run : NextRun]
Link    == [retry : BOOLEAN, count : Nat, of : ChainOf]

AnyPlan == CHOOSE p \in Plan : TRUE
Nothing == [pc |-> "idle", plan |-> AnyPlan, once |-> TRUE, next_run |-> "none"]

Init ==
  /\ plan \in [Plan -> [enabled : {TRUE}, once : BOOLEAN, next_run : {"later"},
                       retries : {0}, retry : Options]]
  /\ work = [p \in Plan |-> "none"]
  /\ cleaning = {}
  /\ sched = [pc |-> "idle", todo |-> {}, plan |-> AnyPlan]
  /\ caller = [c \in User |-> Nothing]
  /\ restarts = 0
  /\ chain = [p \in Plan |-> [retry |-> FALSE, count |-> 0, of |-> "mixture"]]
  /\ silent = {}
  /\ erased = {}

-----------------------------------------------------------------------------
(* The date of a plan and its counter. *)

(* calc_next_run(False): a date that has not come stays.                      *)
AfterRun(row) ==
  CASE row.next_run \in {"later", "soon"} -> {row.next_run}
    [] row.once                           -> {"none"}
    [] OTHER                              -> {"later", "soon"}

(* calc_next_run(True): the start date of a plan that runs once may have passed, *)
(* and so may the last run and the interval of one that runs every few minutes.  *)
AfterEdit == {"later", "soon", "due"}

(* A fault of RunsSoon: the date is compared with the end of the interval only.  *)
SoonNotDue(p) == plan[p].retry.enable /\ plan[p].next_run = "soon"

(* modify: a plan that runs soon anyway is left alone, with a new counter.     *)
RunsSoon(p) == plan[p].retry.enable /\ plan[p].next_run \in {"soon", "due"}
(* A fault of Counted: one retry too many. *)
CountedOnceMore(p) == ~ RunsSoon(p) /\ plan[p].retries <= plan[p].retry.count

Counted(p)  == ~ RunsSoon(p) /\ plan[p].retries < plan[p].retry.count

(* A fault of Modify: the counter is written back without the date. *)
ModifyUndated(p, checkRetryCount) ==
  IF Counted(p) THEN plan' = [plan EXCEPT ![p].next_run = "none", ![p].retries = @ + 1]
  ELSE plan' = [plan EXCEPT ![p].retries = 0]

Modify(p, checkRetryCount) ==
  IF ~ checkRetryCount /\ ~ RunsSoon(p) THEN plan' = [plan EXCEPT ![p].next_run = "soon"]
  ELSE IF Counted(p) THEN plan' = [plan EXCEPT ![p].next_run = "soon", ![p].retries = @ + 1]
  ELSE plan' = [plan EXCEPT ![p].retries = 0]

WillRetry(p, checkRetryCount) == ~ checkRetryCount \/ RunsSoon(p) \/ Counted(p)

(* A fault of Clean: the last retry is taken back. *)
CleanOne(p) == plan' = [plan EXCEPT ![p].retries = @ - 1]

(* clean. *)
Clean(p) == plan' = [plan EXCEPT ![p].retries = 0]

(* History.  chain[p].retry: the date of p was brought forward by modify;       *)
(* count: starts in a row at such dates; of: what happened since the last regular *)
(* start, with nothing else at work: only failures, only refusals, or a mixture. *)
SetChain(p, retry, count, of) ==
  chain' = [chain EXCEPT ![p] = [retry |-> retry, count |-> count, of |-> of]]

Continues(p, of) == IF chain[p].of \in {"nothing", of} THEN of ELSE "mixture"
Refused(p, retry)   == SetChain(p, retry, chain[p].count, Continues(p, "refusals"))
Disturbed(p, retry) == SetChain(p, retry, chain[p].count, "mixture")

Brought(p, checkRetryCount) ==
  \/ chain[p].retry
  \/ IF checkRetryCount THEN Counted(p) ELSE ~ RunsSoon(p)

-----------------------------------------------------------------------------
(* PlanScheduler.run_scheduler. *)

(* The plans are read once for the whole pass. *)
BeginPass ==
  /\ sched.pc = "idle"
  /\ sched.todo = {}
  /\ \E p \in Plan : plan[p].enabled /\ plan[p].next_run = "due"
  /\ sched' = [sched EXCEPT !.todo = {p \in Plan : plan[p].enabled /\ plan[p].next_run = "due"}]
  /\ UNCHANGED <<plan, work, cleaning, caller, restarts, history>>

(* A run by the scheduler records its date before the checks. *)
StartAuto(p) ==
  /\ sched.pc = "idle"
  /\ p \in sched.todo
  /\ sched' = [pc |-> "starting", todo |-> sched.todo \ {p}, plan |-> p]
  /\ LET early == plan[p].next_run \in {"later", "soon"}
     IN  /\ \E date \in AfterRun(plan[p]) : plan' = [plan EXCEPT ![p].next_run = date]
         /\ IF chain[p].retry
              THEN SetChain(p, early, IF chain[p].count > plan[p].retry.count THEN chain[p].count
                                      ELSE chain[p].count + 1, IF early THEN "mixture" ELSE chain[p].of)
              ELSE SetChain(p, FALSE, 0, IF plan[p].retries = 0 /\ work[p] = "none" /\ p \notin cleaning
                                           THEN "nothing" ELSE "mixture")
  /\ silent' = silent \ {p}
  /\ erased' = erased \ {p}
  /\ UNCHANGED <<work, cleaning, caller, restarts>>

(* The checks pass: the row of the task is created and its thread started.     *)
CreateAuto ==
  /\ sched.pc = "starting"
  /\ plan[sched.plan].enabled
  /\ work[sched.plan] = "none"
  /\ work' = [work EXCEPT ![sched.plan] = "running"]
  /\ sched' = [sched EXCEPT !.pc = "idle"]
  /\ UNCHANGED <<plan, cleaning, caller, restarts, history>>

(* A check refuses: post asks for a retry ...                               *)
RefuseAuto ==
  /\ sched.pc = "starting"
  /\ Modify(sched.plan, TRUE)
  /\ Refused(sched.plan, Brought(sched.plan, TRUE))
  /\ sched' = [sched EXCEPT !.pc = "refused_again"]
  /\ UNCHANGED <<work, cleaning, caller, restarts, silent, erased>>

(* ... and run_scheduler, which sees that the status is not 201, asks again.   *)
RefuseAgain ==
  /\ sched.pc = "refused_again"
  /\ Modify(sched.plan, TRUE)
  /\ Refused(sched.plan, Brought(sched.plan, TRUE))
  /\ sched' = [sched EXCEPT !.pc = "idle"]
  /\ UNCHANGED <<work, cleaning, caller, restarts, silent, erased>>

-----------------------------------------------------------------------------
(* The user. *)

(* BackupTaskScheduleExecute.post: the row of the plan is loaded once.         *)
StartManual(c, p) ==
  /\ caller[c].pc = "idle"
  /\ caller' = [caller EXCEPT ![c] = [pc |-> "starting", plan |-> p,
                                    once |-> plan[p].once, next_run |-> plan[p].next_run]]
  /\ UNCHANGED <<plan, work, cleaning, sched, restarts, history>>

CreateManual(c) ==
  LET p == caller[c].plan
  IN  /\ caller[c].pc = "starting"
      /\ plan[p].enabled
      /\ work[p] = "none"
      /\ work' = [work EXCEPT ![p] = "running"]
      /\ caller' = [caller EXCEPT ![c].pc = "record_run"]
      /\ Disturbed(p, chain[p].retry)
      /\ silent' = silent \ {p}
      /\ UNCHANGED <<plan, cleaning, sched, restarts, erased>>

RefuseManual(c) ==
  LET p == caller[c].plan
  IN  /\ caller[c].pc = "starting"
      /\ Modify(p, TRUE)
      /\ Disturbed(p, Brought(p, TRUE))
      /\ caller' = [caller EXCEPT ![c] = Nothing]
      /\ UNCHANGED <<work, cleaning, sched, restarts, silent, erased>>

(* set_last_run_date_and_calc_next_run_date, from the row read at the start:    *)
(* whatever date was set since is overwritten.                               *)
RecordRun(c) ==
  LET p == caller[c].plan
  IN  /\ caller[c].pc = "record_run"
      /\ \E date \in AfterRun(caller[c]) :
           /\ plan' = [plan EXCEPT ![p].next_run = date]
           /\ erased' = IF date = "none" /\ plan[p].next_run # "none" THEN erased \cup {p} ELSE erased
      /\ Disturbed(p, FALSE)
      /\ caller' = [caller EXCEPT ![c] = Nothing]
      /\ UNCHANGED <<work, cleaning, sched, restarts, silent>>

(* BackupTaskScheduleSetting.put, from the page of the plan ...               *)
EditPlan(p) ==
  /\ \E once \in BOOLEAN, date \in AfterEdit, retry \in Options :
       plan' = [plan EXCEPT ![p] = [enabled |-> @.enabled, once |-> once, next_run |-> date,
                                   retries |-> 0, retry |-> retry]]
  /\ SetChain(p, FALSE, 0, "mixture")
  /\ silent' = silent \ {p}
  /\ erased' = erased \ {p}
  /\ UNCHANGED <<work, cleaning, sched, caller, restarts>>

(* ... or from the list, to disable or enable it.                            *)
TogglePlan(p) ==
  /\ \E date \in AfterEdit :
       plan' = [plan EXCEPT ![p].enabled = ~ @, ![p].next_run = date]
  /\ SetChain(p, FALSE, 0, "mixture")
  /\ silent' = silent \ {p}
  /\ erased' = erased \ {p}
  /\ UNCHANGED <<work, cleaning, sched, caller, restarts>>

-----------------------------------------------------------------------------
(* The thread of a backup. *)

(* set_next_force_full, once an image could not be created: the plan runs in    *)
(* five minutes, sooner or later than the retry interval.                     *)
ForceFull(p) ==
  /\ work[p] = "running"
  /\ ~ plan[p].once
  /\ \E date \in {"soon", "later"} : plan' = [plan EXCEPT ![p].next_run = date]
  /\ work' = [work EXCEPT ![p] = "forced"]
  /\ Disturbed(p, FALSE)
  /\ UNCHANGED <<cleaning, sched, caller, restarts, silent, erased>>

(* The end of run after an exception; busy disks ask for a retry that is not    *)
(* counted.  The mail depends on what modify returns.                         *)
Fail(p) ==
  /\ work[p] \in {"running", "forced"}
  /\ \E checkRetryCount \in BOOLEAN :
       /\ Modify(p, checkRetryCount)
       /\ IF checkRetryCount /\ ~ RunsSoon(p)
            THEN SetChain(p, Brought(p, TRUE), chain[p].count, Continues(p, "failures"))
            ELSE Disturbed(p, Brought(p, checkRetryCount))
       /\ IF WillRetry(p, checkRetryCount)
            THEN /\ work' = [work EXCEPT ![p] = "retried"]
                 /\ silent' = silent \cup {p}
                 /\ erased' = erased \ {p}
            ELSE /\ work' = [work EXCEPT ![p] = "given_up"]
                 /\ UNCHANGED <<silent, erased>>
  /\ UNCHANGED <<cleaning, sched, caller, restarts>>

(* The same after the user cancelled the task. *)
Cancelled(p) ==
  /\ work[p] \in {"running", "forced"}
  /\ Clean(p)
  /\ Disturbed(p, chain[p].retry)
  /\ work' = [work EXCEPT ![p] = "cancelled"]
  /\ UNCHANGED <<cleaning, sched, caller, restarts, silent, erased>>

(* _finish_backup_task_object. *)
Finish(p) ==
  /\ work[p] \in {"retried", "given_up", "cancelled"}
  /\ work' = [work EXCEPT ![p] = "none"]
  /\ UNCHANGED <<plan, cleaning, sched, caller, restarts, history>>

Succeed(p) ==
  /\ work[p] = "running"
  /\ work' = [work EXCEPT ![p] = "none"]
  /\ cleaning' = cleaning \cup {p}
  /\ UNCHANGED <<plan, sched, caller, restarts, history>>

CleanRetries(p) ==
  /\ p \in cleaning
  /\ cleaning' = cleaning \ {p}
  /\ Clean(p)
  /\ Disturbed(p, chain[p].retry)
  /\ UNCHANGED <<work, sched, caller, restarts, silent, erased>>

-----------------------------------------------------------------------------
(* Time and restarts. *)

Closer(date) == CASE date = "later" -> "soon" [] date = "soon" -> "due" [] OTHER -> date

(* The date comes closer, and so does the copy of it that a user's start read.  *)
Tick(p) ==
  /\ plan[p].next_run \in {"later", "soon"}
  /\ plan' = [plan EXCEPT ![p].next_run = Closer(@)]
  /\ caller' = [c \in User |->
       IF caller[c].plan = p /\ caller[c].next_run = plan[p].next_run
         THEN [caller[c] EXCEPT !.next_run = Closer(@)] ELSE caller[c]]
  /\ UNCHANGED <<work, cleaning, sched, restarts, history>>

(* The rows remain; a task whose row is not finished is taken up again.        *)
Restart ==
  /\ restarts < MaxRestarts
  /\ restarts' = restarts + 1
  /\ work' = [p \in Plan |-> IF work[p] = "none" THEN "none" ELSE "running"]
  /\ cleaning' = {}
  /\ sched' = [sched EXCEPT !.pc = "idle", !.todo = {}]
  /\ caller' = [c \in User |-> Nothing]
  /\ chain' = [p \in Plan |-> [chain[p] EXCEPT !.of = "mixture"]]
  /\ UNCHANGED <<plan, silent, erased>>

SchedStep == BeginPass \/ CreateAuto \/ RefuseAuto \/ RefuseAgain \/ \E p \in Plan : StartAuto(p)
UserStep(c) ==
  \/ \E p \in Plan : StartManual(c, p)
  \/ CreateManual(c) \/ RefuseManual(c) \/ RecordRun(c)
WorkStep(p) == Fail(p) \/ Cancelled(p) \/ Finish(p) \/ Succeed(p) \/ CleanRetries(p) \/ ForceFull(p)

Next ==
  \/ SchedStep
  \/ \E c \in User : UserStep(c)
  \/ \E p \in Plan : EditPlan(p) \/ TogglePlan(p) \/ WorkStep(p) \/ Tick(p)
  \/ Restart

Spec == Init /\ [][Next]_vars

(* Time passes and the scheduler wakes up every minute; nothing else must happen. *)
FairSpec == Spec /\ WF_vars(SchedStep) /\ \A p \in Plan : WF_vars(Tick(p))

-----------------------------------------------------------------------------
(* Properties. *)

TypeOK ==
  /\ plan \in [Plan -> PlanRow]
  /\ work \in [Plan -> WorkAt]
  /\ cleaning \subseteq Plan
  /\ sched \in [pc : SchedAt, todo : SUBSET Plan, plan : Plan]
  /\ caller \in [User -> Call]
  /\ restarts \in 0..MaxRestarts
  /\ chain \in [Plan -> Link]
  /\ silent \subseteq Plan
  /\ erased \subseteq Plan

(* Failures are counted over several runs, in a row that also holds the         *)
(* settings: when nothing interferes, a plan is retried as often as configured   *)
(* and not once more, and the user is told of the failure only after that.      *)
(* Starts that are refused are not failures: they make a row a mixture.           *)
RetriedAsConfigured ==
  \A p \in Plan : chain[p].of \in {"nothing", "failures"} =>
    /\ chain[p].count <= plan[p].retry.count
    /\ work[p] = "given_up" => chain[p].count = plan[p].retry.count

(* The scheduler never looks again at a plan without a date.  A periodic plan     *)
(* has one, and so has a plan whose failure was not mailed because "it will be   *)
(* retried", unless a start by hand erased it from a row it had read before.     *)
NeverForgotten ==
  \A p \in Plan : ~ plan[p].once \/ p \in silent => plan[p].next_run # "none" \/ p \in erased

(* And the scheduler comes to it, whatever users and other failures do.  Only    *)
(* the date of a plan with disabled retries is put off by each refused start.    *)
WithheldIsRetried ==
  \A p \in Plan : p \in silent ~>
    (p \notin silent \/ p \in erased \/ ~ plan[p].enabled \/ ~ plan[p].retry.enable)
=============================================================================
