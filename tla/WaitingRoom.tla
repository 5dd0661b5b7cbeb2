----------------------------- MODULE WaitingRoom -----------------------------
(***************************************************************************)
(* What the queue of backup tasks promises to the user, after the two       *)
(* sentences of xdashboard/templates/system_body.html:197-198: a task that   *)
(* starts while the configured number of tasks executes queues until one of  *)
(* them completes, and who queued first executes first.                     *)
(***************************************************************************)
EXTENDS Naturals, FiniteSets, SequencesExt

CONSTANTS Task,
          Limits     \* the numbers a user may configure

VARIABLES line,         \* the tasks in the queue, the first at the head
          inside,       \* the tasks that execute
          interrupted   \* the tasks a restart of the service cut off

room == <<line, inside, interrupted>>

RoomInit == line = <<>> /\ inside = {} /\ interrupted = {}

Join(t) ==
  /\ t \notin inside \cup ToSet(line)
  /\ line' = Append(line, t)
  /\ UNCHANGED <<inside, interrupted>>

(* Only the head is served, and only below a configured number of executing  *)
(* tasks; the head still stands in the line for a moment.                    *)
Serve ==
  /\ line # <<>>
  /\ line[1] \notin inside
  /\ \E limit \in Limits : Cardinality(inside) < limit
  /\ inside' = inside \cup {line[1]}
  /\ UNCHANGED <<line, interrupted>>

StepOut(i) ==
  /\ line' = RemoveAt(line, i)
  /\ UNCHANGED <<inside, interrupted>>

Complete(done) ==
  /\ inside' = inside \ done
  /\ UNCHANGED <<line, interrupted>>

(* A restart empties the line.  Whoever executed or waited is resumed, without *)
(* queueing again.                                                           *)
Interrupt ==
  /\ line' = <<>>
  /\ inside' = {}
  /\ inside \cup interrupted \cup ToSet(line) \subseteq interrupted'

Resume(t) ==
  /\ t \in interrupted
  /\ inside' = inside \cup {t}
  /\ interrupted' = interrupted \ {t}
  /\ UNCHANGED line

RoomNext ==
  \/ Serve
  \/ Interrupt
  \/ \E t \in Task : Join(t) \/ Resume(t)
  \/ \E i \in DOMAIN line : StepOut(i)
  \/ \E done \in SUBSET Task : Complete(done)

RoomSpec == RoomInit /\ [][RoomNext]_room
=============================================================================
