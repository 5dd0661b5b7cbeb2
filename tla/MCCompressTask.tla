---------------------------- MODULE MCCompressTask ----------------------------
(* Small instances of CompressTask for TLC: snapshots that share one file. *)
EXTENDS CompressTask

CONSTANTS reader, worker

OneFile == [d \in 1 .. N |-> 1]

(* Two starts, both states that Spec reaches: the newest snapshot was already   *)
(* deleted and the service may still restart, or all are there and it may not.  *)
Deleted(d) ==
  /\ file = Snapshot \ {d}
  /\ condemned = {d}
  /\ restarts = 0

AllThere ==
  /\ file = Snapshot
  /\ condemned = {}
  /\ restarts = MaxRestarts

StartDeletedOrNot ==
  /\ Quiet
  /\ Deleted(N) \/ AllThere

FairFromThere == StartDeletedOrNot /\ [][Next]_vars /\ Fairness
=============================================================================
