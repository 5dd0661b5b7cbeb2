------------------------- MODULE MCSpaceCollection -------------------------
(* Small instances of SpaceCollection for TLC.                             *)
EXTENDS SpaceCollection

CONSTANTS a, b, c, d

(* A machine that was backed up three times, in any layout of the files: a   *)
(* state Init reaches by three backups.  One ident is left, for a fourth      *)
(* backup or for a merge.                                                    *)
ThreeBackups ==
  /\ row = {a, b, c} /\ image = {a, b, c} /\ raced = {} /\ cut = {}
  /\ parent = [s \in Snap |-> CASE s = b -> a [] s = c -> b [] OTHER -> NoSnap]
  /\ \E fb \in {a, b}, fc \in {a, b, c} :
       /\ fc \in {fb, c}
       /\ file = [s \in Snap |-> CASE s = b -> fb [] s = c -> fc [] OTHER -> s]
       /\ LET lb == {b} \cup (IF fb = a THEN {a} ELSE {})
          IN  local = [s \in Snap |->
                         CASE s = a -> {a} [] s = b -> lb
                           [] s = c -> {c} \cup (IF fc = fb THEN lb ELSE {})
                           [] OTHER -> {}]
  /\ data = [s \in Snap |->
               CASE s = a -> {a} [] s = b -> {a, b} [] s = c -> {a, b, c} [] OTHER -> {}]
  /\ merged = [s \in Snap |-> FALSE] /\ refs = [s \in Snap |-> {}]
  /\ host = [s \in Snap |-> IF s \in row THEN "successful" ELSE "none"]
  /\ deleting = [s \in Snap |-> FALSE] /\ deleted = [s \in Snap |-> FALSE]
  /\ collect = [s \in Snap |-> [k \in Slot |-> "none"]]
  /\ listed = [s \in Snap |-> [k \in Slot |-> {}]]
  /\ del = [s \in Snap |-> "none"] /\ merge = [s \in Snap |-> NoMerge]
  /\ worker = [Idle EXCEPT !.pc = "start"] /\ txn = NoSnap
  /\ locker = NoReader /\ crashes = 0
  /\ reader = [r \in Reader |-> IdleReader] /\ backup = IdleBackup

SpecThreeBackups == ThreeBackups /\ [][Next]_vars

(* ... or an empty appliance, where the idents in NewBackup are backed up.    *)
SpecZeroOrThree == (Init \/ ThreeBackups) /\ [][Next]_vars
=============================================================================
