----------------------------- MODULE MCTaskQueue -----------------------------
(* Small instances of TaskQueue for TLC. *)
EXTENDS TaskQueue

CONSTANTS a, b, h1, h2, h3, h4, c1, c2

(* One cluster backup of two hosts. *)
TwoHosts == [c \in {c1} |-> {h1, h2}]

(* Two cluster backups of two hosts. *)
TwoClusters == [c \in {c1, c2} |-> IF c = c1 THEN {h1, h2} ELSE {h3, h4}]
=============================================================================
