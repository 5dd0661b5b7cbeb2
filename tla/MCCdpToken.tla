----------------------------- MODULE MCCdpToken -----------------------------
(* Small instances of CdpToken for TLC. *)
EXTENDS CdpToken

CONSTANTS d1, d2

(* A third file only as long as the second one, whose range is followed, is     *)
(* empty and nothing failed: the order of the files is at stake there.          *)
ThirdIsOrderOnly == created = 3 => size[2] = 0 /\ faults = 0
=============================================================================
