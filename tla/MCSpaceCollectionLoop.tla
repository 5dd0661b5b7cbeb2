----------------------- MODULE MCSpaceCollectionLoop -----------------------
(* Small instances of SpaceCollectionLoop for TLC.                         *)
EXTENDS SpaceCollectionLoop

CONSTANTS a, b, c, d

MC == INSTANCE MCSpaceCollection

(* from three backups, in any layout of the files, of one machine *)
LoopThreeBackups == /\ MC!ThreeBackups /\ LoopInit
                    /\ [][LoopNext]_loopvars /\ Fairness
=============================================================================
