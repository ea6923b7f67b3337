---------------------------- MODULE MC_AMDStream -----------------------------
(* A file, and a camera that is started again when it stopped or gave up. *)
EXTENDS AMDStream

CONSTANTS file, camera

FileFirst == [s \in Stream |-> IF s = file THEN 1 ELSE 2]
CameraAgain == [s \in Stream |-> IF s = file THEN 1 ELSE 2]
Frames == [s \in Stream |-> IF s = file THEN 0 ELSE 1]

=============================================================================
