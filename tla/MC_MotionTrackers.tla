------------------------- MODULE MC_MotionTrackers --------------------------
(* Each tracker in turn, chosen by the initial state. *)
EXTENDS MotionTrackers

AllKinds == {"iou", "sort", "byte", "ocsort"}

=============================================================================
