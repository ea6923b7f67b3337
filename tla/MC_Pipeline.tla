---------------------------- MODULE MC_Pipeline -----------------------------
(* One camera that delivers frames and one that hangs. *)
EXTENDS Pipeline

CONSTANTS a, b

OwnSource == [w \in Worker |-> w]
OnlyA == [w \in Worker |-> IF w = a THEN 2 ELSE 0]

=============================================================================
