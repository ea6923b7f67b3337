------------------------ MODULE MC_PlateRecognition -------------------------
(* Two cameras, a vehicle each; the worker of the second may be left behind. *)
EXTENDS PlateRecognition, TLC

CONSTANTS a, b, x, y, p, q, v1, v2

FramesOf == [c \in Camera |-> [n \in 1 .. MaxBoots |-> IF c = b /\ n > 1 THEN 1 ELSE 2]]

\* Looks, plates and ids are only compared.
DataSymmetry == Permutations({x, y}) \cup Permutations({p, q})
                \cup Permutations({v1, v2})

=============================================================================
