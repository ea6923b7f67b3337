------------------------ MODULE MC_AdvancedPipeline -------------------------
(* A camera that may be removed and one that may hang. *)
EXTENDS AdvancedPipeline

CONSTANTS a, b

Frames == [w \in Worker |-> IF w \in {<<a, "hot">>, <<b, "run">>} THEN 0 ELSE 1]
Records == {<<w, n>> \in Worker \X (1 .. 2) : n <= Frames[w]}

=============================================================================
