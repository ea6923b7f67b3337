---------------------------- MODULE MC_StreamMux ----------------------------
(* Small instances of StreamMux for TLC: sources, pad indices, priorities. *)
EXTENDS StreamMuxChannel

CONSTANTS a, b, c

TwoSources == {a, b}
ThreeSources == {a, b, c}

\* Each source has an index of its own, or the last shares that of another, used
\* by one pad object after the other.
OwnIndex == [s \in Source |-> s]
SharedIndex == [s \in Source |-> IF s = c THEN b ELSE s]

SamePriority == [s \in Source |-> 0]
LastIsLower == [s \in Source |-> IF s = b THEN 1 ELSE 0]

=============================================================================
