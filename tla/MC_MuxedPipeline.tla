-------------------------- MODULE MC_MuxedPipeline --------------------------
(* Small instances of MuxedPipeline and of its mux as a channel: two sources. *)
EXTENDS StreamMuxChannel, MuxedPipeline

CONSTANTS a, b

TwoSources == {a, b}
OwnIndex == [s \in Source |-> s]
SamePriority == [s \in Source |-> 0]

=============================================================================
