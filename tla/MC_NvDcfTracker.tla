-------------------------- MODULE MC_NvDcfTracker ---------------------------
(* Two filter slots and four targets, one after another. *)
EXTENDS NvDcfTracker

CONSTANTS s1, s2

=============================================================================
