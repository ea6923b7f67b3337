------------------------- MODULE MC_AnnotatedStream -------------------------
(* A small instance of AnnotatedStream for TLC: the constants are in the   *)
(* configuration.                                                          *)
EXTENDS AnnotatedStream

=============================================================================
