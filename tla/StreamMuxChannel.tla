-------------------------- MODULE StreamMuxChannel --------------------------
(***************************************************************************)
(* StreamMux implements FrameChannel: what a source offers is what its     *)
(* thread brings into push_frame, what is held is in a thread's hand or in *)
(* a pad's deque, and stream-eos and eos are the end marks.  Pads are not  *)
(* removed (MuxedPipeline never does).                                     *)
(***************************************************************************)
EXTENDS StreamMux

CONSTANT Lossless  \* TRUE: producers block and the mux is not stopped

Ended == {s \in Source : "stream-eos" \in told[s]}

Channel == INSTANCE FrameChannel
  WITH offered <- decoded, held <- Present, out <- delivered,
       ended <- Ended, finished <- eosSent

\* The mux is an ordered channel per source, closed by its stream-eos, and
\* lossless when Lossless: queueing, waiting, batching policy and timers are
\* internal.
ChannelSpec == Channel!Spec

=============================================================================
