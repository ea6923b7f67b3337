---------------------------- MODULE VideoEncoder ----------------------------
(***************************************************************************)
(* AnnotatedVideo of avap (annotate.py) with the VideoEncoder (encode.py)  *)
(* and the VcnEncoder (vcn_encoder.cpp) below it: the encoder is made from *)
(* the first frame, takes one frame per call, hands packets to the muxer   *)
(* as they come out, and drains and ends the file when it is closed.       *)
(*                                                                         *)
(* A packet carries one frame, in the order sent (no B-frames).  Left out: *)
(* drawing, colour conversion, sizes, and the contexts a failed            *)
(* constructor or close leaves behind.                                     *)
(***************************************************************************)
EXTENDS Integers, Sequences

CONSTANT EncoderDelay   \* packets the encoder may hold back

ASSUME EncoderAssumption == EncoderDelay \in Nat

VARIABLES
  enc,      \* AnnotatedVideo._enc: "none", "open", or "closed" (VcnEncoder.closed_)
  inside,   \* frames in the encoder
  file,     \* frames in the output, in order
  trailer   \* TRUE when the output has its trailer

encVars == <<enc, inside, file, trailer>>

EncInit == enc = "none" /\ inside = <<>> /\ file = <<>> /\ trailer = FALSE

\* drain: the first n of the frames in the encoder go to the file.
Muxed(frames, n) ==
  /\ file' = file \o SubSeq(frames, 1, n)
  /\ inside' = SubSeq(frames, n + 1, Len(frames))

\* AnnotatedVideo.write: the constructor opens, and so empties, the output.
CreateEncoder ==
  /\ enc = "none"
  /\ enc' = "open" /\ inside' = <<>> /\ file' = <<>> /\ trailer' = FALSE

\* VcnEncoder.write_nv12: the frame is sent and what comes out is muxed.
EncodeFrame(f) ==
  LET frames == Append(inside, f) IN
  /\ enc = "open"
  /\ \E n \in 0 .. Len(frames) : Len(frames) - n <= EncoderDelay /\ Muxed(frames, n)
  /\ UNCHANGED <<enc, trailer>>

\* write_nv12 raises: before the frame was sent, or when the muxer refuses a
\* packet, which is lost.  A closed encoder takes nothing.
EncodeFails(f) ==
  LET frames == Append(inside, f) IN
  /\ enc # "none"
  /\ \/ UNCHANGED <<file, inside>>
     \/ /\ enc = "open"
        /\ \E n \in 0 .. Len(frames) - 1 :
             /\ file' = file \o SubSeq(frames, 1, n)
             /\ inside' = SubSeq(frames, n + 2, Len(frames))
  /\ UNCHANGED <<enc, trailer>>

\* Fault: the encoder is not drained.
CloseEncoder_NoDrain ==
  /\ enc' = "none" /\ trailer' = (trailer \/ enc = "open")
  /\ UNCHANGED <<file, inside>>

\* AnnotatedVideo.close: an open encoder is drained and the trailer written; one
\* whose close failed before has nothing left to do.
CloseEncoder ==
  /\ enc' = "none"
  /\ IF enc = "open"
     THEN Muxed(inside, Len(inside)) /\ trailer' = TRUE
     ELSE UNCHANGED <<file, inside, trailer>>

\* The drain fails: some packets are out, there is no trailer, and the encoder
\* counts as closed.
CloseFails ==
  /\ enc = "open" /\ enc' = "closed"
  /\ \E n \in 0 .. Len(inside) : Muxed(inside, n)
  /\ UNCHANGED trailer

\* Entering the drain or writing the trailer fails, which close() does not look
\* at: it returns, and frames held back or the trailer are missing.
CloseUnseen ==
  /\ enc = "open" /\ enc' = "none"
  /\ \E n \in 0 .. Len(inside) : Muxed(inside, n)
  /\ trailer' \in BOOLEAN

=============================================================================
