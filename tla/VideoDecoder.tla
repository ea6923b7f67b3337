---------------------------- MODULE VideoDecoder ----------------------------
(***************************************************************************)
(* The two decoders of avap: VaapiDecoder (vaapi_decoder.cpp) with         *)
(* FFmpeg's demuxer, the deadline of every network read and abort(), and   *)
(* RocDecoder (rocdec_decoder.cpp), whose demuxer has neither.             *)
(*                                                                         *)
(* Pictures are numbered in the order in which they come out, one for each *)
(* video packet, so two counters say what the codec holds.  Left out: what *)
(* a picture carries, how it is exported (dmabuf or host copy: either      *)
(* gives a picture or raises), and the descriptor's ownership, which is    *)
(* modelled with the first pipeline (Pipeline.tla).                        *)
(***************************************************************************)
EXTENDS Integers, Sequences

CONSTANTS
  Backends,     \* the decoders a stream may use
  CodecDelay,   \* pictures the codec may hold back before it drains
  ReadTimeout,  \* kReadTimeoutS, in ticks
  MaxPackets    \* bound: video packets of one connection

ASSUME DecoderAssumption ==
  /\ Backends \subseteq {"vaapi", "rocdecode"}
  /\ CodecDelay \in Nat /\ ReadTimeout \in Nat \ {0} /\ MaxPackets \in Nat

VARIABLES
  backend,   \* AMDStream.decode_backend
  call,      \* what next_frame is doing, or what it returned
  read,      \* video packets sent to the codec
  given,     \* pictures that came out of it
  ready,     \* Impl::pending: pictures RocDecoder has yet to fetch
  draining,  \* draining_, Impl::eof
  elapsed,   \* ticks since arm_deadline
  aborted    \* abort_

decVars == <<backend, call, read, given, ready, draining, elapsed, aborted>>

Returned == {"frame", "eof", "raised"}

DecTypeOK ==
  /\ call \in {"closed", "idle", "receiving", "reading"} \cup Returned
  /\ read \in Nat /\ given \in Nat /\ given <= read
  /\ backend \in Backends /\ ready \in Nat
  /\ draining \in BOOLEAN /\ elapsed \in Nat /\ aborted \in BOOLEAN

DecInit ==
  /\ backend \in Backends
  /\ call = "closed" /\ read = 0 /\ given = 0 /\ ready = 0
  /\ draining = FALSE /\ elapsed = 0 /\ aborted = FALSE

\* The constructor succeeded.
OpenDecoder ==
  /\ call = "closed" /\ call' = "idle"
  /\ read' = 0 /\ given' = 0 /\ ready' = 0
  /\ draining' = FALSE /\ elapsed' = 0 /\ aborted' = FALSE
  /\ UNCHANGED backend

CloseDecoder ==
  /\ call' = "closed"
  /\ UNCHANGED <<backend, read, given, ready, draining, elapsed, aborted>>

CallNext ==
  /\ call = "idle" /\ call' = "receiving"
  /\ UNCHANGED <<backend, read, given, ready, draining, elapsed, aborted>>

-----------------------------------------------------------------------------
(* VaapiDecoder::next_frame. *)

\* avcodec_receive_frame: a picture, which is exported; the end; more input
\* is needed; an error.
GivePicture ==
  /\ backend = "vaapi" /\ call = "receiving" /\ given < read
  /\ given' = given + 1
  /\ call' \in {"frame", "raised"}
  /\ UNCHANGED <<backend, read, ready, draining, elapsed, aborted>>

Drained ==
  /\ backend = "vaapi" /\ call = "receiving" /\ draining /\ given = read
  /\ call' = "eof"
  /\ UNCHANGED <<backend, read, given, ready, draining, elapsed, aborted>>

NeedPacket ==
  /\ backend = "vaapi" /\ call = "receiving" /\ ~draining /\ read - given <= CodecDelay
  /\ call' = "reading" /\ elapsed' = 0
  /\ UNCHANGED <<backend, read, given, ready, draining, aborted>>

CodecFails ==
  /\ backend = "vaapi" /\ call = "receiving" /\ call' = "raised"
  /\ UNCHANGED <<backend, read, given, ready, draining, elapsed, aborted>>

\* av_read_frame: a packet of the video stream, which the codec takes; one of
\* another stream, which is dropped and the deadline armed again; an error.
VideoPacket ==
  /\ backend = "vaapi" /\ call = "reading" /\ read < MaxPackets
  /\ read' = read + 1 /\ call' = "receiving"
  /\ UNCHANGED <<backend, given, ready, draining, elapsed, aborted>>

OtherPacket ==
  /\ backend = "vaapi" /\ call = "reading" /\ elapsed' = 0
  /\ UNCHANGED <<backend, call, read, given, ready, draining, aborted>>

ReadFails ==
  /\ backend = "vaapi" /\ call = "reading" /\ call' = "raised"
  /\ UNCHANGED <<backend, read, given, ready, draining, elapsed, aborted>>

\* Fault: the codec is not drained.
EndOfInput_NoDrain ==
  /\ backend = "vaapi" /\ call = "reading" /\ call' = "eof"
  /\ UNCHANGED <<backend, read, given, ready, draining, elapsed, aborted>>

\* The end of the source puts the codec into drain mode.
EndOfInput ==
  /\ backend = "vaapi" /\ call = "reading" /\ call' = "receiving"
  /\ draining' = TRUE
  /\ UNCHANGED <<backend, read, given, ready, elapsed, aborted>>

\* Fault: the callback looks at the deadline only.
Interrupted_DeadlineOnly ==
  /\ backend = "vaapi" /\ call = "reading" /\ elapsed = ReadTimeout
  /\ call' = "raised"
  /\ UNCHANGED <<backend, read, given, ready, draining, elapsed, aborted>>

\* interrupt_cb: the read fails once it was aborted or its deadline is over.
Interrupted ==
  /\ backend = "vaapi" /\ call = "reading" /\ (aborted \/ elapsed = ReadTimeout)
  /\ call' = "raised"
  /\ UNCHANGED <<backend, read, given, ready, draining, elapsed, aborted>>

Tick ==
  /\ backend = "vaapi" /\ call = "reading" /\ elapsed < ReadTimeout
  /\ elapsed' = elapsed + 1
  /\ UNCHANGED <<backend, call, read, given, ready, draining, aborted>>

-----------------------------------------------------------------------------
(* RocDecoder: advance, then the conversion on the device. *)

RocNeedPacket ==
  /\ backend = "rocdecode" /\ call = "receiving" /\ ready = 0 /\ ~draining
  /\ call' = "reading"
  /\ UNCHANGED <<backend, read, given, ready, draining, elapsed, aborted>>

\* A packet is decoded, which completes some of the pictures held back, or raises.
RocPacket ==
  /\ backend = "rocdecode" /\ call = "reading" /\ read < MaxPackets
  /\ read' = read + 1
  /\ ready' \in {n \in 0 .. read' - given : read' - given - n <= CodecDelay}
  /\ call' \in {"receiving", "raised"}
  /\ UNCHANGED <<backend, given, draining, elapsed, aborted>>

\* The demuxer returns nothing, at the end or after an error: the decoder drains.
RocEndOfInput ==
  /\ backend = "rocdecode" /\ call = "reading" /\ call' = "receiving"
  /\ draining' = TRUE /\ ready' = read - given
  /\ UNCHANGED <<backend, read, given, elapsed, aborted>>

\* One picture is fetched and converted, or the conversion fails.
RocGivePicture ==
  /\ backend = "rocdecode" /\ call = "receiving" /\ ready > 0
  /\ ready' = ready - 1 /\ given' = given + 1
  /\ call' \in {"frame", "raised"}
  /\ UNCHANGED <<backend, read, draining, elapsed, aborted>>

RocDrained ==
  /\ backend = "rocdecode" /\ call = "receiving" /\ ready = 0 /\ draining
  /\ call' = "eof"
  /\ UNCHANGED <<backend, read, given, ready, draining, elapsed, aborted>>

DecNext ==
  \/ GivePicture \/ Drained \/ NeedPacket \/ CodecFails
  \/ VideoPacket \/ OtherPacket \/ ReadFails \/ EndOfInput \/ Interrupted \/ Tick
  \/ RocNeedPacket \/ RocPacket \/ RocEndOfInput \/ RocGivePicture \/ RocDrained

\* Time passes, and FFmpeg calls the callback while it waits.
DecFairness == WF_decVars(Tick) /\ WF_decVars(Interrupted)

=============================================================================
