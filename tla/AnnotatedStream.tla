-------------------------- MODULE AnnotatedStream ---------------------------
(***************************************************************************)
(* One AMDStream with annotated_output (streaming.py), between the decoder *)
(* it reads from and the encoder it writes to: the worker of one start,    *)
(* and the application, which may stop the stream.                         *)
(*                                                                         *)
(* A frame is <<connection, picture>>.  Left out: sampling and calibration *)
(* (frames they pass over), what the model and the tracker compute (they   *)
(* may raise), and the sink: a record it refuses is handed to it as well.  *)
(* Constructors hold the interpreter lock, so they are one step.           *)
(***************************************************************************)
EXTENDS VideoDecoder, VideoEncoder

CONSTANTS
  BatchSize,  \* batch_size
  MaxTries,   \* connections: max_retries + 1, none of which lasts reset_after_s
  SlowJoin    \* TRUE when the join of stop_stream may run into its timeout

ASSUME AnnotatedAssumption ==
  {BatchSize, MaxTries} \subseteq Nat \ {0} /\ SlowJoin \in BOOLEAN

VARIABLES
  live,      \* is_live
  pc,        \* where the worker is
  tries,     \* connections it has begun
  batch,     \* frames it has collected, or has yet to emit
  outcome,   \* how the source loop ended, "none" before
  video,     \* AMDStream._annotated is not None
  stop,      \* AMDStream._stop
  at,        \* where the application is in stop_stream
  late,      \* the join timed out
  handed,    \* history: frames whose record was handed to the sink
  troubled   \* history: the annotated output raised, or its close failed unseen

worker == <<pc, tries, batch, outcome>>
app == <<stop, at, late>>
vars == <<decVars, encVars, live, worker, video, app, handed, troubled>>

AnnTypeOK ==
  /\ DecTypeOK
  /\ enc \in {"none", "open", "closed"} /\ trailer \in BOOLEAN
  /\ pc \in {"top", "connect", "loop", "next", "flush", "infer", "frame", "writing",
             "encoding", "disabling", "emitting", "closing", "down", "finally",
             "finishing", "ended", "crashed"}
  /\ tries \in Nat /\ outcome \in {"none", "finished", "stopped", "error"}
  /\ at \in {"idle", "aborting", "joining", "closing", "dropping", "done"}
  /\ live \in BOOLEAN /\ video \in BOOLEAN /\ stop \in BOOLEAN /\ late \in BOOLEAN
  /\ troubled \in BOOLEAN
  /\ batch \in Seq(Nat \X Nat) /\ handed \in Seq(Nat \X Nat)
  /\ inside \in Seq(Nat \X Nat) /\ file \in Seq(Nat \X Nat)

Init ==
  /\ DecInit /\ EncInit
  /\ live \in BOOLEAN
  /\ pc = "top" /\ tries = 0 /\ batch = <<>> /\ outcome = "none"
  /\ video = TRUE /\ stop = FALSE /\ at = "idle" /\ late = FALSE
  /\ handed = <<>> /\ troubled = FALSE

Goto(l) == pc' = l /\ UNCHANGED <<tries, batch, outcome>>

\* An exception leaves the source loop: the batch is lost.
Raise == pc' = "closing" /\ batch' = <<>> /\ outcome' = "error" /\ UNCHANGED tries

-----------------------------------------------------------------------------
(* The retry cycle. *)

Top ==
  /\ pc = "top"
  /\ Goto(IF stop THEN "finally" ELSE "connect")
  /\ UNCHANGED <<decVars, encVars, live, video, app, handed, troubled>>

Open ==
  /\ pc = "connect"
  /\ tries' = tries + 1
  /\ \/ OpenDecoder /\ pc' = "loop" /\ outcome' = "none"
     \/ UNCHANGED decVars /\ pc' = "down" /\ outcome' = "error"
  /\ UNCHANGED <<batch, encVars, live, video, app, handed, troubled>>

\* The decoder is closed.  A file whose loop ended without an error is at eof.
Closing ==
  /\ pc = "closing"
  /\ CloseDecoder
  /\ Goto(IF ~live /\ outcome # "error" THEN "finally" ELSE "down")
  /\ UNCHANGED <<encVars, live, video, app, handed, troubled>>

\* The stream was stopped, or gives up, or waits and tries again.
Down ==
  /\ pc = "down"
  /\ Goto(IF stop \/ tries = MaxTries THEN "finally" ELSE "top")
  /\ UNCHANGED <<decVars, encVars, live, video, app, handed, troubled>>

-----------------------------------------------------------------------------
(* The source loop. *)

Loop ==
  /\ pc = "loop"
  /\ IF stop THEN /\ pc' = "flush" /\ outcome' = "stopped"
                  /\ UNCHANGED <<tries, batch, decVars>>
             ELSE Goto("next") /\ CallNext
  /\ UNCHANGED <<encVars, live, video, app, handed, troubled>>

\* The decoder works on next_frame.
Decode ==
  /\ pc = "next" /\ DecNext
  /\ UNCHANGED <<encVars, live, worker, video, app, handed, troubled>>

\* next_frame returns a frame, which is converted and collected.
TakeFrame ==
  /\ pc = "next" /\ call = "frame" /\ call' = "idle"
  /\ batch' = Append(batch, <<tries, given>>)
  /\ pc' = IF Len(batch') = BatchSize THEN "infer" ELSE "loop"
  /\ UNCHANGED <<backend, read, given, ready, draining, elapsed, aborted, encVars, live, tries, outcome,
                 video, app, handed, troubled>>

\* next_frame returns None.
EndOfSource ==
  /\ pc = "next" /\ call = "eof" /\ call' = "idle"
  /\ pc' = "flush" /\ outcome' = "finished"
  /\ UNCHANGED <<backend, read, given, ready, draining, elapsed, aborted, encVars, live, tries, batch,
                 video, app, handed, troubled>>

\* next_frame, the conversion, the model or the tracker raises.
SourceFails ==
  /\ \/ pc = "next" /\ call \in {"frame", "raised"}
     \/ pc \in {"infer", "frame"} /\ batch # <<>>
  /\ Raise
  /\ UNCHANGED <<decVars, encVars, live, video, app, handed, troubled>>

\* What is left of the batch is padded and goes through the model, too.
Flush ==
  /\ pc = "flush"
  /\ Goto(IF batch = <<>> THEN "closing" ELSE "infer")
  /\ UNCHANGED <<decVars, encVars, live, video, app, handed, troubled>>

Infer ==
  /\ pc = "infer" /\ Goto("frame")
  /\ UNCHANGED <<decVars, encVars, live, video, app, handed, troubled>>

\* The next frame of the batch, or the end of the batch.
NextOfBatch ==
  /\ pc = "frame"
  /\ Goto(CASE batch = <<>> /\ outcome = "none" -> "loop"
            [] batch = <<>> /\ outcome # "none" -> "closing"
            [] batch # <<>> -> IF video THEN "writing" ELSE "emitting")
  /\ UNCHANGED <<decVars, encVars, live, video, app, handed, troubled>>

\* _annotated.write: the encoder is there, or made.
StartWrite ==
  /\ pc = "writing" /\ video
  /\ \/ enc # "none" /\ UNCHANGED encVars
     \/ CreateEncoder
  /\ Goto("encoding")
  /\ UNCHANGED <<decVars, live, video, app, handed, troubled>>

Write ==
  /\ pc = "encoding"
  /\ EncodeFrame(Head(batch))
  /\ Goto("emitting")
  /\ UNCHANGED <<decVars, live, video, app, handed, troubled>>

\* The write raises: the encoder cannot be made (its file may be there, empty),
\* refuses the frame, or the application has taken it away.
WriteFails ==
  /\ \/ /\ pc = "writing" /\ (video => enc = "none")
        /\ file' = file \/ (video /\ file' = <<>>)
        /\ trailer' = (trailer /\ file' = file)
        /\ UNCHANGED <<enc, inside>>
     \/ pc = "encoding" /\ EncodeFails(Head(batch))
     \/ pc = "encoding" /\ enc = "none" /\ UNCHANGED encVars
  /\ Goto("disabling") /\ troubled' = TRUE
  /\ UNCHANGED <<decVars, live, video, app, handed>>

\* After a failed write the annotated output is closed and given up.  When the
\* close raises as well, the exception leaves the source loop.
Disable ==
  /\ pc = "disabling"
  /\ \/ video /\ (CloseEncoder \/ CloseUnseen) /\ Goto("emitting")
     \/ video /\ CloseFails /\ Raise
     \/ ~video /\ Raise /\ UNCHANGED encVars
  /\ video' = FALSE
  /\ UNCHANGED <<decVars, live, app, handed, troubled>>

Emit ==
  /\ pc = "emitting"
  /\ handed' = Append(handed, Head(batch)) /\ batch' = Tail(batch)
  /\ pc' = "frame"
  /\ UNCHANGED <<tries, outcome, decVars, encVars, live, video, app, troubled>>

-----------------------------------------------------------------------------
(* The end of the thread. *)

Finally ==
  /\ pc = "finally"
  /\ Goto(IF video THEN "finishing" ELSE "ended")
  /\ UNCHANGED <<decVars, encVars, live, video, app, handed, troubled>>

Finish ==
  /\ pc = "finishing"
  /\ \/ video /\ CloseEncoder /\ UNCHANGED troubled
     \/ video /\ (CloseFails \/ CloseUnseen) /\ troubled' = TRUE
     \/ ~video /\ UNCHANGED <<encVars, troubled>>
  /\ video' = FALSE /\ Goto("ended")
  /\ UNCHANGED <<decVars, live, app, handed>>

Worker ==
  \/ Top \/ Open \/ Closing \/ Down \/ Loop \/ Decode \/ TakeFrame \/ EndOfSource
  \/ SourceFails \/ Flush \/ Infer \/ NextOfBatch \/ StartWrite \/ Write \/ WriteFails
  \/ Disable \/ Emit \/ Finally \/ Finish

-----------------------------------------------------------------------------
(* The application: stop_stream. *)

BeginStop ==
  /\ at = "idle" /\ pc # "crashed"
  /\ at' = "aborting" /\ stop' = TRUE
  /\ UNCHANGED <<late, decVars, encVars, live, worker, video, handed, troubled>>

\* The active decoder is told to abort; only the VAAPI loop has one.
Abort ==
  /\ at = "aborting" /\ at' = "joining"
  /\ aborted' = (backend = "vaapi" /\ call # "closed")
  /\ UNCHANGED <<stop, late, backend, call, read, given, ready, draining, elapsed, encVars, live, worker,
                 video, handed, troubled>>

\* The join returns, after ten seconds at the latest.
Joined ==
  /\ at = "joining" /\ (pc = "ended" \/ SlowJoin)
  /\ late' = (pc # "ended")
  /\ at' = IF video THEN "closing" ELSE "done"
  /\ UNCHANGED <<stop, decVars, encVars, live, worker, video, handed, troubled>>

\* After a late join the application closes the annotated output itself, and
\* forgets it in a step of its own.  An exception goes to the caller.
CloseVideo ==
  /\ at = "closing"
  /\ \/ video /\ (CloseEncoder \/ CloseUnseen) /\ at' = "dropping"
     \/ video /\ CloseFails /\ at' = "done"
     \/ ~video /\ UNCHANGED encVars /\ at' = "done"
  /\ UNCHANGED <<stop, late, decVars, live, worker, video, handed, troubled>>

DropVideo ==
  /\ at = "dropping" /\ at' = "done" /\ video' = FALSE
  /\ UNCHANGED <<stop, late, decVars, encVars, live, worker, handed, troubled>>

\* Two threads in one encoder, which has no lock: a use of freed contexts may
\* end the process.
Clash ==
  /\ at = "closing" /\ enc = "open" /\ pc \in {"encoding", "disabling", "finishing"}
  /\ pc' = "crashed" /\ at' = "done"
  /\ UNCHANGED <<tries, batch, outcome, stop, late, decVars, encVars, live, video,
                 handed, troubled>>

Next == Worker \/ BeginStop \/ Abort \/ Joined \/ CloseVideo \/ DropVideo \/ Clash

Spec == Init /\ [][Next]_vars /\ DecFairness

-----------------------------------------------------------------------------
(* Properties. *)

\* A source that was read to its end has had every picture of it processed: the
\* last records are those of its pictures, in order, and neither the codec nor
\* a partial batch keeps any
\* (VaapiDecoder::next_frame, AMDStream._process_source_vaapi).
EofComplete ==
  pc = "closing" /\ outcome = "finished" =>
    /\ Len(handed) >= read
    /\ \A n \in 1 .. read : handed[Len(handed) - read + n] = <<tries, n>>

\* A worker that ended in time leaves a video that is complete, with its
\* trailer, and shows exactly the frames whose records went to the sink, across
\* connections, stops and failures of the source, unless the annotated output
\* itself failed: it raised, or a step of its close failed unseen
\* (AMDStream._run, VcnEncoder::close).
VideoComplete ==
  pc = "ended" /\ ~late /\ ~troubled =>
    /\ file = handed
    /\ handed # <<>> => trailer

\* A read that waits for a silent network ends, and so does one that was
\* aborted, whatever else arrives (VaapiDecoder::interrupt_cb).
ReadReturns ==
  /\ (call = "reading" /\ elapsed = 1) ~> (call # "reading" \/ elapsed = 0)
  /\ (call = "reading" /\ aborted) ~> (call # "reading")

=============================================================================
