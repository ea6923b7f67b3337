------------------------ MODULE AnnotatedStreamProofs ------------------------
(***************************************************************************)
(* Proofs about AnnotatedStream, for every decoder, codec and encoder      *)
(* delay, batch size and number of connections: a source that was read to  *)
(* its end was processed to its end, and the video shows what the records  *)
(* tell.                                                                   *)
(***************************************************************************)
EXTENDS AnnotatedStream, SequenceTheorems, TLAPS

Pic == Nat \X Nat

\* Where the worker is while a connection is open.
Working == {"loop", "next", "flush", "infer", "frame", "writing", "encoding",
            "disabling", "emitting"}

\* How the worker's place, its batch and the decoder's call go together.
Control ==
  /\ pc \in {"top", "connect", "closing", "down", "finally", "finishing", "ended"} => batch = <<>>
  /\ pc \in {"writing", "encoding", "disabling", "emitting"} => batch # <<>>
  /\ pc \in {"loop", "next"} => outcome = "none"
  /\ pc = "flush" => outcome \in {"finished", "stopped"}
  /\ pc \in Working => outcome # "error"
  /\ pc \in Working \ {"next"} => call = "idle"
  /\ pc = "next" => call \in {"receiving", "reading", "frame", "eof", "raised"}
  /\ outcome = "finished" /\ pc = "closing" => call = "idle"

\* A decoder that reads has not begun to drain, and one that drains gives all
\* it was sent.
Drain ==
  /\ call = "reading" => ~draining
  /\ call = "eof" => given = read
  /\ backend = "rocdecode" => /\ given + ready <= read
                              /\ draining => given + ready = read

\* The first k pictures of connection t are at the end of h, the next ones in b.
Delivered(h, b, k, t) ==
  /\ k \in Nat /\ k <= Len(h)
  /\ \A n \in 1 .. k : h[Len(h) - k + n] = <<t, n>>
  /\ \A n \in 1 .. Len(b) : b[n] = <<t, k + n>>

\* Every picture that came out of the decoder is on its way to the worker, in
\* its batch, or has had its record handed over, in order.
Pictures ==
  /\ pc \in Working \/ (pc = "closing" /\ outcome = "finished")
       => \/ call = "raised"
          \/ Delivered(handed, batch,
                       given - Len(batch) - (IF call = "frame" THEN 1 ELSE 0), tries)
  /\ outcome = "finished" /\ pc \in Working \cup {"closing"} => given = read

\* As long as the annotated output works and no join was late, the file and the
\* encoder hold the frames whose records were handed over, and the one that is.
Shown ==
  ~late /\ ~troubled =>
    /\ video <=> pc # "ended"
    /\ pc \notin {"disabling", "crashed"}
    /\ enc # "closed"
    /\ pc \in {"encoding", "emitting"} => enc = "open"
    /\ file \o inside = IF pc = "emitting" THEN Append(handed, Head(batch)) ELSE handed
    /\ enc = "none" => inside = <<>>
    /\ enc = "none" /\ handed # <<>> => pc = "ended" /\ trailer
    /\ pc = "ended" => enc = "none"

\* Who may touch the annotated output besides the worker.
Stopping ==
  /\ at \in {"closing", "dropping"} => late
  /\ at \in {"idle", "aborting", "joining"} => ~late
  /\ pc = "ended" => ~video
  /\ pc = "disabling" => troubled

Inv == AnnTypeOK /\ Control /\ Drain /\ Pictures /\ Shown /\ Stopping

EncTypeOK ==
  /\ enc \in {"none", "open", "closed"} /\ trailer \in BOOLEAN
  /\ inside \in Seq(Pic) /\ file \in Seq(Pic)

-----------------------------------------------------------------------------
(* Sequences. *)

LEMMA Associative ==
  ASSUME NEW f \in Seq(Pic), NEW g \in Seq(Pic), NEW h \in Seq(Pic)
  PROVE  (f \o g) \o h = f \o (g \o h)
BY ConcatAssociative

\* Whatever part of g is moved behind f, the two hold the same as before.
LEMMA Moved ==
  ASSUME NEW f \in Seq(Pic), NEW g \in Seq(Pic), NEW n \in 0 .. Len(g)
  PROVE  /\ f \o SubSeq(g, 1, n) \in Seq(Pic) /\ SubSeq(g, n + 1, Len(g)) \in Seq(Pic)
         /\ (f \o SubSeq(g, 1, n)) \o SubSeq(g, n + 1, Len(g)) = f \o g
<1>1. Len(g) \in Nat /\ \A i \in 1 .. Len(g) : g[i] \in Pic
  BY LenProperties, ElementOfSeq
<1>2. n \in Int /\ n + 1 \in Int /\ 0 <= n /\ n <= Len(g)
  BY <1>1
<1>3. SubSeq(g, 1, n) \in Seq(Pic)
  <2>1. \A i \in 1 .. n : g[i] \in Pic
    BY <1>1, <1>2
  <2> QED
    BY <1>2, <2>1, SubSeqProperties
<1>4. SubSeq(g, n + 1, Len(g)) \in Seq(Pic)
  <2>1. \A i \in n + 1 .. Len(g) : g[i] \in Pic
    BY <1>1, <1>2
  <2> QED
    BY <1>1, <1>2, <2>1, SubSeqProperties
<1>5. SubSeq(g, 1, n) \o SubSeq(g, n + 1, Len(g)) = g
  <2>1. SubSeq(g, 1, n) \o SubSeq(g, n + 1, Len(g)) = SubSeq(g, 1, Len(g))
    <3>1. 1 \in 1 .. Len(g) + 1 /\ n \in 1 - 1 .. Len(g) /\ Len(g) \in n .. Len(g)
      BY <1>1, <1>2
    <3> QED
      BY <3>1, ConcatAdjacentSubSeq
  <2> QED
    BY <2>1, SubSeqFull
<1>6. f \o SubSeq(g, 1, n) \in Seq(Pic)
  BY <1>3, ConcatProperties
<1>7. (f \o SubSeq(g, 1, n)) \o SubSeq(g, n + 1, Len(g)) = f \o g
  <2> DEFINE a == SubSeq(g, 1, n)
             b == SubSeq(g, n + 1, Len(g))
  <2>1. a \in Seq(Pic) /\ b \in Seq(Pic) /\ a \o b = g
    BY <1>3, <1>4, <1>5
  <2> HIDE DEF a, b
  <2>3. (f \o a) \o b = f \o (a \o b)
    BY <2>1, Associative
  <2> QED
    BY <2>1, <2>3 DEF a, b
<1> QED
  BY <1>4, <1>6, <1>7

LEMMA ConcatAppend ==
  ASSUME NEW f \in Seq(Pic), NEW g \in Seq(Pic), NEW e \in Pic
  PROVE  /\ Append(g, e) \in Seq(Pic)
         /\ f \o Append(g, e) = Append(f \o g, e)
<1>1. Append(g, e) \in Seq(Pic) /\ Append(g, e) = g \o <<e>> /\ <<e>> \in Seq(Pic)
  BY AppendProperties, AppendIsConcat
<1>2. f \o g \in Seq(Pic)
  BY ConcatProperties
<1>3. Append(f \o g, e) = (f \o g) \o <<e>>
  BY <1>2, AppendIsConcat
<1>4. (f \o g) \o <<e>> = f \o (g \o <<e>>)
  BY <1>1, ConcatAssociative
<1> QED
  BY <1>1, <1>3, <1>4

\* The head of a batch is a picture, and its tail a batch.
LEMMA BatchParts ==
  ASSUME NEW b \in Seq(Pic), b # <<>>
  PROVE  /\ Head(b) \in Pic /\ Tail(b) \in Seq(Pic) /\ Len(Tail(b)) = Len(b) - 1
         /\ Len(b) \in Nat \ {0} /\ Head(b) = b[1]
         /\ \A n \in 1 .. Len(b) - 1 : Tail(b)[n] = b[n + 1]
<1>1. Head(b) \in Pic /\ Tail(b) \in Seq(Pic) /\ Len(Tail(b)) = Len(b) - 1
      /\ \A n \in 1 .. Len(Tail(b)) : Tail(b)[n] = b[n + 1]
  BY HeadTailProperties
<1>2. Len(b) \in Nat \ {0}
  BY EmptySeq
<1> QED
  BY <1>1, <1>2

-----------------------------------------------------------------------------
(* Types. *)

LEMMA DecType ==
  ASSUME DecTypeOK, Drain, DecNext
  PROVE  DecTypeOK'
<1>1. CASE GivePicture \/ Drained \/ NeedPacket \/ CodecFails
  BY <1>1 DEF DecTypeOK, Returned, GivePicture, Drained, NeedPacket, CodecFails
<1>2. CASE VideoPacket
  <2>1. read + 1 \in Nat /\ given <= read + 1
    BY DEF DecTypeOK
  <2> QED
    BY <1>2, <2>1 DEF DecTypeOK, Returned, VideoPacket
<1>6. CASE OtherPacket \/ ReadFails
  BY <1>6 DEF DecTypeOK, Returned, OtherPacket, ReadFails
<1>9. CASE EndOfInput \/ Interrupted
  BY <1>9 DEF DecTypeOK, Returned, EndOfInput, Interrupted
<1>7. CASE Tick
  BY <1>7 DEF DecTypeOK, Returned, Tick
<1>3. CASE RocNeedPacket \/ RocDrained
  BY <1>3 DEF DecTypeOK, Returned, RocNeedPacket, RocDrained
<1>8. CASE RocEndOfInput
  <2>1. read - given \in Nat
    BY DEF DecTypeOK
  <2> QED
    BY <1>8, <2>1 DEF DecTypeOK, Returned, RocEndOfInput
<1>4. CASE RocPacket
  BY <1>4 DEF DecTypeOK, Returned, RocPacket
<1>5. CASE RocGivePicture
  <2>1. given + ready <= read /\ given \in Nat /\ ready \in Nat /\ read \in Nat /\ ready > 0
    BY <1>5 DEF Drain, DecTypeOK, RocGivePicture
  <2>2. given + 1 \in Nat /\ given + 1 <= read /\ ready - 1 \in Nat
    BY <2>1
  <2> QED
    BY <1>5, <2>2 DEF DecTypeOK, Returned, RocGivePicture
<1> QED
  BY <1>1, <1>2, <1>3, <1>4, <1>5, <1>6, <1>7, <1>8, <1>9 DEF DecNext

LEMMA DrainStep ==
  ASSUME DecTypeOK, Drain, DecNext
  PROVE  Drain'
<1>1. CASE GivePicture \/ Drained \/ NeedPacket \/ CodecFails
  BY <1>1 DEF DecTypeOK, Drain, GivePicture, Drained, NeedPacket, CodecFails
<1>2. CASE VideoPacket \/ OtherPacket \/ ReadFails \/ EndOfInput \/ Interrupted \/ Tick
  BY <1>2 DEF DecTypeOK, Drain, VideoPacket, OtherPacket, ReadFails, EndOfInput,
              Interrupted, Tick
<1>3. CASE RocNeedPacket \/ RocDrained
  BY <1>3 DEF DecTypeOK, Drain, RocNeedPacket, RocDrained
<1>6. CASE RocEndOfInput
  <2>1. given + (read - given) = read /\ read <= read
    BY DEF DecTypeOK
  <2> QED
    BY <1>6, <2>1 DEF Drain, RocEndOfInput
<1>4. CASE RocPacket
  <2>1. ready' \in Nat /\ given + ready' <= read'
    <3>1. ready' \in 0 .. read' - given /\ read' = read + 1
      BY <1>4 DEF RocPacket
    <3>2. read' \in Int /\ given \in Int
      BY <3>1 DEF DecTypeOK
    <3> QED
      BY <3>1, <3>2
  <2>2. call = "reading" /\ call' \in {"receiving", "raised"} /\ draining' = draining /\ given' = given
    BY <1>4 DEF RocPacket
  <2> QED
    BY <2>1, <2>2 DEF Drain
<1>5. CASE RocGivePicture
  BY <1>5 DEF DecTypeOK, Drain, RocGivePicture
<1> QED
  BY <1>1, <1>2, <1>3, <1>4, <1>5, <1>6 DEF DecNext

\* What a step of the annotated output may be.
EncStep(f) ==
  CreateEncoder \/ EncodeFrame(f) \/ EncodeFails(f) \/ CloseEncoder \/ CloseFails \/ CloseUnseen

LEMMA EncType ==
  ASSUME EncTypeOK, NEW f \in Pic, EncStep(f)
  PROVE  EncTypeOK'
<1>1. CASE CreateEncoder
  BY <1>1, EmptySeq DEF CreateEncoder, EncTypeOK
<1>2. CASE EncodeFrame(f) \/ EncodeFails(f)
  <2> DEFINE frames == Append(inside, f)
  <2>1. frames \in Seq(Pic) /\ Len(frames) \in Nat
    BY AppendProperties, LenProperties DEF EncTypeOK
  <2>2. \A n \in 0 .. Len(frames) :
          /\ file \o SubSeq(frames, 1, n) \in Seq(Pic)
          /\ SubSeq(frames, n + 1, Len(frames)) \in Seq(Pic)
    BY <2>1, Moved DEF EncTypeOK
  <2> HIDE DEF frames
  <2>3. \A n \in 0 .. Len(frames) - 1 : SubSeq(frames, n + 2, Len(frames)) \in Seq(Pic)
    <3> SUFFICES ASSUME NEW n \in 0 .. Len(frames) - 1
                 PROVE  SubSeq(frames, n + 2, Len(frames)) \in Seq(Pic)
      OBVIOUS
    <3>1. n + 1 \in 0 .. Len(frames) /\ (n + 1) + 1 = n + 2
      BY <2>1
    <3> QED
      BY <2>2, <3>1
  <2>4. CASE EncodeFrame(f)
    BY <2>2, <2>4 DEF EncodeFrame, Muxed, frames, EncTypeOK
  <2>5. CASE EncodeFails(f)
    <3>1. CASE UNCHANGED <<file, inside>>
      BY <2>5, <3>1 DEF EncodeFails, EncTypeOK
    <3>2. CASE \E n \in 0 .. Len(frames) - 1 :
                 /\ file' = file \o SubSeq(frames, 1, n)
                 /\ inside' = SubSeq(frames, n + 2, Len(frames))
      <4>1. PICK n \in 0 .. Len(frames) - 1 :
                 /\ file' = file \o SubSeq(frames, 1, n)
                 /\ inside' = SubSeq(frames, n + 2, Len(frames))
        BY <3>2
      <4>2. n \in 0 .. Len(frames)
        BY <2>1
      <4> QED
        BY <2>2, <2>3, <2>5, <4>1, <4>2 DEF EncodeFails, EncTypeOK
    <3> QED
      BY <2>5, <3>1, <3>2 DEF EncodeFails, frames
  <2> QED
    BY <1>2, <2>4, <2>5
<1>3. CASE CloseEncoder \/ CloseFails \/ CloseUnseen
  <2>1. inside \in Seq(Pic) /\ Len(inside) \in Nat
    BY LenProperties DEF EncTypeOK
  <2>2. \A n \in 0 .. Len(inside) :
          /\ file \o SubSeq(inside, 1, n) \in Seq(Pic)
          /\ SubSeq(inside, n + 1, Len(inside)) \in Seq(Pic)
    BY <2>1, Moved DEF EncTypeOK
  <2>3. Len(inside) \in 0 .. Len(inside)
    BY <2>1
  <2> QED
    BY <1>3, <2>2, <2>3 DEF CloseEncoder, CloseFails, CloseUnseen, Muxed, EncTypeOK
<1> QED
  BY <1>1, <1>2, <1>3 DEF EncStep

-----------------------------------------------------------------------------
(* Steps of the worker and of the application, and what they leave alone. *)

\* Steps of the decoder, of the worker without one, and of the application.
Quiet ==
  \/ Top \/ Closing \/ Down \/ Loop \/ EndOfSource \/ Flush \/ Infer \/ NextOfBatch \/ Finally

\* Steps of the application that leave the encoder alone.
Asking == BeginStop \/ Abort \/ Joined \/ DropVideo \/ Clash

\* The steps of Next, as the proofs below split them.
LEMMA NextCases ==
  ASSUME Next
  PROVE  \/ Quiet \/ Open \/ Decode \/ TakeFrame \/ SourceFails \/ StartWrite \/ Write
         \/ WriteFails \/ Disable \/ Emit \/ Finish \/ Asking \/ CloseVideo
BY Zenon DEF Next, Worker, Quiet, Asking

\* The frame the worker works on.
LEMMA HeadOfBatch ==
  ASSUME AnnTypeOK, batch # <<>>
  PROVE  Head(batch) \in Pic /\ Tail(batch) \in Seq(Pic)
BY BatchParts DEF AnnTypeOK, Pic

\* What the steps of the annotated output do to the encoder.
LEMMA EncoderSteps ==
  ASSUME AnnTypeOK, Control,
         StartWrite \/ Write \/ WriteFails \/ Disable \/ Finish \/ CloseVideo
  PROVE  EncTypeOK'
<1>1. EncTypeOK
  BY DEF AnnTypeOK, EncTypeOK, Pic
<1>2. <<0, 0>> \in Pic
  BY DEF Pic
<1>3. CASE UNCHANGED encVars
  BY <1>1, <1>3 DEF encVars, EncTypeOK
<1>4. CASE CreateEncoder \/ CloseEncoder \/ CloseFails \/ CloseUnseen
  BY <1>1, <1>2, <1>4, EncType DEF EncStep
<1>5. CASE \/ pc = "encoding" /\ EncodeFrame(Head(batch))
           \/ pc = "encoding" /\ EncodeFails(Head(batch))
  <2>1. Head(batch) \in Pic
    BY <1>5, HeadOfBatch DEF Control
  <2> QED
    BY <1>1, <1>5, <2>1, EncType DEF EncStep
<1>6. CASE /\ file' = file \/ file' = <<>>
           /\ trailer' = (trailer /\ file' = file)
           /\ UNCHANGED <<enc, inside>>
  BY <1>1, <1>6, EmptySeq DEF EncTypeOK
<1> QED
  BY <1>3, <1>4, <1>5, <1>6 DEF StartWrite, Write, WriteFails, Disable, Finish, CloseVideo

LEMMA TypeStep ==
  ASSUME AnnTypeOK, Control, Drain, Next
  PROVE  AnnTypeOK'
<1> USE DEF Pic
<1>1. EncTypeOK <=> /\ enc \in {"none", "open", "closed"} /\ trailer \in BOOLEAN
                    /\ inside \in Seq(Nat \X Nat) /\ file \in Seq(Nat \X Nat)
  BY DEF EncTypeOK
<1>2. CASE Quiet
  BY <1>2 DEF Quiet, AnnTypeOK, DecTypeOK, Goto, Top, Closing, Down, Loop, EndOfSource,
     Flush, Infer, NextOfBatch, Finally, CloseDecoder, CallNext, Returned, encVars, decVars, app
<1>3. CASE Open
  <2>1. DecTypeOK'
    <3>1. CASE OpenDecoder
      <4>1. /\ call' = "idle" /\ read' = 0 /\ given' = 0 /\ ready' = 0 /\ elapsed' = 0
            /\ draining' = FALSE /\ aborted' = FALSE /\ backend' = backend
        BY <3>1 DEF OpenDecoder
      <4>2. call' \in {"idle"} /\ draining' \in BOOLEAN /\ aborted' \in BOOLEAN
        BY <4>1
      <4>3. read' \in Nat /\ given' \in Nat /\ given' <= read' /\ ready' \in Nat /\ elapsed' \in Nat
        BY <4>1
      <4>4. backend' \in Backends
        BY <4>1 DEF AnnTypeOK, DecTypeOK
      <4> QED
        BY <4>2, <4>3, <4>4 DEF DecTypeOK
    <3>2. CASE UNCHANGED decVars
      BY <3>2 DEF AnnTypeOK, DecTypeOK, decVars
    <3> QED
      BY <1>3, <3>1, <3>2 DEF Open
  <2>2. tries' \in Nat /\ pc' \in {"loop", "down"} /\ outcome' \in {"none", "error"}
    BY <1>3 DEF Open, AnnTypeOK
  <2> QED
    BY <1>3, <2>1, <2>2 DEF Open, AnnTypeOK, encVars, app
<1>4. CASE Decode
  <2>1. DecTypeOK'
    BY <1>4, DecType DEF AnnTypeOK, Decode
  <2> QED
    BY <1>4, <2>1 DEF Decode, AnnTypeOK, encVars, worker, app
<1>5. CASE TakeFrame
  <2>1. <<tries, given>> \in Pic
    BY DEF AnnTypeOK, DecTypeOK
  <2>2. batch' \in Seq(Nat \X Nat)
    BY <1>5, <2>1, AppendProperties DEF TakeFrame, AnnTypeOK
  <2> QED
    BY <1>5, <2>2 DEF TakeFrame, AnnTypeOK, DecTypeOK, encVars, app
<1>6. CASE SourceFails
  BY <1>6, EmptySeq DEF SourceFails, Raise, AnnTypeOK, DecTypeOK, encVars, decVars, app
<1>7. CASE StartWrite \/ Write \/ WriteFails
  <2>1. EncTypeOK'
    BY <1>7, EncoderSteps
  <2>2. /\ enc' \in {"none", "open", "closed"} /\ trailer' \in BOOLEAN
        /\ inside' \in Seq(Nat \X Nat) /\ file' \in Seq(Nat \X Nat)
    BY <2>1 DEF EncTypeOK
  <2> QED
    <3>1. DecTypeOK'
      BY <1>7 DEF StartWrite, Write, WriteFails, AnnTypeOK, DecTypeOK, decVars
    <3>2. /\ pc' \in {"encoding", "emitting", "disabling"} /\ troubled' \in BOOLEAN
          /\ UNCHANGED <<tries, batch, outcome, live, video, stop, at, late, handed>>
      BY <1>7 DEF StartWrite, Write, WriteFails, Goto, AnnTypeOK, app
    <3> QED
      BY <2>2, <3>1, <3>2 DEF AnnTypeOK
<1>8. CASE Disable \/ Finish \/ CloseVideo
  <2>1. EncTypeOK'
    BY <1>8, EncoderSteps
  <2>2. /\ enc' \in {"none", "open", "closed"} /\ trailer' \in BOOLEAN
        /\ inside' \in Seq(Nat \X Nat) /\ file' \in Seq(Nat \X Nat)
    BY <2>1 DEF EncTypeOK
  <2>3. <<>> \in Seq(Nat \X Nat)
    BY EmptySeq
  <2> QED
    <3>1. DecTypeOK'
      BY <1>8 DEF Disable, Finish, CloseVideo, AnnTypeOK, DecTypeOK, decVars
    <3>2. /\ pc' \in {"emitting", "closing", "ended", pc} /\ outcome' \in {"error", outcome}
          /\ troubled' \in BOOLEAN /\ video' \in BOOLEAN /\ batch' \in {<<>>, batch}
          /\ at' \in {"dropping", "done", at}
          /\ UNCHANGED <<tries, live, stop, late, handed>>
      BY <1>8 DEF Disable, Finish, CloseVideo, Goto, Raise, AnnTypeOK, app, worker
    <3>3. batch' \in Seq(Nat \X Nat) /\ handed' \in Seq(Nat \X Nat)
      BY <2>3, <3>2 DEF AnnTypeOK
    <3>4. /\ pc' \in {"top", "connect", "loop", "next", "flush", "infer", "frame", "writing",
                     "encoding", "disabling", "emitting", "closing", "down", "finally",
                     "finishing", "ended", "crashed"}
          /\ outcome' \in {"none", "finished", "stopped", "error"}
          /\ at' \in {"idle", "aborting", "joining", "closing", "dropping", "done"}
      BY <3>2 DEF AnnTypeOK
    <3>5. /\ tries' \in Nat /\ live' \in BOOLEAN /\ video' \in BOOLEAN
          /\ stop' \in BOOLEAN /\ late' \in BOOLEAN /\ troubled' \in BOOLEAN
      BY <3>2 DEF AnnTypeOK
    <3> HIDE DEF Pic
    <3> QED
      BY <2>2, <3>1, <3>3, <3>4, <3>5 DEF AnnTypeOK
<1>9. CASE Emit
  <2>1. batch # <<>>
    BY <1>9 DEF Emit, Control
  <2>2. Head(batch) \in Pic /\ Tail(batch) \in Seq(Pic)
    BY <2>1, HeadOfBatch
  <2>3. handed' \in Seq(Pic) /\ batch' \in Seq(Pic)
    BY <1>9, <2>2, AppendProperties DEF Emit, AnnTypeOK
  <2> QED
    BY <1>9, <2>3 DEF Emit, AnnTypeOK, DecTypeOK, decVars, encVars, app
<1>10. CASE Asking
  <2>1. DecTypeOK'
    BY <1>10 DEF Asking, BeginStop, Abort, Joined, DropVideo, Clash, AnnTypeOK, DecTypeOK, decVars
  <2> QED
    BY <1>10, <2>1 DEF Asking, BeginStop, Abort, Joined, DropVideo, Clash, AnnTypeOK, encVars,
       worker
<1> QED
  BY <1>2, <1>3, <1>4, <1>5, <1>6, <1>7, <1>8, <1>9, <1>10, NextCases

LEMMA ControlStep ==
  ASSUME AnnTypeOK, Control, Next
  PROVE  Control'
<1>1. CASE Quiet
  BY <1>1 DEF Quiet, Control, Working, Goto, Top, Closing, Down, Loop, EndOfSource, Flush,
     Infer, NextOfBatch, Finally, CloseDecoder, CallNext, decVars, AnnTypeOK
<1>2. CASE Open
  BY <1>2 DEF Open, OpenDecoder, Control, Working
<1>3. CASE Decode
  <2>1. call' \in {"receiving", "reading", "frame", "eof", "raised"}
    BY <1>3 DEF Decode, Control, DecNext, GivePicture, Drained, NeedPacket, CodecFails,
       VideoPacket, OtherPacket, ReadFails, EndOfInput, Interrupted, Tick, RocNeedPacket,
       RocPacket, RocEndOfInput, RocGivePicture, RocDrained
  <2> QED
    BY <1>3, <2>1 DEF Decode, Control, Working, worker
<1>4. CASE TakeFrame
  BY <1>4 DEF TakeFrame, Control, Working
<1>5. CASE SourceFails
  BY <1>5 DEF SourceFails, Raise, Control, Working
<1>6. CASE StartWrite \/ Write \/ WriteFails
  BY <1>6 DEF StartWrite, Write, WriteFails, Goto, Control, Working, decVars
<1>7. CASE Disable \/ Finish
  BY <1>7 DEF Disable, Finish, Goto, Raise, Control, Working, decVars
<1>8. CASE Emit
  BY <1>8 DEF Emit, Control, Working, decVars
<1>9. CASE Asking \/ CloseVideo
  BY <1>9 DEF Asking, CloseVideo, BeginStop, Abort, Joined, DropVideo, Clash, Control, Working,
     decVars, worker
<1> QED
  BY <1>1, <1>2, <1>3, <1>4, <1>5, <1>6, <1>7, <1>8, <1>9, NextCases

LEMMA DrainKept ==
  ASSUME AnnTypeOK, Drain, Next
  PROVE  Drain'
<1>1. CASE Decode
  BY <1>1, DrainStep DEF Decode, AnnTypeOK
<1>2. CASE Quiet
  BY <1>2 DEF Quiet, Drain, Goto, Top, Closing, Down, Loop, EndOfSource, Flush,
     Infer, NextOfBatch, Finally, CloseDecoder, CallNext, decVars
<1>3. CASE Open
  BY <1>3 DEF Open, OpenDecoder, Drain, decVars
<1>4. CASE \/ TakeFrame \/ SourceFails \/ StartWrite \/ Write \/ WriteFails \/ Disable
           \/ Emit \/ Finish \/ CloseVideo
  BY <1>4 DEF TakeFrame, SourceFails, StartWrite, Write, WriteFails, Disable, Emit, Finish,
     CloseVideo, Drain, decVars
<1>5. CASE Asking
  BY <1>5 DEF Asking, BeginStop, Abort, Joined, DropVideo, Clash, Drain, decVars
<1> QED
  BY <1>1, <1>2, <1>3, <1>4, <1>5, NextCases

LEMMA StoppingStep ==
  ASSUME AnnTypeOK, Stopping, Next
  PROVE  Stopping'
<1>1. CASE Quiet
  BY <1>1 DEF Quiet, Stopping, Goto, Top, Closing, Down, Loop, EndOfSource, Flush, Infer,
     NextOfBatch, Finally, app
<1>2. CASE \/ Open \/ Decode \/ TakeFrame \/ SourceFails \/ StartWrite \/ Write \/ WriteFails
           \/ Disable \/ Emit \/ Finish
  BY <1>2 DEF Open, Decode, TakeFrame, SourceFails, StartWrite, Write, WriteFails, Disable, Emit,
     Finish, Raise, Goto, Stopping, app, worker
<1>3. CASE Asking \/ CloseVideo
  BY <1>3 DEF Asking, CloseVideo, BeginStop, Abort, Joined, DropVideo, Clash, Stopping, worker,
     AnnTypeOK
<1> QED
  BY <1>1, <1>2, <1>3, NextCases

-----------------------------------------------------------------------------
(* Pictures. *)

\* A picture that comes out of the decoder is the next one of the batch.
LEMMA TakeDelivers ==
  ASSUME NEW h \in Seq(Pic), NEW b \in Seq(Pic), NEW k, NEW t \in Nat, Delivered(h, b, k, t)
  PROVE  Delivered(h, Append(b, <<t, k + Len(b) + 1>>), k, t)
<1> DEFINE e == <<t, k + Len(b) + 1>>
<1>1. k \in Nat /\ Len(b) \in Nat
  BY LenProperties DEF Delivered
<1>2. e \in Pic
  BY <1>1 DEF Pic
<1>3. /\ Len(Append(b, e)) = Len(b) + 1
      /\ \A n \in 1 .. Len(b) : Append(b, e)[n] = b[n]
      /\ Append(b, e)[Len(b) + 1] = e
  BY <1>2, AppendProperties
<1>4. \A n \in 1 .. Len(b) : b[n] = <<t, k + n>>
  BY DEF Delivered
<1>5. e = <<t, k + (Len(b) + 1)>>
  BY <1>1
<1> HIDE DEF e
<1>6. ASSUME NEW n \in 1 .. Len(b) + 1
      PROVE  Append(b, e)[n] = <<t, k + n>>
  <2>1. CASE n = Len(b) + 1
    BY <1>3, <1>5, <2>1
  <2>2. CASE n # Len(b) + 1
    <3>1. n \in 1 .. Len(b)
      BY <1>1, <2>2
    <3> QED
      BY <1>3, <1>4, <3>1
  <2> QED
    BY <2>1, <2>2
<1>7. Delivered(h, Append(b, e), k, t)
  BY <1>3, <1>6 DEF Delivered
<1> QED
  BY <1>7 DEF e

\* A record that is handed over is that of the next picture.
LEMMA EmitDelivers ==
  ASSUME NEW h \in Seq(Pic), NEW b \in Seq(Pic), NEW k, NEW t, Delivered(h, b, k, t), b # <<>>
  PROVE  Delivered(Append(h, Head(b)), Tail(b), k + 1, t)
<1>1. k \in Nat /\ Len(h) \in Nat /\ k <= Len(h)
  BY LenProperties DEF Delivered
<1>2. /\ Head(b) \in Pic /\ Len(b) \in Nat \ {0} /\ Head(b) = b[1]
      /\ Len(Tail(b)) = Len(b) - 1
      /\ \A n \in 1 .. Len(b) - 1 : Tail(b)[n] = b[n + 1]
  BY BatchParts
<1>3. /\ \A n \in 1 .. k : h[Len(h) - k + n] = <<t, n>>
      /\ \A n \in 1 .. Len(b) : b[n] = <<t, k + n>>
  BY DEF Delivered
<1>4. /\ Len(Append(h, Head(b))) = Len(h) + 1
      /\ \A n \in 1 .. Len(h) : Append(h, Head(b))[n] = h[n]
      /\ Append(h, Head(b))[Len(h) + 1] = Head(b)
  BY <1>2, AppendProperties
<1>5. Head(b) = <<t, k + 1>>
  BY <1>2, <1>3
<1>6. ASSUME NEW n \in 1 .. k + 1
      PROVE  Append(h, Head(b))[(Len(h) + 1) - (k + 1) + n] = <<t, n>>
  <2>1. CASE n = k + 1
    BY <1>1, <1>4, <1>5, <2>1
  <2>2. CASE n # k + 1
    <3>1. n \in 1 .. k /\ (Len(h) + 1) - (k + 1) + n = Len(h) - k + n
          /\ Len(h) - k + n \in 1 .. Len(h)
      BY <1>1, <2>2
    <3> QED
      BY <1>3, <1>4, <3>1
  <2> QED
    BY <2>1, <2>2
<1>7. ASSUME NEW n \in 1 .. Len(b) - 1
      PROVE  Tail(b)[n] = <<t, (k + 1) + n>>
  <2>1. n + 1 \in 1 .. Len(b) /\ k + (n + 1) = (k + 1) + n
    BY <1>1, <1>2
  <2> QED
    BY <1>2, <1>3, <2>1
<1>8. k + 1 \in Nat /\ k + 1 <= Len(h) + 1
  BY <1>1
<1>9. ASSUME NEW hh, NEW bb, hh = Append(h, Head(b)), bb = Tail(b)
      PROVE  Delivered(hh, bb, k + 1, t)
  BY <1>2, <1>4, <1>6, <1>7, <1>8, <1>9 DEF Delivered
<1> QED
  BY <1>9

\* The pictures that have had their record handed over.
Done == given - Len(batch) - (IF call = "frame" THEN 1 ELSE 0)

LEMMA DecodeDelivers ==
  ASSUME AnnTypeOK, Pictures, Control, Decode
  PROVE  Pictures'
<1>1. /\ pc = "next" /\ pc' = pc /\ batch' = batch /\ handed' = handed /\ tries' = tries
      /\ outcome' = outcome /\ outcome = "none"
  BY DEF Decode, worker, Control
<1>2. call \in {"receiving", "reading"}
  BY DEF Decode, DecNext, GivePicture, Drained, NeedPacket, CodecFails,
     VideoPacket, OtherPacket, ReadFails, EndOfInput, Interrupted, Tick, RocNeedPacket,
     RocPacket, RocEndOfInput, RocGivePicture, RocDrained
<1>3. \/ call' = "raised"
      \/ call' = "frame" /\ given' = given + 1
      \/ call' \in {"receiving", "reading", "eof"} /\ given' = given
  BY DEF Decode, DecNext, GivePicture, Drained, NeedPacket, CodecFails,
     VideoPacket, OtherPacket, ReadFails, EndOfInput, Interrupted, Tick, RocNeedPacket,
     RocPacket, RocEndOfInput, RocGivePicture, RocDrained
<1>4. given \in Nat /\ Len(batch) \in Nat
  BY LenProperties DEF AnnTypeOK, DecTypeOK
<1>5. Delivered(handed, batch, given - Len(batch), tries)
  <2>1. given - Len(batch) - 0 = given - Len(batch)
    BY <1>4
  <2> QED
    BY <1>1, <1>2, <2>1 DEF Pictures, Working
<1>6. call' = "raised" \/ Delivered(handed', batch', Done', tries')
  <2>1. call' # "raised" => Done' = given - Len(batch)
    BY <1>1, <1>3, <1>4 DEF Done
  <2> QED
    BY <1>1, <1>5, <2>1
<1> QED
  BY <1>1, <1>6 DEF Pictures, Done

LEMMA PicturesStep ==
  ASSUME AnnTypeOK, Control, Drain, Pictures, Next
  PROVE  Pictures'
<1>1. given \in Nat /\ Len(batch) \in Nat /\ tries \in Nat
  BY LenProperties DEF AnnTypeOK, DecTypeOK
<1>2. CASE Decode
  BY <1>2, DecodeDelivers
<1>3. CASE Open
  <2>1. CASE OpenDecoder /\ pc' = "loop"
    <3>1. /\ batch' = <<>> /\ handed' = handed /\ given' = 0 /\ call' = "idle"
          /\ outcome' = "none"
      BY <1>3, <2>1 DEF Open, OpenDecoder, Control
    <3>2. handed \in Seq(Pic) /\ Len(handed) \in Nat
      BY LenProperties DEF AnnTypeOK, Pic
    <3>3. Delivered(handed, <<>>, 0, tries')
      BY <3>2 DEF Delivered
    <3>4. Len(<<>>) = 0 /\ 0 - 0 - 0 = 0
      OBVIOUS
    <3> QED
      BY <3>1, <3>3, <3>4 DEF Pictures
  <2>2. CASE pc' = "down"
    BY <2>2 DEF Pictures, Working
  <2> QED
    BY <1>3, <2>1, <2>2 DEF Open
<1>4. CASE TakeFrame
  <2>1. /\ pc = "next" /\ call = "frame" /\ call' = "idle" /\ given' = given /\ tries' = tries
        /\ batch' = Append(batch, <<tries, given>>) /\ handed' = handed
        /\ outcome' = outcome /\ outcome = "none"
    BY <1>4 DEF TakeFrame, Control
  <2> DEFINE k == given - Len(batch) - 1
  <2>2. Delivered(handed, batch, k, tries)
    BY <2>1 DEF Pictures, Working
  <2>3. handed \in Seq(Pic) /\ batch \in Seq(Pic)
    BY DEF AnnTypeOK, Pic
  <2>4. k + Len(batch) + 1 = given
    BY <1>1
  <2> HIDE DEF k
  <2>5. Delivered(handed, Append(batch, <<tries, k + Len(batch) + 1>>), k, tries)
    BY <1>1, <2>2, <2>3, TakeDelivers
  <2>6. Delivered(handed', batch', k, tries')
    BY <2>1, <2>4, <2>5
  <2>7. Len(batch') = Len(batch) + 1
    <3>1. <<tries, given>> \in Pic
      BY <1>1 DEF Pic
    <3> QED
      BY <2>1, <2>3, <3>1, AppendProperties
  <2>8. k = given' - Len(batch') - 0
    BY <1>1, <2>1, <2>7 DEF k
  <2> QED
    BY <2>1, <2>6, <2>8 DEF Pictures
<1>5. CASE SourceFails
  BY <1>5 DEF SourceFails, Raise, Pictures, Working
<1>6. CASE Emit
  <2>1. /\ pc = "emitting" /\ call = "idle" /\ call' = call /\ given' = given /\ tries' = tries
        /\ batch' = Tail(batch) /\ handed' = Append(handed, Head(batch)) /\ batch # <<>>
        /\ outcome' = outcome /\ read' = read /\ pc' = "frame"
    BY <1>6 DEF Emit, Control, Working, decVars
  <2> DEFINE k == given - Len(batch)
  <2>2. Delivered(handed, batch, k, tries)
    <3>1. given - Len(batch) - 0 = k
      BY <1>1
    <3> QED
      BY <2>1, <3>1 DEF Pictures, Working
  <2>3. handed \in Seq(Pic) /\ batch \in Seq(Pic)
    BY DEF AnnTypeOK, Pic
  <2> HIDE DEF k
  <2>4. Delivered(handed', batch', k + 1, tries')
    BY <2>1, <2>2, <2>3, EmitDelivers
  <2>5. Len(batch') = Len(batch) - 1
    BY <2>1, <2>3, BatchParts
  <2>6. k + 1 = given' - Len(batch') - 0
    BY <1>1, <2>1, <2>5 DEF k
  <2> QED
    BY <2>1, <2>4, <2>6 DEF Pictures, Working
<1>7. CASE EndOfSource
  <2>1. /\ pc = "next" /\ call = "eof" /\ call' = "idle" /\ pc' = "flush" /\ given' = given
        /\ read' = read /\ tries' = tries /\ batch' = batch /\ handed' = handed
    BY <1>7 DEF EndOfSource
  <2>2. given = read
    BY <2>1 DEF Drain
  <2> QED
    BY <2>1, <2>2 DEF Pictures, Working
<1>8. CASE \/ Top \/ Closing \/ Down \/ Loop \/ Flush \/ Infer \/ NextOfBatch \/ Finally
  BY <1>8 DEF Top, Closing, Down, Loop, Flush, Infer, NextOfBatch, Finally, Goto, CloseDecoder,
     CallNext, Control, Pictures, Working, decVars
<1>9. CASE StartWrite \/ Write \/ WriteFails \/ Disable \/ Finish
  BY <1>9 DEF StartWrite, Write, WriteFails, Disable, Finish, Goto, Raise, Control, Pictures,
     Working, decVars
<1>10. CASE Asking \/ CloseVideo
  BY <1>10 DEF Asking, CloseVideo, BeginStop, Abort, Joined, DropVideo, Clash, Control, Pictures,
     Working, decVars, worker
<1> QED
  BY <1>2, <1>3, <1>4, <1>5, <1>6, <1>7, <1>8, <1>9, <1>10, NextCases DEF Quiet

-----------------------------------------------------------------------------
(* The video. *)

\* The worker, as long as the annotated output works and no join was late.
LEMMA ShownByWorker ==
  ASSUME AnnTypeOK, Control, Shown, Stopping, ~late, ~troubled,
         StartWrite \/ Write \/ Disable \/ Finish
  PROVE  Shown'
<1> DEFINE full == file \o inside
<1>1. /\ video <=> pc # "ended"
      /\ pc \notin {"disabling", "crashed"}
      /\ enc # "closed"
      /\ pc \in {"encoding", "emitting"} => enc = "open"
      /\ pc # "emitting" => full = handed
      /\ enc = "none" => inside = <<>>
      /\ enc = "none" /\ handed # <<>> => pc = "ended" /\ trailer
  BY DEF Shown
<1>2. file \in Seq(Pic) /\ inside \in Seq(Pic) /\ handed \in Seq(Pic)
      /\ enc \in {"none", "open", "closed"}
  BY DEF AnnTypeOK, Pic
<1> HIDE DEF full
<1>3. CASE StartWrite
  <2>1. CASE enc # "none" /\ UNCHANGED encVars
    BY <1>1, <1>2, <1>3, <2>1 DEF StartWrite, Goto, encVars, app, full, Shown
  <2>2. CASE CreateEncoder
    <3>1. handed = <<>> /\ handed' = handed /\ file' = <<>> /\ inside' = <<>> /\ enc' = "open"
      BY <1>1, <1>3, <2>2 DEF StartWrite, CreateEncoder
    <3>2. file' \o inside' = handed'
      BY <3>1, <1>2, ConcatEmptySeq
    <3> QED
      BY <1>1, <1>3, <3>1, <3>2 DEF StartWrite, Goto, app, Shown
  <2> QED
    BY <1>3, <2>1, <2>2 DEF StartWrite
<1>4. CASE Write
  <2> DEFINE f == Head(batch)
             frames == Append(inside, f)
  <2>1. f \in Pic
    BY <1>4, HeadOfBatch DEF Write, Control
  <2>2. frames \in Seq(Pic) /\ file \o frames = Append(full, f)
    BY <1>2, <2>1, ConcatAppend DEF full
  <2>3. full = handed /\ enc = "open" /\ enc' = "open" /\ pc' = "emitting"
        /\ batch' = batch /\ handed' = handed /\ video' = video /\ video
    BY <1>1, <1>4 DEF Write, Goto, EncodeFrame
  <2>4. PICK n \in 0 .. Len(frames) :
             /\ file' = file \o SubSeq(frames, 1, n)
             /\ inside' = SubSeq(frames, n + 1, Len(frames))
    BY <1>4 DEF Write, EncodeFrame, Muxed
  <2> HIDE DEF f, frames
  <2>5. file' \o inside' = Append(handed, f)
    BY <1>2, <2>2, <2>3, <2>4, Moved
  <2> QED
    BY <2>3, <2>5 DEF f, Shown
<1>5. CASE Disable
  BY <1>1, <1>5 DEF Disable
<1>6. CASE Finish
  <2>1. /\ pc = "finishing" /\ pc' = "ended" /\ video' = FALSE /\ handed' = handed
        /\ full = handed
    BY <1>1, <1>6 DEF Finish, Goto
  <2>2. CASE troubled'
    BY <2>2 DEF Shown
  <2>3. CASE CloseEncoder /\ enc = "open"
    <3>1. /\ file' = file \o SubSeq(inside, 1, Len(inside))
          /\ inside' = SubSeq(inside, Len(inside) + 1, Len(inside))
          /\ trailer' = TRUE /\ enc' = "none"
      BY <2>3 DEF CloseEncoder, Muxed
    <3>2. Len(inside) \in 0 .. Len(inside) /\ Len(inside) \in Nat
      BY <1>2, LenProperties
    <3>3. file' \o inside' = handed
      BY <1>2, <2>1, <3>1, <3>2, Moved DEF full
    <3>4. inside' = <<>>
      BY <3>1, <3>2, SubSeqEmpty
    <3> QED
      BY <2>1, <3>1, <3>3, <3>4 DEF Shown
  <2>4. CASE CloseEncoder /\ enc = "none"
    <3>1. handed = <<>> /\ inside' = inside /\ file' = file /\ enc' = "none" /\ inside = <<>>
      BY <1>1, <2>1, <2>4 DEF CloseEncoder
    <3> QED
      BY <2>1, <3>1 DEF Shown, full
  <2> QED
    BY <1>1, <1>2, <1>6, <2>1, <2>2, <2>3, <2>4 DEF Finish
<1> QED
  BY <1>3, <1>4, <1>5, <1>6

LEMMA ShownStep ==
  ASSUME AnnTypeOK, Control, Shown, Stopping, Next
  PROVE  Shown'
<1> SUFFICES ASSUME ~late', ~troubled'
             PROVE  Shown'
  BY DEF Shown
<1>1. CASE StartWrite \/ Write \/ Disable \/ Finish
  <2>1. late' = late
    BY <1>1 DEF StartWrite, Write, Disable, Finish, app
  <2>2. ~troubled
    BY <1>1 DEF StartWrite, Write, Disable, Finish
  <2> QED
    BY <1>1, <2>1, <2>2, ShownByWorker
<1>2. CASE Emit
  <2>1. /\ ~late /\ ~troubled /\ pc = "emitting" /\ pc' = "frame"
        /\ handed' = Append(handed, Head(batch)) /\ UNCHANGED <<enc, inside, file, trailer, video>>
    BY <1>2 DEF Emit, encVars, app
  <2>2. file \o inside = Append(handed, Head(batch)) /\ enc = "open" /\ video
    BY <2>1 DEF Shown
  <2> QED
    BY <2>1, <2>2 DEF Shown
<1>3. CASE WriteFails
  BY <1>3 DEF WriteFails
<1>4. CASE Quiet
  <2>1. /\ ~late /\ ~troubled
        /\ UNCHANGED <<enc, inside, file, trailer, video, handed>>
        /\ pc' # "emitting" \/ ~video
        /\ pc # "emitting" /\ pc' \notin {"disabling", "crashed", "encoding"}
        /\ pc' = "ended" => ~video
        /\ pc # "ended"
    BY <1>4 DEF Quiet, Goto, Top, Closing, Down, Loop, EndOfSource, Flush, Infer, NextOfBatch,
       Finally, encVars, app
  <2> QED
    BY <2>1 DEF Shown
<1>5. CASE Open \/ Decode \/ TakeFrame \/ SourceFails
  <2>1. /\ ~late /\ ~troubled
        /\ UNCHANGED <<enc, inside, file, trailer, video, handed>>
        /\ pc \notin {"emitting", "ended"}
        /\ pc' \notin {"disabling", "crashed", "encoding", "emitting", "ended"}
    BY <1>5 DEF Open, Decode, TakeFrame, SourceFails, Raise, encVars, app, worker
  <2> QED
    BY <2>1 DEF Shown
<1>6. CASE Asking
  <2>1. CASE BeginStop \/ Abort
    BY <1>6, <2>1 DEF BeginStop, Abort, Shown, encVars, worker
  <2>2. CASE Joined
    <3>1. ~late
      BY <2>2 DEF Joined, Stopping
    <3> QED
      BY <2>2, <3>1 DEF Joined, Shown, encVars, worker
  <2>3. CASE DropVideo \/ Clash
    BY <2>3 DEF DropVideo, Clash, Stopping
  <2> QED
    BY <1>6, <2>1, <2>2, <2>3 DEF Asking
<1>7. CASE CloseVideo
  BY <1>7 DEF CloseVideo, Stopping
<1> QED
  BY <1>1, <1>2, <1>3, <1>4, <1>5, <1>6, <1>7, NextCases

-----------------------------------------------------------------------------
(* An invariant of the stream. *)

LEMMA InvInit == Init => Inv
<1> SUFFICES ASSUME Init
             PROVE  Inv
  OBVIOUS
<1>1. <<>> \in Seq(Nat \X Nat) /\ <<>> \in Seq(Pic)
  BY EmptySeq
<1>2. <<>> \o <<>> = <<>>
  BY <1>1, ConcatEmptySeq
<1>3. AnnTypeOK
  <2>1. DecTypeOK
    <3>1. /\ call = "closed" /\ read = 0 /\ given = 0 /\ ready = 0 /\ elapsed = 0
          /\ draining = FALSE /\ aborted = FALSE /\ backend \in Backends
      BY DEF Init, DecInit
    <3>2. call \in {"closed"} /\ draining \in BOOLEAN /\ aborted \in BOOLEAN
      BY <3>1
    <3>3. read \in Nat /\ given \in Nat /\ given <= read /\ ready \in Nat /\ elapsed \in Nat
      BY <3>1
    <3> QED
      BY <3>1, <3>2, <3>3 DEF DecTypeOK
  <2> QED
    BY <1>1, <2>1 DEF Init, EncInit, AnnTypeOK
<1>4. Control /\ Drain /\ Stopping
  BY DEF Init, DecInit, EncInit, Control, Drain, Stopping, Working
<1>5. Pictures /\ Shown
  BY <1>2 DEF Init, DecInit, EncInit, Pictures, Shown, Working
<1> QED
  BY <1>3, <1>4, <1>5 DEF Inv

LEMMA InvNext == Inv /\ [Next]_vars => Inv'
<1> SUFFICES ASSUME Inv, [Next]_vars
             PROVE  Inv'
  OBVIOUS
<1>1. AnnTypeOK /\ Control /\ Drain /\ Pictures /\ Shown /\ Stopping
  BY DEF Inv
<1>2. CASE Next
  BY <1>1, <1>2, TypeStep, ControlStep, DrainKept, PicturesStep, ShownStep, StoppingStep DEF Inv
<1>3. CASE UNCHANGED vars
  <2>1. AnnTypeOK'
    BY <1>1, <1>3 DEF vars, decVars, encVars, worker, app, AnnTypeOK, DecTypeOK
  <2>2. Control' /\ Drain' /\ Stopping'
    BY <1>1, <1>3 DEF vars, decVars, encVars, worker, app, Control, Drain, Stopping
  <2>3. Pictures' /\ Shown'
    BY <1>1, <1>3 DEF vars, decVars, encVars, worker, app, Pictures, Shown
  <2> QED
    BY <2>1, <2>2, <2>3 DEF Inv
<1> QED
  BY <1>2, <1>3

LEMMA Invariance == Spec => []Inv
BY InvInit, InvNext, PTL DEF Spec

\* The stream's state keeps its types through every interleaving of the worker
\* and the application.
THEOREM Typed == Spec => []AnnTypeOK
<1>1. Inv => AnnTypeOK
  BY DEF Inv
<1> QED
  BY <1>1, Invariance, PTL

\* A source that was read to its end has had every picture processed, whatever
\* the codec holds back and however the last batch is filled.
THEOREM EndIsComplete == Spec => []EofComplete
<1>1. ASSUME Inv
      PROVE  EofComplete
  <2> SUFFICES ASSUME pc = "closing", outcome = "finished"
               PROVE  /\ Len(handed) >= read
                      /\ \A n \in 1 .. read : handed[Len(handed) - read + n] = <<tries, n>>
    BY DEF EofComplete
  <2>1. batch = <<>> /\ call = "idle" /\ given = read
    BY <1>1 DEF Inv, Control, Pictures
  <2>2. read \in Nat
    BY <1>1 DEF Inv, AnnTypeOK, DecTypeOK
  <2>3. Len(<<>>) = 0 /\ read - 0 - 0 = read
    BY <2>2
  <2>4. Delivered(handed, batch, read, tries)
    BY <1>1, <2>1, <2>3 DEF Inv, Pictures
  <2>5. Len(handed) \in Nat
    BY <1>1, LenProperties DEF Inv, AnnTypeOK
  <2> QED
    BY <2>2, <2>4, <2>5 DEF Delivered
<1> QED
  BY <1>1, Invariance, PTL

\* A worker that ended in time leaves a complete video of exactly the frames
\* whose records were handed over, unless the annotated output failed.
THEOREM VideoIsComplete == Spec => []VideoComplete
<1>1. ASSUME Inv
      PROVE  VideoComplete
  <2> SUFFICES ASSUME pc = "ended", ~late, ~troubled
               PROVE  file = handed /\ (handed # <<>> => trailer)
    BY DEF VideoComplete
  <2>1. file \o inside = handed
    BY <1>1 DEF Inv, Shown
  <2>2. enc = "none"
    BY <1>1 DEF Inv, Shown, Stopping
  <2> QED
    BY <1>1, <2>1, <2>2, ConcatEmptySeq DEF Inv, Shown, AnnTypeOK
<1> QED
  BY <1>1, Invariance, PTL

=============================================================================
