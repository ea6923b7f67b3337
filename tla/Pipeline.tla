------------------------------ MODULE Pipeline ------------------------------
(***************************************************************************)
(* The V1 pipeline of avap: StreamRegistry and its DecoderWorkers, each    *)
(* with a RingBuffer (registry.py, decoder.py, ringbuffer.py), and the     *)
(* pipeline thread that assembles a batch (batcher.py), converts its       *)
(* frames through the HIP bridge (bridge.py, hip_bridge.cpp) and calls the *)
(* sink (pipeline.py), while the application adds and removes streams and  *)
(* stops the pipeline.                                                     *)
(*                                                                         *)
(* A worker is one DecoderWorker object: a source_id that is removed and   *)
(* added again has two of them.  A frame is <<worker, n>>, the n-th frame  *)
(* the worker decodes; a ring is a set of frames, oldest the smallest n.   *)
(*                                                                         *)
(* The batcher only peeks, so a frame can be in its ring and in a batch at *)
(* once.  Its dmabuf is described by two variables: hasFd, the Python      *)
(* field (dmabuf_fd >= 0), and uses, how often its number was closed or    *)
(* handed to the HIP runtime.  The descriptor is open as long as uses is   *)
(* 0; later the number names nothing, and os.close raises, or whatever was *)
(* opened after it.  The assignment of -1 is taken atomic with the call    *)
(* before it: cutting it finer reaches the same values of the two.         *)
(*                                                                         *)
(* Left out: trackers and ROIs, what the model computes, dropped counters, *)
(* the length of the backoff, connecting apart from backing off, and streams whose frames carry no timestamp. *)
(***************************************************************************)
EXTENDS Integers, FiniteSets

CONSTANTS
  Worker,        \* DecoderWorker objects
  SourceOf,      \* [Worker -> source_id]
  Linear,        \* workers whose surfaces export as linear dmabufs
  Removable,     \* workers the application may remove one by one
  MaxFrames,     \* bound: [Worker -> frames it decodes]
  Capacity,      \* RingBuffer capacity
  JoinTimesOut   \* TRUE when a join may run into its timeout

ASSUME PipelineAssumption ==
  /\ IsFiniteSet(Worker) /\ Linear \cup Removable \subseteq Worker
  /\ MaxFrames \in [Worker -> Nat] /\ Capacity \in Nat \ {0}
  /\ JoinTimesOut \in BOOLEAN

VARIABLES
  registered,  \* StreamRegistry._streams
  leaving,     \* handles whose stop() runs or is due under the registry lock
  joining,     \* the one of them whose thread is being joined
  clearing,    \* the one of them whose ring is being cleared, under its lock
  stopReq,     \* DecoderWorker._stop
  late,        \* workers whose join timed out
  pc,          \* where a decoder thread is
  decoded,     \* frames a worker has decoded
  pts,         \* RawFrame.pts
  ring,        \* DecoderWorker.frame_queue
  recent,      \* frames with recv_us in the last window_ms
  hasFd,       \* RawFrame.dmabuf_fd >= 0
  uses,        \* how often the dmabuf's descriptor was consumed
  lastPts,     \* DynamicBatcher._last_pts, 0 for none
  todo,        \* streams of the snapshot the batcher has yet to look at
  window,      \* frames inside the batcher's time window
  batch,       \* items of the batch not processed yet
  importing,   \* the frame whose descriptor the bridge has read
  converted,   \* the frame whose tensor is with the model, the tracker or the sink
  handed,      \* frames that were ever put in a batch
  ghost,       \* frames shown after remove_stream of their stream returned
  phase,       \* Pipeline.stop(): "running", "stopping" (joins), "closing"
               \* (stop_all), "raised" (out of stop_all)
  loop         \* the pipeline thread: "running", "assembling", "clocked", "ended"

registry == <<registered, leaving, joining, clearing, stopReq, late>>
decoding == <<pc, decoded, pts>>
frames == <<ring, recent, hasFd, uses>>
batching == <<lastPts, todo, window, batch, importing, converted, handed, ghost>>
vars == <<registered, leaving, joining, clearing, stopReq, late, pc, decoded, pts,
          ring, recent, hasFd, uses, lastPts, todo, window, batch, importing,
          converted, handed, ghost, phase, loop>>

Frame == UNION {{w} \X (1 .. MaxFrames[w]) : w \in Worker}
SourceId == {SourceOf[w] : w \in Worker}

Init ==
  /\ registered = {} /\ leaving = {} /\ joining = {} /\ clearing = {} /\ late = {}
  /\ stopReq = [w \in Worker |-> FALSE]
  /\ pc = [w \in Worker |-> "new"]
  /\ decoded = [w \in Worker |-> 0]
  /\ pts = [f \in Frame |-> 0]
  /\ ring = [w \in Worker |-> {}] /\ recent = {}
  /\ hasFd = [f \in Frame |-> FALSE] /\ uses = [f \in Frame |-> 0]
  /\ lastPts = [s \in SourceId |-> 0]
  /\ todo = {} /\ window = {} /\ batch = {} /\ importing = {} /\ converted = {}
  /\ handed = {} /\ ghost = {}
  /\ phase = "running" /\ loop = "running"

-----------------------------------------------------------------------------
(* RawFrame.close and the ring buffer. *)

Opened(f) == hasFd[f] /\ uses[f] = 0

\* What the number of f names: its own descriptor, until that is consumed;
\* then none of a frame, or that of a frame which was decoded later and was
\* given the number again.
Named(f) ==
  IF uses[f] = 0 THEN {{f}}
  ELSE {{}} \cup {{g} : g \in {h \in Frame : Opened(h) /\ (h[1] = f[1] => h[2] > f[2])}}

Consume(f, named) ==
  uses' = [g \in Frame |-> IF g \in named \cup {f} THEN uses[g] + 1 ELSE uses[g]]

\* RawFrame.close returns.
Close(f) ==
  IF hasFd[f]
  THEN /\ \E named \in Named(f) : Consume(f, named)
       /\ hasFd' = [hasFd EXCEPT ![f] = FALSE]
  ELSE UNCHANGED <<hasFd, uses>>

\* RawFrame.close raises: the number names nothing, and stays in the field.
CloseRaises(f) ==
  /\ hasFd[f] /\ uses[f] > 0
  /\ Consume(f, {})
  /\ UNCHANGED hasFd

Oldest(w) == {f \in ring[w] : \A g \in ring[w] : f[2] <= g[2]}
Evicted(w) == IF Cardinality(ring[w]) >= Capacity THEN Oldest(w) ELSE {}

\* peek_latest_within: the newest frame of the ring inside the window.
Latest(w) == {f \in ring[w] \cap window : \A g \in ring[w] \cap window : g[2] <= f[2]}

-----------------------------------------------------------------------------
(* The registry, called by one application thread.  Its lock is held while *)
(* a handle is stopped, and leaving is empty when it is free.              *)

AddStream(w) ==
  /\ phase = "running" /\ leaving = {}
  /\ pc[w] = "new"
  /\ \A v \in registered : SourceOf[v] # SourceOf[w]
  /\ registered' = registered \cup {w}
  /\ pc' = [pc EXCEPT ![w] = "connecting"]
  /\ UNCHANGED <<leaving, joining, clearing, stopReq, late, decoded, pts, frames,
                 batching, phase, loop>>

RemoveStream(w) ==
  /\ phase = "running" /\ leaving = {}
  /\ w \in registered \cap Removable
  /\ registered' = registered \ {w}
  /\ leaving' = {w}
  /\ UNCHANGED <<joining, clearing, stopReq, late, decoding, frames, batching, phase, loop>>

\* DecoderWorker.stop: the stop event is set, then the thread is joined.
BeginJoin(w) ==
  /\ w \in leaving /\ joining = {} /\ clearing = {}
  /\ stopReq' = [stopReq EXCEPT ![w] = TRUE]
  /\ joining' = {w}
  /\ UNCHANGED <<registered, leaving, clearing, late, decoding, frames, batching, phase, loop>>

\* The join is over, because the thread ended or after five seconds.
EndJoin(w) ==
  /\ w \in joining
  /\ pc[w] = "ended" \/ JoinTimesOut
  /\ late' = IF pc[w] = "ended" THEN late ELSE late \cup {w}
  /\ joining' = {} /\ clearing' = {w}
  /\ UNCHANGED <<registered, leaving, stopReq, decoding, frames, batching, phase, loop>>

\* RingBuffer.clear closes one frame after the other, oldest first.
Clear(w) ==
  /\ w \in clearing
  /\ \E f \in Oldest(w) :
       /\ Close(f)
       /\ ring' = [ring EXCEPT ![w] = @ \ {f}]
       /\ recent' = recent \ {f}
  /\ UNCHANGED <<registry, decoding, batching, phase, loop>>

\* A close that raises ends clear, stop and remove_stream or stop_all: what is
\* left stays in the ring, and in the registry stop_all leaves all streams.
ClearRaises(w) ==
  /\ w \in clearing
  /\ \E f \in Oldest(w) :
       /\ CloseRaises(f)
       /\ ring' = [ring EXCEPT ![w] = @ \ {f}]
       /\ recent' = recent \ {f}
  /\ clearing' = {} /\ leaving' = {}
  /\ phase' = IF phase = "closing" THEN "raised" ELSE phase
  /\ UNCHANGED <<registered, joining, stopReq, late, decoding, batching, loop>>

\* The handle is stopped.  stop_all empties the registry after the last one.
Stopped(w) ==
  /\ w \in clearing /\ ring[w] = {}
  /\ clearing' = {} /\ leaving' = leaving \ {w}
  /\ registered' = IF phase = "closing" /\ leaving = {w} THEN {} ELSE registered
  /\ UNCHANGED <<joining, stopReq, late, decoding, frames, batching, phase, loop>>

\* Pipeline.stop: the thread is told to stop and joined for ten seconds, then
\* stop_all stops every stream.  A stop that raised may be called again.
Stop ==
  /\ phase \in {"running", "raised"} /\ leaving = {}
  /\ phase' = "stopping"
  /\ UNCHANGED <<registry, decoding, frames, batching, loop>>

StopAll ==
  /\ phase = "stopping"
  /\ loop = "ended" \/ JoinTimesOut
  /\ phase' = "closing"
  /\ leaving' = registered
  /\ UNCHANGED <<registered, joining, clearing, stopReq, late, decoding, frames, batching, loop>>

-----------------------------------------------------------------------------
(* A decoder thread: DecoderWorker._run and _decode_until_error. *)

\* Between two connections a thread opens the source or backs off, for a time
\* that nothing bounds from below.  It leaves its loop once it was told to stop.
Open(w) ==
  /\ pc[w] = "connecting" /\ ~stopReq[w]
  /\ pc' = [pc EXCEPT ![w] = "opened"]
  /\ UNCHANGED <<registry, decoded, pts, frames, batching, phase, loop>>

\* The stream ends or breaks.
Disconnect(w) ==
  /\ pc[w] \in {"opened", "reading"}
  /\ pc' = [pc EXCEPT ![w] = "connecting"]
  /\ UNCHANGED <<registry, decoded, pts, frames, batching, phase, loop>>

Exit(w) ==
  /\ pc[w] = "connecting" /\ stopReq[w]
  /\ pc' = [pc EXCEPT ![w] = "ended"]
  /\ UNCHANGED <<registry, decoded, pts, frames, batching, phase, loop>>

LastPts(w) == IF decoded[w] = 0 THEN 0 ELSE pts[<<w, decoded[w]>>]

\* next_frame returns a frame, which is stamped with the clock.  Timestamps
\* rise in a connection; a new one may begin again (a file that is opened
\* again, a new session of a camera).
Decode(w) ==
  LET f == <<w, decoded[w] + 1>> IN
  /\ pc[w] \in {"opened", "reading"} /\ decoded[w] < MaxFrames[w]
  /\ pc' = [pc EXCEPT ![w] = "pushing"]
  /\ decoded' = [decoded EXCEPT ![w] = @ + 1]
  /\ \E p \in {LastPts(w) + 1} \cup (IF pc[w] = "opened" THEN {1} ELSE {}) :
       pts' = [pts EXCEPT ![f] = p]
  /\ recent' = recent \cup {f}
  /\ hasFd' = [hasFd EXCEPT ![f] = w \in Linear]
  /\ UNCHANGED <<registry, ring, uses, batching, phase, loop>>

\* Fault: the evicted frame is not closed.
Push_NoClose(w) ==
  /\ pc[w] = "pushing" /\ w \notin clearing
  /\ ring' = [ring EXCEPT ![w] = (@ \ Evicted(w)) \cup {<<w, decoded[w]>>}]
  /\ recent' = recent \ Evicted(w)
  /\ pc' = [pc EXCEPT ![w] = IF stopReq[w] THEN "connecting" ELSE "reading"]
  /\ UNCHANGED <<registry, decoded, pts, hasFd, uses, batching, phase, loop>>

\* RingBuffer.push: the oldest frame of a full ring is taken out and closed,
\* and the new one appended.
Push(w) ==
  /\ pc[w] = "pushing" /\ w \notin clearing
  /\ \/ Evicted(w) = {} /\ UNCHANGED <<hasFd, uses>>
     \/ \E f \in Evicted(w) : Close(f)
  /\ ring' = [ring EXCEPT ![w] = (@ \ Evicted(w)) \cup {<<w, decoded[w]>>}]
  /\ recent' = recent \ Evicted(w)
  /\ pc' = [pc EXCEPT ![w] = IF stopReq[w] THEN "connecting" ELSE "reading"]
  /\ UNCHANGED <<registry, decoded, pts, batching, phase, loop>>

\* The close raises before the append: nobody has the new frame any more, and
\* the exception ends the connection.
PushRaises(w) ==
  /\ pc[w] = "pushing" /\ w \notin clearing
  /\ \E f \in Evicted(w) : CloseRaises(f)
  /\ ring' = [ring EXCEPT ![w] = @ \ Evicted(w)]
  /\ recent' = recent \ (Evicted(w) \cup {<<w, decoded[w]>>})
  /\ pc' = [pc EXCEPT ![w] = "connecting"]
  /\ UNCHANGED <<registry, decoded, pts, batching, phase, loop>>

\* Time passes: a frame leaves the window, after the older ones of its worker.
Expire(f) ==
  /\ f \in recent
  /\ \A g \in recent : g[1] = f[1] => f[2] <= g[2]
  /\ recent' = recent \ {f}
  /\ UNCHANGED <<registry, decoding, ring, hasFd, uses, batching, phase, loop>>

-----------------------------------------------------------------------------
(* The pipeline thread. *)

Idle == todo = {} /\ batch = {}

LoopTest ==
  /\ loop = "running" /\ Idle /\ phase = "running"
  /\ loop' = "assembling"
  /\ UNCHANGED <<registry, decoding, frames, batching, phase>>

\* assemble_batch reads the clock: what arrives later is outside its window.
ReadClock ==
  /\ loop = "assembling"
  /\ loop' = "clocked" /\ window' = recent
  /\ UNCHANGED <<registry, decoding, frames, lastPts, todo, batch, importing, converted,
                 handed, ghost, phase>>

\* The batch goes through the streams S.
Visit(S) ==
  /\ loop = "clocked" /\ leaving = {}
  /\ loop' = "running"
  /\ todo' = S /\ window' = {f \in window : f[1] \in S}
  /\ UNCHANGED <<registry, decoding, frames, lastPts, batch, importing, converted, handed,
                 ghost, phase>>

\* Fault: waits until every stream has a frame.
Snapshot_Waits == Visit(registered) /\ \A w \in registered : ring[w] \cap recent # {}

\* Fault: goes on looking at streams that were removed.
Snapshot_Stale == Visit({w \in Worker : pc[w] # "new"})

\* The snapshot of the registry, under its lock.
Snapshot == Visit(registered)

\* Fault: takes a frame with the timestamp of the last one.
Fresh_Again(w) == {f \in Latest(w) : pts[f] >= lastPts[SourceOf[w]]}

\* The frame the batcher takes from a stream: none when the newest one inside
\* the window has a timestamp that was already dispatched.
Fresh(w) == {f \in Latest(w) : pts[f] > lastPts[SourceOf[w]]}

Peek(w) ==
  /\ w \in todo \ clearing
  /\ todo' = todo \ {w}
  /\ batch' = batch \cup Fresh(w)
  /\ handed' = handed \cup Fresh(w)
  /\ lastPts' = IF Fresh(w) = {} THEN lastPts
                ELSE [lastPts EXCEPT ![SourceOf[w]] = pts[CHOOSE f \in Fresh(w) : TRUE]]
  /\ window' = {f \in window : f[1] \in todo'}
  /\ UNCHANGED <<registry, decoding, frames, importing, converted, ghost, phase, loop>>

\* HipBridge.convert looks at dmabuf_fd.  A tiled surface comes as host memory;
\* a dmabuf frame whose descriptor is gone has none, and conversion raises.
Convert(f) ==
  /\ todo = {} /\ importing = {} /\ converted = {} /\ f \in batch
  /\ IF hasFd[f]
     THEN importing' = {f} /\ UNCHANGED <<batch, converted>>
     ELSE /\ UNCHANGED importing
          /\ \/ f[1] \notin Linear /\ converted' = {f} /\ UNCHANGED batch
             \/ batch' = batch \ {f} /\ UNCHANGED converted
  /\ UNCHANGED <<registry, decoding, frames, lastPts, todo, window, handed, ghost,
                 phase, loop>>

\* The extension runs with the number it was given.
Import(f) ==
  /\ f \in importing
  /\ importing' = {}
  /\ \/ \E named \in Named(f) :
          /\ Consume(f, named)
          /\ \/ \* imported, and dmabuf_fd becomes -1
                /\ named # {}
                /\ hasFd' = [hasFd EXCEPT ![f] = FALSE]
                /\ converted' = {f} /\ UNCHANGED batch
             \/ \* the extension closes the number and throws
                batch' = batch \ {f} /\ UNCHANGED <<hasFd, converted>>
     \/ \* the device cannot be selected: the descriptor is not touched
        batch' = batch \ {f} /\ UNCHANGED <<uses, hasFd, converted>>
  /\ UNCHANGED <<registry, decoding, ring, recent, lastPts, todo, window, handed, ghost,
                 phase, loop>>

\* Streams that remove_stream has returned for.
Removed == {w \in Worker : pc[w] # "new" /\ w \notin registered \cup leaving}

\* The rest of _process_frame: the sink is called, unless something raises.
Show(f) ==
  /\ f \in converted
  /\ converted' = {} /\ batch' = batch \ {f}
  /\ \E shown \in BOOLEAN :
       ghost' = IF shown /\ f[1] \in Removed THEN ghost \cup {f} ELSE ghost
  /\ UNCHANGED <<registry, decoding, frames, lastPts, todo, window, importing, handed,
                 phase, loop>>

\* The loop ends between two batches.
EndLoop ==
  /\ loop = "running" /\ Idle /\ phase # "running"
  /\ loop' = "ended"
  /\ UNCHANGED <<registry, decoding, frames, batching, phase>>

-----------------------------------------------------------------------------
PipelineThread ==
  \/ LoopTest \/ ReadClock \/ Snapshot \/ EndLoop
  \/ \E w \in Worker : Peek(w)
  \/ \E f \in Frame : Convert(f) \/ Import(f) \/ Show(f)

Stopping ==
  \/ StopAll
  \/ \E w \in Worker : BeginJoin(w) \/ EndJoin(w) \/ Clear(w) \/ ClearRaises(w) \/ Stopped(w)

Next ==
  \/ \E w \in Worker :
       \/ AddStream(w) \/ RemoveStream(w)
       \/ Open(w) \/ Disconnect(w) \/ Exit(w) \/ Decode(w)
       \/ Push(w) \/ PushRaises(w)
  \/ \E f \in Frame : Expire(f)
  \/ Stop \/ Stopping \/ PipelineThread

Spec == Init /\ [][Next]_vars

\* The pipeline thread runs and a stop() that was begun goes on, because its
\* joins are timed.  Nothing is assumed about cameras: a decoder may hang in
\* any call.
Fairness == WF_vars(PipelineThread) /\ WF_vars(Stopping)

FairSpec == Spec /\ Fairness

-----------------------------------------------------------------------------
(* Properties. *)

TypeOK ==
  /\ registered \subseteq Worker /\ leaving \subseteq Worker
  /\ joining \cup clearing \subseteq leaving /\ late \subseteq Worker
  /\ stopReq \in [Worker -> BOOLEAN]
  /\ pc \in [Worker -> {"new", "connecting", "opened", "reading", "pushing", "ended"}]
  /\ decoded \in [Worker -> Nat] /\ \A w \in Worker : decoded[w] <= MaxFrames[w]
  /\ pts \in [Frame -> Nat]
  /\ ring \in [Worker -> SUBSET Frame] /\ recent \subseteq Frame
  /\ hasFd \in [Frame -> BOOLEAN] /\ uses \in [Frame -> Nat]
  /\ lastPts \in [SourceId -> Nat]
  /\ todo \subseteq Worker /\ window \subseteq Frame
  /\ batch \subseteq Frame /\ importing \cup converted \subseteq batch
  /\ handed \subseteq Frame /\ ghost \subseteq handed
  /\ phase \in {"running", "stopping", "closing", "raised"}
  /\ loop \in {"running", "assembling", "clocked", "ended"}

Decoded == {f \in Frame : f[2] <= decoded[f[1]]}

\* Somebody will still close the frame: the decoder that is about to push it,
\* or the ring of a stream that has not been stopped yet.
Owned(f) ==
  \/ pc[f[1]] = "pushing" /\ f[2] = decoded[f[1]]
  \/ f \in ring[f[1]] /\ f[1] \in registered \cup leaving

Leaked(w) == {f \in Decoded : f[1] = w /\ Opened(f) /\ ~Owned(f)}

\* No descriptor of w was consumed a second time.
OnceOf(w) == \A f \in Frame : f[1] = w => uses[f] <= 1

\* As long as no descriptor of a stream is consumed twice, none of them is
\* leaked, whatever the other streams do.  Only a decoder whose join timed out
\* may push into a ring that nobody clears any more, and then a single frame.
FdAccounted ==
  \A w \in Worker : OnceOf(w) => Cardinality(Leaked(w)) <= IF w \in late THEN 1 ELSE 0

\* RawFrame: exactly one of close() and the import consumes the descriptor.
FdOnce == \A f \in Frame : uses[f] <= 1

\* At most the frame that was in flight reaches the sink after remove_stream.
OneGhost == \A w \in Worker : Cardinality({f \in ghost : f[1] = w}) <= 1

\* The same frame is never handed to the bridge in two batches.
HandedOnce == [][(batch' \ batch) \cap handed = {}]_vars

\* No stream blocks another: the newest frame of a running stream is taken
\* unless it leaves the window, a newer one comes or its stream is stopped,
\* however long the other streams hang.
NoStreamBlocks ==
  \A f \in Frame :
    LET waits == /\ phase = "running" /\ f[1] \in registered
                 /\ f \in ring[f[1]] \cap recent /\ pts[f] > lastPts[SourceOf[f[1]]]
                 /\ decoded[f[1]] = f[2]
    IN waits ~> ~waits

=============================================================================
