# A verification project for avap

avap turns several video streams into detections on an AMD GPU: decoder threads
fill queues, one thread forms batches, converts them on the GPU, runs a model
graph and hands detections to a sink or a publisher. The arithmetic is in the
GPU kernels and in MIGraphX; what this project is about is everything around
it: who owns a frame and its dmabuf descriptor, in which order frames arrive,
what happens when a stream stalls, is removed or ends, and what `stop()` leaves
behind. Paths below are relative to the repository (`src/avap` is the Python
package, `cpp` the extension).

The project models the three pipelines with their batch formers, threads and callers, the
streaming API with its decoders and its annotated video, the publisher, the inference stages,
the cache of compiled models, the trackers and the plate recognition, and proves the main safety properties of most of them for every value of
their constants. What is left out is listed at the end.

## 1. The system

| component | state | operations | who calls it |
|---|---|---|---|
| `StreamMux`, `SinkPad` (`streammux.py`) | pads with a deque each, pending events, EOS flags, round-robin position, time of the last batch | `add_pad`, `remove_pad`, `push_frame`, `push_eos`, `poll`, `stop`, `start` | one source thread per pad, the runner, the application |
| `StreamMuxRunner` (`streammux.py`), `MuxedPipeline` (`muxed_pipeline.py`), `BatchCanvas` (`canvas.py`) | runner thread, source threads, canvas slots | `start`, `stop`, source loop, `render` | the application |
| V1 pipeline: `StreamRegistry`, `DecoderWorker`, `RingBuffer`, `DynamicBatcher`, `HipBridge`, `Pipeline` | registered handles, one ring per stream, last dispatched timestamp per source, descriptors | `add_stream`, `remove_stream`, `stop_all`, decoder loop, `assemble_batch`, `convert`, `stop` | application, one thread per decoder, the pipeline thread |
| Streaming API: `AMDStream`, `AMDGPUManager` (`streaming.py`), `RetryPolicy` (`events.py`) | running/failed/eof flags, retry count, active decoder, sink | `start_stream`, `stop_stream`, `join`, the retry cycle, `start_streams`, `stop_streams` | application, one worker per stream, callbacks on that worker |
| Sinks, annotation, encoding (`sinks.py`, `annotate.py`, `encode.py`, `cpp/vcn_encoder.cpp`) | open file, encoder with in-flight surfaces | `write`, `close` | stream worker |
| `AdvancedPipeline` (`advanced/pipeline.py`) and its stages | source indices with a free list, worker threads, inference lock | `add_source`, `remove_source`, `prepare`, `run`, `stop` | application, one worker per source |
| Inference stages (`advanced/stages.py`, `meta.py`, `device.py`) | the objects of a frame, an input buffer per stage | `PrimaryStage`, `DetectionStage`, `ClassifierStage`, `EmbeddingStage` | pipeline workers under the inference lock |
| `DataPublisher` (`advanced/publisher.py`) | bounded queue, one pending batch per source | `enable`, `disable`, `register_source`, `unregister_source`, `publish`, worker loop | pipeline workers, its own thread |
| Plate recognition (`advanced/lpr.py`) | votes per (camera, track), identities | `PlateVoter.add`, `VehicleReID`, `LPRStage` | a pipeline worker |
| `NvDcfTracker` (`nvdcf.py`, `cpp/dcf.hip`) | targets with age and state, a pool of filter slots | `update` | one thread per source |
| Motion trackers (`kalman_tracker.py`, `bytetrack.py`, `ocsort.py`, `tracker.py`) | tracks with hit and miss counters | `update` | one thread |
| Model cache, chain, graph (`model_zoo.py`, `chain.py`, `graph.py`) | exported models and compiled programs on disk | `resolve_model`, `compile_or_load`, `calibrate`, `execute` | several processes |
| ROI and letterbox (`roi.py`, `canvas.py`) | none | geometry | decoder and renderer |
| Native decoders (`cpp/vaapi_decoder.cpp`, `cpp/rocdec_decoder.cpp`) | deadline, abort flag, frame queue | `open`, `next_frame`, `abort` | decoder threads |
| Kernels, bindings, probing, scripts, examples, DeepStream probe | none | per-pixel work, glue, measurements | |

### How the parts interact, and what is hard about it

*The mux.* All of `StreamMux` runs under one `threading.Condition`, so each
method is a step of its own, but `push_frame` releases the lock in its wait and
reads the clock before it takes the lock. A producer that waits keeps the
`SinkPad` object it looked up, while its test after the wait asks for the pad
*index*. Frames, their EOS, the removal of the pad and `stop()` meet in every
order. It is correct when no frame has two owners or none, each source's
frames come out in order, the EOS of a pad comes last and its "pad-added" first,
a live source loses only its oldest frames, nothing waits for ever once a
timeout is set, and the selection fills the slots it promises to fill.

*The muxed pipeline.* A source thread may wait in `push_frame`, the runner may be in the
middle of a batch, and the batch may carry the end of the whole stream behind it, when
`stop()` comes: it sets its event, joins the sources, stops the runner and the mux, joins
the runner and frees the canvas. Both joins are timed. Rendering and inference may raise
anywhere in a batch, and the runner goes on. It is correct when the canvas outlives the
batch, `wait()` returns once all is shown, `stop()` gets every thread to its end,
and no descriptor is left behind.

*The V1 pipeline.* The batcher only *peeks* into a ring, so a frame is in its
ring and in a batch at the same time. The frame's dmabuf descriptor is a plain
integer that three parties may consume: the decoder that evicts the frame, the
application thread that clears the ring of a removed stream, and the import in
the HIP extension, which closes the descriptor whether it succeeds or throws.
Joins are timed (5 s for a decoder, 10 s for the pipeline) while a read may hang
for 30 s, and `remove_stream` holds the registry lock while it joins. It is
correct when no descriptor is leaked or consumed twice, no frame is dispatched
twice, a removed stream goes quiet, and a stalled stream holds up no other.

*The streaming API.* The worker thread and the threads that call `start_stream`,
`stop_stream` and `join` share the stream's fields without a lock. `stop_stream` must
reach a worker that is opening, reading, inferring or backing off, through an event
and an abort of whatever decoder it finds; it closes the sink after a join that may
time out; the reporter's callback runs on the worker and may itself stop the stream.
It is correct when nobody waits for a read that was not aborted, no working thread is
left without its sink, a state that says the stream is over is true, and the
reporter sees a well-formed life cycle with as many retries as the policy allows.

*Annotated video.* Two machines with a memory stand on both sides of the worker: the codec
holds pictures back until it is drained, and the encoder holds frames back until it is closed.
A blocking read races its deadline and an abort; the encoder is closed by the worker, or by
`stop_stream` after a join that timed out, without a lock. It is correct when the end of a
file is told after its last picture, when the finished video shows exactly the frames whose
records were handed out, and when no read waits for ever.

*The advanced pipeline and its publisher.* A source index is freed by `remove_source`, which
does not wait for the worker, and is handed out again; a worker looks everything up by its
index. The publisher sorts queued records into batches by that index, and three threads flush:
its worker, the caller of `remove_source`, and `disable` at the end of `run`. A flush reads a
batch and replaces it later. It is correct when an index has one owner, no record
ends in another camera's batch, and none is lost or sent twice.

*Stages and the model cache.* All cameras' workers run one cascade of stages on their frames, and
each stage has one model with one input buffer: the pipeline's lock is what keeps the pixels of
two cameras apart. A stage goes through objects of the frame while it finds new ones, and passes over
those without a crop. The programs come from a cache that processes share without a lock: they meet in file names
only, and any of them may be killed between two steps. It is correct when
every result belongs to the object it is attached to, plate recognition gets all there is of
a vehicle, and the cache never costs a process more than a compilation.

*Trackers and plates.* A tracker is sequential, but its calls come in every order of matches
and misses: filter slots are a pool that targets share, confirmed tracks live on
without detections, and two associations look at one list. The plate stage runs in every
camera's worker outside the inference lock, and its registry of vehicles has no lock at all;
it is saved at the end of `run` and loaded by the next process.

Each difficulty is an entry of `hazards` in `PROJECT.json`, at its line, with the property
that covers it or the reason why none does.

## 2. The modules

| module | what it models |
|---|---|
| `StreamMux` | `StreamMux` and `SinkPad` with their callers, both batching policies |
| `FrameChannel` | what a consumer of batches may rely on: one ordered channel per source, closed by an end mark |
| `StreamMuxChannel` | the refinement mapping: an instance of `FrameChannel` over the mux's state |
| `MC_StreamMux` | constants for TLC: two sources with their own pads, priorities |
| `MuxedPipeline` | `StreamMux` composed with source threads, runner, canvas, sink and `stop()` |
| `MC_MuxedPipeline` | constants for TLC: two sources with their own pads |
| `StreamMuxProofs` | theorems about `StreamMux`, that it implements `FrameChannel`, that `MuxedPipeline` uses it as it assumes, and theorems about that pipeline |
| `Pipeline` | the V1 pipeline: registry, decoder threads, rings, batcher, bridge, pipeline thread |
| `MC_Pipeline` | constants for TLC: one camera that delivers and one that hangs |
| `PipelineProofs` | theorems about `Pipeline` |
| `AMDStream` | the streaming API: streams, their workers, the manager and the application |
| `StreamReport` | what the reporter (`on_event`) may rely on: the order of the events of a start |
| `MC_AMDStream` | constants for TLC: a file and a camera |
| `AMDStreamProofs` | theorems about `AMDStream`, and that it implements `StreamReport` |
| `VideoDecoder`, `VideoEncoder` | the two decoders; the annotated video down to the encoder: actions without a specification of their own |
| `AnnotatedStream` | one stream with annotated output, composed of both |
| `MC_AnnotatedStream`, `AnnotatedStreamProofs` | its instance for TLC, and theorems about it |
| `DataPublisher` | the publisher's queue, worker, batches and flushes: actions without a specification of their own |
| `AdvancedPipeline` | sources, workers and callers of the advanced pipeline, composed with the publisher |
| `MC_AdvancedPipeline`, `AdvancedPipelineProofs` | its instance for TLC, and theorems about it |
| `TrackLife` | what every tracker promises about its ids |
| `NvDcfTracker` | the targets of the NvDCF tracker and their filter slots |
| `MC_NvDcfTracker`, `NvDcfTrackerProofs` | its instance for TLC, and that it implements `TrackLife` |
| `MotionTrackers`, `MC_MotionTrackers` | the four trackers without pixels |
| `MotionTrackersProofs` | that all four implement `TrackLife` |
| `ModelCache` | the shared model files and compiled programs: actions without a specification of their own |
| `StageCascade`, `MC_StageCascade` | the inference stages of all cameras, in a process that prepares its programs with `ModelCache` |
| `PlateRecognition`, `MC_PlateRecognition` | votes, vehicles and their registry |
| `RecognitionProofs` | theorems about the cache, the stages and the registry of vehicles |

`Fault`-operators such as `EndJoin_KeepsJoining`, each with the comment "Fault",
stand next to the action they change. They belong to no specification; they are
the plausible bugs against which every property was seen to fail.

### StreamMux

A source stands for a decoder thread *and* the `SinkPad` object made for it.
`IndexOf` gives the pad index, so two sources with one index are a pad that was
removed and added again: `Lookup(i)` is the dictionary lookup of `push_frame` and
`push_eos`, `target` the object a waiting `push_frame` holds on to. A frame
is `<<source, n>>`. Deques and dictionaries are sets with their order kept beside
them as a relation: `ahead` is the order inside the deques, `earlier` the order of
the `recv_ns` readings, `padOrder` the insertion order of the pads. The two
frame orders differ because the clock is read before the lock is taken.

| action | code |
|---|---|
| `AddPad`, `RemovePad` | `add_pad`, `remove_pad` with its closing of the queue and the events |
| `Stop`, `Start` | `stop`, `start` |
| `Call` | the source decodes a frame and enters `push_frame`: `recv_ns = clock()` |
| `Raise` | the `KeyError` of a removed pad |
| `PushRefused` | the early return after `stop()` or EOS |
| `Push` | the critical section: room, drop-oldest of a full live pad, or the wait |
| `Resume` | a wait that ends because there is room, because of `stop()`, or because the index is gone |
| `PushEos` | `push_eos` |
| `Poll` | `poll`: events in order, the ready test, selection by either policy, the EOS of drained pads, the pipeline EOS |
| `Tick` | time passes |

The selection of `poll` is one expression per policy: `legacy` sorts all queued
frames by timestamp and takes each if its source is below the cap; `new` goes
by priority group, with round robin or priority order, in turns. Time is counted
since a frame was stamped and since the last batch, up to `MaxAge`, the longest
delay the code compares with.

Left out: `sync_inputs` (off by default), the rate control of a source, output
timestamps and frame numbers, and `drain()`, a loop of `poll`. `Poll` reads its
clock in the same step as it takes the lock; a later reading only makes the
timeout test true earlier, which another interleaving of `Tick` shows as well.

### FrameChannel and StreamMuxChannel

`FrameChannel` knows nothing of pads, policies or time. Sources offer frames, held
frames may be dropped, and a batch hands over the oldest held frames of each source; an
end mark comes only when nothing of the source is held, nothing is offered after
it, and the whole stream is finished exactly when all sources have ended.
`StreamMuxChannel` maps the mux to it: what is held is in a thread's hand or in a deque,
the end marks are the stream-eos and eos events. `ChannelSpec` says that every
behaviour of the mux is one of the channel.

### MuxedPipeline

The module extends `StreamMux`: the mux's variables are its own, and each action that
calls the mux contains the action of that call. It adds where the application is in `stop()`
(`app`), where the runner is and what is left of its batch (`runner`, `slots`, and `ending`
when the pipeline EOS came with it), which frames went to the canvas and to the sink
(`imported`, `shown`), and whether the canvas is there.

| action | code |
|---|---|
| `Loop`, `Decode`, `Pushing`, `End` | `_SourceThread.run`: the loop test, `next_frame`, `push_frame`, and `push_eos` after an end, an error, a failed open or a stop |
| `RunnerLoop`, `RunnerPoll` | `StreamMuxRunner._run`: the loop test; a poll and the order of its items |
| `Render` | `BatchCanvas.render` up to the detector: all frames, or an error after some of them |
| `Show`, `ShowFails` | the loop over the frames with the sink; an error in it |
| `BeginStop`, `StopRunner`, `CloseCanvas` | `MuxedPipeline.stop`, cut where its joins end |

The runner's wait is timed, so that polling again at any time covers it. A poll with
events only is one step; with a batch, the events before it change nothing else, and
`Finish` tells the one after it. `stop()` may be called once, and all sources are added before
`start()`, which starts the threads once. Left out: trackers, regions of
interest, pixels, and the order of a batch across sources (`Before` and `Show` keep it
within a source).

### Pipeline

A worker is one `DecoderWorker` object; `SourceOf` gives its `source_id`, so a
stream that is removed and added again has two workers. A ring is a set of
frames. Two variables describe the dmabuf of a frame: `hasFd` is the Python
field (`dmabuf_fd >= 0`), `uses` how often the number in it was closed or handed to
the HIP runtime. A number that was consumed before names nothing, so that closing it
raises, or names the descriptor of a later frame, which got it again (`Named`). `recent` are the frames whose age is inside the batcher's window
of 33 ms and `window` the part of them the current batch can see. The registry
lock is held exactly while `leaving` is not empty.

| action | code |
|---|---|
| `AddStream`, `RemoveStream` | `StreamRegistry.add_stream`, the pop of `remove_stream` |
| `BeginJoin`, `EndJoin`, `Clear`, `ClearRaises`, `Stopped` | `DecoderWorker.stop`: the event, the join, and the ring cleared frame by frame; a close that raises ends `clear`, `stop`, and the `remove_stream` or `stop_all` that called it |
| `Stop`, `StopAll` | `Pipeline.stop` up to its join, then `stop_all`; a stop that raised may be called again |
| `Open`, `Disconnect`, `Exit` | connecting, losing the connection, leaving the loop of `_run` |
| `Decode`, `Push`, `PushRaises` | `next_frame` returns a frame; `RingBuffer.push` closes what it evicts and appends the new frame, which it does not when the close raises |
| `Expire` | the clock carries a frame out of the window |
| `LoopTest`, `ReadClock`, `Snapshot`, `Peek` | the loop test of `_run`; `assemble_batch`: the clock, the snapshot under the lock, then one stream after another |
| `Convert` | `HipBridge.convert` looks at the descriptor |
| `Import` | the extension: success, failure after it closed the number, failure before |
| `Show` | the rest of `_process_frame`, which may raise anywhere before the sink |
| `EndLoop` | the pipeline thread leaves its loop |

A connection may begin its timestamps again or continue those of the last one.
Connecting and backing off are one place (`"connecting"`), since nothing bounds
either from below. Left out: trackers and ROIs, what the model computes, counters,
the length of the backoff, and streams without timestamps. `os.close` and the assignment
of -1 are one step, and so are the import and the assignment after it. Only one thread closes a
frame, the one that took it out of the ring, and what the bridge sees inside either pair it also
sees when it looks at the field just before and imports just after (`Convert`, `Import`).

### AMDStream and StreamReport

A worker `<<s, k>>` is the thread of the k-th successful start of stream s. All workers
of a stream share its fields, also one that outlived a join of ten seconds (`late`).
One application thread calls the streams' methods, directly or through the manager,
whose loops are the sets of streams still to visit. `at` is where that thread is inside
a method, `pc` where a worker is in its retry cycle and its source loop. `aborted`
belongs to the decoder of a worker, and `active` is the decoder `stop_stream` would find.

| action | code |
|---|---|
| `BeginStart`, `FailStart`, `Launch`, `EndStart` | `start_stream`: state, an exception of the acquisitions, the thread, `running` |
| `BeginStop`, `Abort`, `EndStop` | `stop_stream`: the event, the abort, and what follows the join, with a `close()` of the sink that may raise |
| `Join` | `join` with the thread at its end |
| `StartStreams`, `StopStreams`, `PassStop` | `AMDGPUManager` |
| `Top`, `Down`, `Backoff` | `_run_cycle`: the attempt, what follows it, the wait |
| `Open`, `OpenFails` | the decoder's constructor |
| `Loop`, `Read`, `Break`, `Flushed` | the source loop of either back end |
| `Emit` | one record of `_infer_and_emit`, with the report of a failing sink |
| `Disconnect` | the `finally` of the source loop and the branch on how it ended; `eof` is set |
| `LastReport`, `Leave` | the last event, told after the state was set; the `finally` of `_run`, after which the thread ends |

The two back ends are one loop: only VAAPI publishes its decoder (`Abortable`). The
constructor holds the interpreter lock, so opening is one step; a stop between it and
the assignment of `_active_decoder` is the same as one before it, because the loop tests
the event before its first read. `SelfStopping` streams have a reporter that calls
`stop_stream` on a `sink_error`, as the comment at `streaming.py:540-542` suggests: the
event is set, the decoder aborted, and the join of the own thread raises, which
`_emit_event` swallows.

`StreamReport` describes one start: connecting, connected, disconnected, reconnecting
and so on, ended by `gave_up`, `eof` or, when the stream is stopped, silence; it counts
the reattachments. The mapping gives it the attempt counter, and `over` where the thread
has made its last report.

Left out: annotated video, whose writer `Leave` closes (see below), `max_retries=None`, the length of backoffs and attempts
(`MayReset` lets any attempt last `reset_after_s`), what sampling, ROI, model and tracker
compute, and a second application thread on the same stream.

### VideoDecoder, VideoEncoder and AnnotatedStream

`VideoDecoder` has the state of either decoder: how many packets it was sent (`read`), how
many pictures came out (`given`), whether it drains, the deadline and the abort flag. `call`
is what `next_frame` is doing. `VideoEncoder` has the frames inside the encoder, those in the
file, and the trailer. Neither has a `Next` of its own that is checked: `AnnotatedStream`
extends both, and its worker is the only one who calls the decoder.

| action | code |
|---|---|
| `OpenDecoder`, `CloseDecoder`, `CallNext` | constructor, `close`, the call of `next_frame` |
| `GivePicture`, `Drained`, `NeedPacket`, `CodecFails` | `avcodec_receive_frame`: a picture and its export, the end, more input, an error |
| `VideoPacket`, `OtherPacket`, `ReadFails`, `EndOfInput`, `Interrupted`, `Tick` | `av_read_frame` under `interrupt_cb`, and the clock |
| `RocNeedPacket`, `RocPacket`, `RocEndOfInput`, `RocGivePicture`, `RocDrained` | `RocDecoder::advance` and the conversion |
| `CreateEncoder`, `EncodeFrame`, `EncodeFails` | `AnnotatedVideo.write` down to `VcnEncoder::write_nv12` |
| `CloseEncoder`, `CloseFails`, `CloseUnseen` | `close`: drain and trailer; an error of the drain, which raises; an error in entering the drain or in the trailer, which nobody looks at |
| `Top`, `Open`, `Down`, `Closing` | the retry cycle |
| `Loop`, `Decode`, `TakeFrame`, `EndOfSource`, `SourceFails`, `Flush` | the source loop |
| `Infer`, `NextOfBatch`, `StartWrite`, `Write`, `WriteFails`, `Disable`, `Emit` | `_infer_and_emit`, frame by frame |
| `Finally`, `Finish` | the `finally` of `_run` |
| `BeginStop`, `Abort`, `Joined`, `CloseVideo`, `DropVideo` | `stop_stream` |
| `Clash` | two threads in one encoder, whose contexts one of them frees: the process may end |

Any step that can raise may raise. A picture is its number in its connection. Left out:
sampling, calibration, drawing, sizes, the sink, the descriptor of a surface (`Pipeline`
models descriptors), and what failed constructors leave behind. A rocDecode picture that is
counted but missing (`rocdec_decoder.cpp:109-110`) is left out as well: the vendored decoder
puts every picture it counts on its queue, and the count is spent before the next packet.

### DataPublisher and AdvancedPipeline

A camera is added at most once, so it names its source and its batch; its index may be handed
out again. A worker is named by its camera and by what started it, `add_source` on a prepared
pipeline or `run`. A record is a frame of a worker.

| action | code |
|---|---|
| `AddSource` | `add_source` with `register_source` and, if prepared, the thread |
| `BeginRemove`, `RemoveFlush`, `EndRemove` | `remove_source`: the table, the flush in two steps, unregistering and freeing the index |
| `StopCalled`, `Prepare` | `stop`, `prepare` |
| `Run`, `StartSource`, `StartFails`, `ListThreads` | `run`: the list of sources, a thread for each, the `KeyError` when one is gone by then, and the list of threads to join |
| `Joined`, `JoinPublisher` | the end of the joins, and the publisher's `disable` up to its own join |
| `FlushNext`, `FlushSwap`, `Return` | the final flushes, and the error when the dictionary changes under them |
| `Test`, `Lock`, `Read`, `Infer`, `PublishFrame` | a worker: its loop test, the lock rocDecode reads under, `next_frame`, `process_image`, `publish` |
| `Take`, `AppendRecord`, `ShouldFlush`, `WorkerFlush`, `Leave` | the publisher's worker: the next record with its source, the append, the test of size and age with the reading of the batch, the emptying and sending |

`Take` is the loop test and the `get` in one: only this thread takes records out, so one that
the test saw is still there. The inference lock is held exactly while a step that uses it is taken, and, with rocDecode,
over the read (`LockFree`). Left out: what stages, probes and metrics compute (one may raise,
which ends the worker), transports, and a second `prepare` or `run`.

### TrackLife, NvDcfTracker and MotionTrackers

`TrackLife` is the abstract specification: ids are handed out in order, an id that is gone
never comes back, a confirmed track stays confirmed while it lives, and only confirmed tracks
are shown. In both trackers one action, `Update`, is a call of `update()`. Which tracks are
matched, which the filter finds again, and how many detections start a track are choices.
In `NvDcfTracker` the definitions follow the code: `Claimable` (what a detection may be
associated with), `Older`, `Matched`, `Carried`, `Missed`,
`Dead`, `Create`, `Release`, `Filters`; the filter of a slot is the set of targets it was
learned from; `unseen` is a history. `MotionTrackers` is one module with `kind` as the
tracker; `First` and `Second` are the two associations. Left out: boxes, overlap, Kalman and
correlation arithmetic, and the second filter run of OC-SORT over a gap.

### ModelCache and StageCascade

A process prepares the programs of its `Plan` in order. A file is `Absent`, `Whole`, or known by
its last opener, who is still writing it, has stopped in the middle, or was killed: opening a file truncates it, so it is
whole when the last to open it has written it to the end. Renaming takes a file along with
those who still write it.

| action | code |
|---|---|
| `Begin`, `ResolveFound`, `BeginExport`, `EndExport`, `ExportFails`, `KeepExport` | `prepare`, `resolve_model`: a path or an exported model, or the export and its `os.replace`, either of which may raise |
| `Load`, `Compile` | `compile_or_load` up to the program, or an exception of `parse_onnx` |
| `OpenTmp`, `CloseTmp`, `SaveFails`, `KeepSaved` | saving and `os.replace`; an error of the directory, the save or the replacement, and the `except` around them |
| `Calibrate` | `calibrate`: one tensor more, and the compilation of int8 programs |
| `Exit`, `Crash` | the end of a process, with files as they are |

In `StageCascade` the worker of a camera takes a frame through the stages. A crop is the camera, its
frame and the object it was cut from (0: the whole frame), and stands for its pixels; what a
detector finds in it is any of a set of sequences.

| action | code |
|---|---|
| `BeginFrame`, `PublishFrame` | `process_image` up to the first stage, and from `LPRStage.process` on |
| `EnterStage`, `LeaveStage`, `StageRaises` | the inference lock around a stage, `_targets`, the children that join the frame; an exception of a stage, the tracker, a probe or the plate recognition, which gives the lock back and ends the worker |
| `SkipObject`, `FillBuffer` | `_infer_bbox` without a crop, and `DeviceModel.run_crop` up to the filled buffer |
| `Detect`, `Attach` | the run on the buffer, and what a detection, classifier or embedding stage makes of it |
| `TrackObjects` | the tracker gives ids to some primary objects |
| `ProcessStep` | a step of any process in `ModelCache`; the workers end with theirs |

A component id is the number of its stage, as in the examples. Left out: boxes (an object is large, small or outside the frame),
the values of parsers, the host path without a device buffer, which shares no buffer, and
int8 programs as stages, which no stage calibrates. The key of a cached program does not tell two
exports of one size and second apart; files here have one content each, and a zoo model is a
name with one batch and one image size, though exports for others write the same file (section 6).
Compiling a whole file succeeds; what `DeviceModel` refuses or cannot allocate depends on the
model and the configuration, which the cache leaves as they are.

### PlateRecognition

The step of a worker is what it does between two accesses to the shared registry.

| action | code |
|---|---|
| `Process` | `_process_vehicle` up to the registry: the vote, the embedding, the average |
| `Found`, `NotFound`, `LookupRaises`, `Create` | `lookup_or_create` and `_create` |
| `Rebuild`, `Store` | `_rebuild` reads all records, and then replaces the matrix |
| `CheckPlate`, `WritePlate` | `update_plate`: the test and the assignment |
| `WorkerEnds` | the camera's stream is over |
| `BeginSave`, `DumpRecord`, `OpenSave`, `EndSave` | `save` at the end of `run`: the records are serialized, then the file is opened, which empties it, and written |
| `Restart`, `RestartFails` | the process ends or is killed anywhere; `load` in the next one, which raises on a file that was cut off, so that no stage is built |

An embedding is the look of a vehicle; the average of different looks may be any. Identities
are drawn from a small set and may collide, as six hexadecimal digits may. Left out: OCR and
detection, `clear_track` (nothing calls it), the running average of a record, which changes
what it is similar to (here similarity is equality of looks), and a second
worker of one camera, left behind under an index that was given out again.

## 3. The runs

| run | question | configuration | states | time |
|---|---|---|---|---|
| `mux_files` | does a frame get two owners, or is a source passed over, while pads come and go? | new policy, round robin, blocking, 3 sources with 2 frames each, batch and queue of 1; b's pad may be removed while its producer runs or waits, c's takes its index | 137,252 | 40 s |
| `mux_new` | what does a live source lose, is every lost frame closed, does the priority algorithm fill its slots? | new policy, priority algorithm, drop-oldest, 2 sources with 3 frames each, up to 2 of a source in a batch, minimum gap 1; pad b added and removed at run time, the mux stopped and started | 432,042 | 65 s |
| `muxed_stop` | is the canvas safe, is the mux an ordered channel, and do `wait()`, `stop()` and a waiting producer come to their end? | `MuxedFairSpec`; legacy policy, live, 2 sources with 2 frames each, batch 2, queue 1, timeout 0; any batch may fail, any join may time out | 219,474 | 200 s |
| `v1_streams` | are descriptors, dispatching, removal and stalls handled? | `FairSpec`; camera a with 2 frames and linear surfaces, removable; camera b hangs; ring of 1; joins may time out, closes may raise | 282,431 | 60 s |
| `v1_fd_twice` | counterexample, see section 6 | ring of 1 | | |
| `api_streams` | do start, stop, join, retries and callbacks keep states, sinks, decoders and reports in step? | `FairSpec`; a file without frames; a camera of 1 frame, abortable, whose reporter stops it; one retry, resets possible; the file is started once, the camera twice; batches of 1; sinks may fail to close | 730,498 | 200 s |
| `annotated_video` | is a file read to its end, and is its video complete? | both decoders; two connections of up to 3 pictures, batches of 2, codec and encoder hold back one, read timeout of 2 ticks; any step fails; the join may time out | 1,036,379 | 50 s |
| `adv_run` | do indices, batches and flushes stay apart while sources come and go, and does a stop end `run`? | `AdvFairSpec`, VAAPI; camera a removable, camera b added at any time and hanging; one frame of a's worker of `run` and of b's own; queue 2, batch 2; the publisher's join may time out | 493,014 | 130 s |
| `nvdcf_targets` | do targets share slots or filters, or live for ever? | 2 slots, 4 targets, ages of 2, calls with and without a frame | 11,787 | 12 s |
| `motion_tracks` | do the four trackers give an id to two objects, or revive one? | each tracker, 4 tracks, 7 frames, `max_age` 2, `min_hits` 3 | 55,090 | 30 s |
| `stage_cascade` | do cameras that share buffers get their own results, is what plate recognition takes complete, and does the shared cache ever cost a program? | two cameras with a frame each; detector, plate detector, reader, embedding; a vehicle outside the frame before one inside; a second process with an int8 program; one crash or failing write | 1,365,148 | 136 s |
| `lpr_vehicles` | do races of two workers and a restart mix up vehicles or plates? | two cameras with 2 frames each, the second may be left behind by `run` and has 1 after the restart; 2 looks, 2 plates, 2 ids, plates of 2 reads; 2 processes; symmetric looks, plates and ids | 1,341,010 | 70 s |

What they show, property by property:

* `NoFrameLost`: a decoded frame is in somebody's hand or a pad's queue, was put into
  a batch, or was closed. `OneOwner`: never two of these.
* `FreshestKept`: a live pad that overflows keeps the newest frames.
* `SlotsUsed`, `TakesTurns`: a batch of the new policy has an empty slot only if it
  took everything the sources may offer, and by round robin a source that a full batch passed
  over is scanned first by the next.
* `ChannelSpec`: the refinement of `FrameChannel`, which says of every policy's batches that they are
  in order and that nothing follows an end mark; `InOrder` and `EosLast` say it of pads that come and go and are proved only.
* `CanvasThere`: the runner renders into and reads from a canvas that `stop()` has not
  freed, "unless the join timed out"; without the exception it is false. `DoneMeansAll`:
  when `wait()` returns nothing is on its way, also not the batch that came with the EOS.
* `DoneComes`, `BlockedReturns`, `StopEnds`: under fairness `wait()` returns once every source has
  ended, although batches fail; a producer that waits for room returns; `stop()` ends every thread.
* `FdAccounted`: a stream none of whose descriptors was consumed twice leaks none, but for
  one frame if its join timed out, whatever happens to the others; one that was consumed twice may make
  a close raise, and then frames do leak (section 6). `HandedOnce`: no frame is in two batches. `OneGhost`: after
  `remove_stream` returned at most one frame of the stream reaches the sink.
* `NoStreamBlocks`: the newest frame of a running stream is dispatched unless it leaves the
  window, is superseded, or its stream stops, however long another camera hangs.
* `SinkOpen`: a worker at work has its sink. `AbortHeard`: while `stop_stream` joins, the
  thread is not in a read that nobody aborted. `EndedStates`: a state that `stop_streams`
  passes over means that no thread goes on connecting, reading or emitting; one that still
  reports its end or cleans up may be there. Each says "unless a join of the stream timed
  out", and with that exception dropped each is false. `StopEnds`: under fairness a stopped
  stream's thread ends, also when the join gave up on it. `ReportSpec`: the refinement of
  `StreamReport`.
* `EofComplete`: a source that was read to its end had every picture processed, in order; codec
  and partial batch keep none. `VideoComplete`: the video of a worker that ended in time
  has its trailer and exactly the frames whose records went to the sink, unless the annotated
  output raised or a step of its close failed unseen. `ReadReturns`: a read of a silent network ends, and so does an aborted one.
* `IndexOwner`: a source, the removal under way, or the free list owns an index. `OwnBatch`: a
  record of a camera that was not removed is in no other camera's batch. `HeldOnce`: an accepted
  record is in one place, once. `RunFlushes`: when `run` has returned, what the threads it
  joined handed over was sent. The last two except a join of the publisher that timed out.
* `StopHeard`: under fairness a stop ends every worker whose reads return, although another
  camera hangs, and `run` returns when the threads it joins have ended.
* `SlotOwner`: a filter slot is a live target's or free. `FilterOwn`: a filter holds what was
  learned from its target only. `UnseenBound`: a target without detections ends, at the latest after
  `MaxVisualOnly * (MaxShadow + 1) + MaxShadow` frames. `OneObject`: no id is on two objects of a
  frame. `LifeSpec`: the refinement of `TrackLife`.
* `BestEffort`: a process fails over the export of a zoo model only, whatever others, crashes and
  failing writes do to the cache.
* `OwnPixels`: an object was found in the crop of its parent, and a result computed from the crop of its
  object. `EvidenceWhole`: a tracked vehicle that the embedding stage wants (by class and size) and
  that has a crop has its embedding when plate recognition gets it, and every read is of a plate found in that vehicle.
* `LooksAlike`: a track has the identity of a vehicle that looks like it. `SavedKept`: unless a
  process was killed while it wrote the file, every vehicle of the last complete save is there, at its place, with
  its id and look, and a plate that was loaded stays that plate; in the process that saved it, a worker
  `run` did not join may still write another. `PlateEarned`: a plate comes from a track of the
  vehicle with enough reads, and is the most common one.

**Why these bounds are enough.** Interactions in the mux are between a pad and the
batch, between two pads competing for slots, which two sources show, and between a pad and its
successor under the same index, for which there is a third. With one slot every batch passes
somebody over, and with a queue of one a second frame leaves a producer waiting when its pad is
removed. Where frames are dropped, three of them overflow a queue of two, and a batch of two can be filled by
one source or shared. A timeout of two ticks separates "not yet", "just now" and "late".
The legacy policy for live sources is run with the muxed pipeline, that for files is left to the theorems, which hold for
every policy. In the muxed pipeline a queue of one and two frames per source leave a producer waiting when
`stop()` comes, and a batch of two has a frame before and after one that fails. In the V1
pipeline two frames and a ring of one give an eviction before, during and after a batch that holds
the evicted frame, and a close that raises with a new frame in hand; the stream that hangs needs no frames, since what
is asked is whether it stops others. A stream of the API interacts with its own workers,
its manager and nobody else's; two streams show the manager's loops passing over one and
stopping the other. With batches of one every frame is a batch and no rest is flushed; rests are
in `annotated_video`, whose batches are of two, and in the proofs. One retry gives a first, a last and a reset attempt. The second start of the camera
meets what the first left: a worker that still reports or cleans up, a sink that would not close, the
counters. Joins that time out are covered by the proofs.
For annotated video three pictures are a full batch and a rest, and one frame held back by codec
or encoder is the least that a missing drain would lose. In the advanced pipeline one camera leaves
an index and one takes it; a queue and a batch of two fill with the two frames that exist, and a worker
without a frame still passes its loop, the lock and the failing look-up. Two slots
for four targets are used again twice; two tracks per tracker would do, four let one
be lost, regained and replaced. Two cameras meet in a buffer with a frame each,
and the cascade has each kind of stage once; the two processes use the same program at
different places of their plans, so that they meet in each of its files.
The registry of vehicles needs two workers and one look in common; two frames are what a plate
of two reads takes, and one is enough after the restart to find or rebuild what was loaded.
The proofs remove the bounds for the properties of section 5.

`CHECK_DEADLOCK FALSE` is set where the number of frames, calls or processes is bounded and
the system does stop: everywhere but in the streaming API, which is checked for deadlock.
What must not stop is stated by the liveness properties.

`Fault`-operators are tried in place of the action they follow: every property of a passing run
was seen to fail with one of them (`mutants` in `PROJECT.json`).

## 4. Fairness

`MuxedPipeline!MuxedFairSpec` assumes weak fairness of the clock, of the runner, of each
source thread, whose reads a VAAPI decoder bounds by a deadline
(`cpp/vaapi_decoder.cpp:43-52`), and of a `stop()` that was begun, whose joins are timed. A
producer that waits in `push_frame` wakes up at least every timeout of its wait. The
runner polls for ever, so `RunnerStep` is the fairness of its thread; that the detector and
the sink return is assumed. Where `pace_fps` makes a source sleep, it only delays it. After the
reuse of a pad index a producer that waits on a detached, full pad is never let go, which is why
`BlockedReturns` is checked where indices are used once (see section 6).

`Pipeline!FairSpec` assumes weak fairness of the pipeline thread and of a `stop()` that was
begun, whose joins are timed. Cameras get none: opening and reading
may hang.

`AMDStream!FairSpec` assumes weak fairness of a `stop_stream` that was begun, whose join
is timed, and of every worker, except in a read of a live source that cannot be aborted:
files do not block, a VAAPI decoder bounds each read of a network source by a deadline
(`cpp/vaapi_decoder.cpp`), and `streaming.py:305-322` says that the rocDecode demuxer does
not.

`AnnotatedStream!Spec` assumes of the decoder that time passes and that FFmpeg calls
`interrupt_cb` while it waits (`DecFairness`), and nothing else: `ReadReturns` asks for no
packet and no scheduling of the worker.

`AdvancedPipeline!AdvFairSpec` assumes that threads run: the workers outside their reads, the
publisher's worker, a `remove_source` that was begun and a `run` that waits. A read returns
unless its camera is `Hanging`. Nothing is assumed of the callers' decisions.

## 5. What is proved

All theorems hold for every value of the constants that the modules' assumptions
(`MuxAssumption`, `MuxedAssumption`, `PipelineAssumption`, `AMDStreamAssumption`,
`AnnotatedAssumption`, `DecoderAssumption`, `EncoderAssumption`, `AdvAssumption`, `PublisherAssumption`,
`NvDcfAssumption`, `MotionAssumption`, `LprAssumption`, `CacheAssumption`, `FileAssumption`,
`CascadeAssumption`, `NobodyAssumption`) allow: any finite set of sources, any bound on frames and starts, any batch
size, depth, cap, timeout, delay, age and number of retries, and both decoders.

| theorem | statement | needs |
|---|---|---|
| `StreamMuxProofs!Typed` | `Spec => []TypeOK` | |
| `StreamMuxProofs!SingleOwner` | `Spec => []OneOwner` | |
| `StreamMuxProofs!NothingLost` | `(IndexNotReused \/ ~BlockWhenFull) /\ Spec => []NoFrameLost` | a pad index is used once, or pushes do not block |
| `StreamMuxProofs!InOrderAlways` | `Spec => []InOrder` | |
| `StreamMuxProofs!EosIsLast` | `IndexNotReused /\ Spec => []EosLast` | a pad index is used once |
| `StreamMuxProofs!FreshestIsKept` | `IndexNotReused /\ ~BlockWhenFull /\ Spec => []FreshestKept` | a pad index is used once, pushes do not block |
| `StreamMuxProofs!SlotsAreUsed` | `Policy = "new" /\ Spec => SlotsUsed` | the new policy |
| `StreamMuxProofs!TurnsAreTaken` | `Policy = "new" /\ RoundRobin /\ Spec => TakesTurns` | the new policy with round robin |
| `StreamMuxProofs!EosIsComplete` | `Static /\ Spec => []EosComplete` | pads added at the start only |
| `StreamMuxProofs!ImplementsChannel` | `Static /\ ~Lossless /\ Spec => ChannelSpec` | the same |
| `StreamMuxProofs!UsesMux` | `MuxedSpec => Spec` | |
| `StreamMuxProofs!MuxedTyped` | `MuxedSpec => []MuxedTypeOK` | |
| `StreamMuxProofs!CanvasStays` | `MuxedSpec => []CanvasThere` | |
| `StreamMuxProofs!WaitIsComplete` | `MuxedSpec => []DoneMeansAll` | |
| `StreamMuxProofs!SinkOrdered` | `MuxedSpec => SinkInOrder` | |
| `PipelineProofs!Typed` | `Spec => []TypeOK` | |
| `PipelineProofs!DescriptorsAccounted` | `Spec => []FdAccounted` | |
| `PipelineProofs!DispatchedOnce` | `Spec => HandedOnce` | |
| `PipelineProofs!OneAfterRemoval` | `Spec => []OneGhost` | |
| `AMDStreamProofs!Typed` | `Spec => []TypeOK` | |
| `AMDStreamProofs!SinkStaysOpen` | `Spec => []SinkOpen` | |
| `AMDStreamProofs!AbortReaches` | `Spec => []AbortHeard` | |
| `AMDStreamProofs!EndedIsOver` | `Spec => []EndedStates` | |
| `AMDStreamProofs!Reports` | `Spec => ReportSpec` | |
| `AnnotatedStreamProofs!Typed` | `Spec => []AnnTypeOK` | |
| `AnnotatedStreamProofs!EndIsComplete` | `Spec => []EofComplete` | |
| `AnnotatedStreamProofs!VideoIsComplete` | `Spec => []VideoComplete` | |
| `AdvancedPipelineProofs!Typed` | `AdvSpec => []AdvTypeOK` | |
| `AdvancedPipelineProofs!IndicesOwned` | `AdvSpec => []IndexOwner` | |
| `AdvancedPipelineProofs!BatchesOwn` | `AdvSpec => []OwnBatch` | |
| `AdvancedPipelineProofs!RecordsHeldOnce` | `AdvSpec => []HeldOnce` | |
| `AdvancedPipelineProofs!RunFlushesAll` | `AdvSpec => []RunFlushes` | |
| `NvDcfTrackerProofs!Typed` | `Spec => []TypeOK` | |
| `NvDcfTrackerProofs!SlotsOwned` | `Spec => []SlotOwner` | |
| `NvDcfTrackerProofs!FiltersOwn` | `Spec => []FilterOwn` | |
| `NvDcfTrackerProofs!UnseenEnds` | `Spec => []UnseenBound` | |
| `NvDcfTrackerProofs!LifeRefined` | `Spec => LifeSpec` | |
| `MotionTrackersProofs!Typed` | `Spec => []TypeOK` | |
| `MotionTrackersProofs!OneObjectEach` | `Spec => []OneObject` | |
| `MotionTrackersProofs!KeepsTrackLife` | `Spec => LifeSpec` | |
| `RecognitionProofs!LprTyped` | `LprSpec => []LprTypeOK` | |
| `RecognitionProofs!IdentityLooksAlike` | `LprSpec => []LooksAlike` | |
| `RecognitionProofs!SavedIsKept` | `LprSpec => []SavedKept` | |
| `RecognitionProofs!PlatesEarned` | `LprSpec => PlateEarned` | |
| `RecognitionProofs!StagesTyped` | `Spec => [](CacheTypeOK /\ CascadeTypeOK)` | |
| `RecognitionProofs!CacheIsBestEffort` | `Spec => []BestEffort` | |
| `RecognitionProofs!PixelsAreOwn` | `Spec => []OwnPixels` | |
| `RecognitionProofs!EvidenceIsWhole` | `Spec => []EvidenceWhole` | |

`IndexNotReused` is not a convenience: where producers wait for room, `NoFrameLost` is false without it (section 6). Nor are the
hypotheses of `FreshestIsKept`: a second pad under the index of a source that is at its end
refuses, and so closes, the newest frame of that source's thread while older ones wait in the
first pad; and a producer that waits for room closes the frame in its hand when the mux is stopped,
with older ones still queued.

**The argument for the mux.** None of the properties is inductive. `Base` adds to
the types what the threads hold (`Holding`: a waiting producer's target is a pad of its index),
that a pad that exists was created and its source started (`Created`), that a batched or closed frame was decoded (`Past`),
and that the owners are disjoint. `NothingLost` goes on from there: with indices
used once, a producer's target is its own pad, and where none waits there are no targets, so every exit of
`Push` and `Resume` ends in the queue, in a closed payload or in the producer's hand.
`InOrder` needs `Order`: a queue holds only frames of sources with its index, and for two frames of one
source `ahead` and `earlier` agree with the frame numbers (`Routed`, `Ordered`), although they
need not agree for frames of different sources. The FIFO policy picks of each pad a
prefix in `earlier`, the new policy one in `ahead`, and such a prefix
holds the oldest frames (`PicksPrefix`). `FreshestKept` is inductive with `Order` and two facts: the
frame in a thread's hand is newer than all that was closed of its source, since no thread that
pushes without blocking has closed the frame it holds (`HandAfterReleased`), and the frame that a
full queue gives up is its oldest (`OverflowOldest`). `Ending` says that a pad has an EOS only when its source is
done, and passed it on only when its queue was empty. The refinement uses `Settled`: all
pads stay, and the pipeline EOS is the EOS of every pad. `Call` is then `Offer`, `Poll` is `Deliver`, a
push that drops or refuses is `Drop`, and everything else is a stutter.

**Slots and turns.** `SlotsUsed` and `TakesTurns` are about one step, and need one more invariant: `Lined`, the deques and
the dictionary of pads are linear orders. In a linear order the places of the elements are
`0 .. n - 1`, each taken once, so `First` takes `n` elements or all there are (`FirstSize`). The turns of the scan are such
places, counted round modulo the number of groups and pads; they differ from pad to pad (`TurnsDiffer`), so
the scan is a linear order, and what it takes, pad by pad and with the slots that are left, is `First` of all that
is offered (`NewPicksFirst`). For the turns: who got a slot was before who got none
(`TakenBeforePassed`), so the last pad that contributed is of the same group and between them, and counted from
the place after it the order of the two is turned round (`GoingRound`).

**The argument for the muxed pipeline.** `UsesMux` comes first: every step of the pipeline
is a step of the mux or leaves it alone, so what is proved of the mux holds of it, with
`Static` discharged by `MuxedAssumption`. `MuxedInv` then says: a batch is in the runner's
hands from its poll to its last frame (`Batch`), the canvas goes last (`Closing`), `done`
follows the pipeline EOS (`Told`), and the sink is behind the batch (`Behind`). That no
batch comes after `done` is `EosComplete` and `OneOwner`: all frames were
batched or closed before, and a polled one is neither. `Behind` is kept by a poll because
of `InOrder`. `SinkInOrder` is proved only; no run repeats it.

**The argument for the V1 pipeline.** `IInv` strengthens the types with: no
removal is under way when `stop_all` begins, and one join or clearing is at a time (`Quiet`); a batch is
empty while the next is assembled (`Calm`); a ring holds decoded frames of its own worker (`Rings`);
the frame about to be pushed is not in it yet (`Pushing`); an open descriptor of a stream none of whose
numbers was consumed twice is in a
ring or about to be pushed into one (`Held`); what was handed out is not newer than the last
timestamp of its source (`Stamped`), which gives `HandedOnce`; and the life cycle of a worker
(`Life`): once its stop is over (`Done`) it has ended, or its join timed out and it puts at most one
more frame into its ring. The condition is needed: a close raises only for a number
that was consumed before, which a stream can do to itself only by a second use; so `Monotone`, that no use is
taken back, carries the condition from a step's end to its beginning, and the raising steps contradict it.
`OneGhost` needs one more invariant, `InFlight`: a stream has at most one frame that is in
the batch or was shown after its removal, and none while the batcher still has to look at it.

**The argument for the streaming API.** The heart is `Single`: unless a join timed out,
only the last worker of a stream can be at work, and none while `start_stream` is under
way. To be at work (`Working`) ends when the worker sets `eof` or `failed`, in the same assignment; the
report of it and the `finally` come after, and a new start may overtake them. It holds because a stream is started from `configured`, where it has no worker
(`Started`, `Untouched`), or from a state that says it is over, where `EndedStates` says
there is none; and because a prompt join leaves none (`NobodyLeft`). `EndedStates` needs
`Single` in turn, since the worker that sets `eof` or `failed` must be the only one, and so
does `SinkOpen`. For `AbortHeard`, `Told` says that the event is set before the active
decoder is read, and `Published` that a worker with an open decoder is the one
`stop_stream` finds, so a read that began before the event is aborted and none begins
after it. For the refinement `Saying` ties the last event to the place of the worker;
application and manager map to stutters.

**The argument for annotated video.** `Pictures` counts: of the pictures that came out of the
decoder, the last is in the worker's call, the ones before are its batch, and the records of the
others are at the end of what was handed out. With `Drain` (a decoder that says "end" has given
all it was sent) and `Control` (how place, batch and call go together), `EofComplete` follows at the
closing of the decoder. For the video, `Shown` says that, as long as the output works and no
join was late, the file followed by what the encoder holds back is what was handed out, plus
the frame in the worker's hand; moving frames from the encoder to the file leaves that alone
(lemma `Moved`), and closing moves the rest. `Stopping` says that the application touches the encoder
after a late join only.

**The argument for the advanced pipeline.** `IndexOwner` is inductive with `Indices`: a camera
is registered exactly while it is a source or is being removed, and every index that is out is
below the next one. So an index is free only after it was unregistered, and the one that
`add_source` takes is nobody's. For the batches, `Placed` says where a record may be: a worker of
a source was started with the index of that source, and so its records are queued under it; the
publisher's worker looks the index up, and `IndexOwner` says that only that camera has it. A
camera that is added now has no records anywhere, since it was not added before. Workers
of removed cameras may publish under the index of another: this is why `OwnBatch` speaks of
cameras that are still sources.

**No record twice, and what `run()` leaves.** `HeldOnce` is not inductive: a record goes from the queue
into the hand of the publisher's thread, from there into a batch, and with the batch to the
transport, while a removal and `run()` flush as well. The strengthening is `Counted`.
`Numbered`: an accepted record has a frame number its worker has reached, and the frame in a
worker's hands was not accepted. `Phases`: who may flush when, that is, the publisher's
thread has ended before `run()` flushes unless its join timed out, and a removal flushes
only a camera that is no source any more. `Payloads`: what a flush has read of a source's
batch is still that batch when it empties it. `Held` then says of every accepted record of a source that it is in
at most one of queue, hand and batch, and was sent exactly when it is in none. Each step that moves
records has its lemma (`PublishHeld`, `TakeHeld`, `AppendHeld`, `SwapHeld`), all others are
`HeldKept`. For `RunFlushes`, `Joins` says that nothing is joined before the threads
are listed (`Unlisted`), that what is joined was started for a camera that was added, and that the workers `run()` joined have ended and, once the
publisher has ended, left nothing in the queue; `Loops`, that the loop of flushes visits every
source that was joined and is still there, and that what it has visited is empty or about to be.

**The argument for the tracker.** `SlotOwner` and `FilterOwn` are inductive with the types. For the bound
on unseen targets, `AgesBounded` says that a target's frames without a detection are at most one
shadow age for each frame its filter carried it, and the present shadow age. The refinement of
`TrackLife` follows from what one call does to an id (`Effect`): it is born in order, is
confirmed, or dies with its slot.

**The argument for the motion trackers.** One call of `update()` is described once, by `Associated`: after both
associations every track that was seen is fresh, no track has fewer hits, and the second
association gives detections only to tracks of before the call that the first one left, because it takes those
not seen for exactly one frame and the first makes its own fresh. `FrameLive` draws from it what the
theorems need: seen tracks survive the dropping, ids grow by the number of new tracks, an id that is not live is not live again, and an
object stands for a confirmed live track. The four kinds differ in ageing (`AgedTracks`) and in
whether there is a second association.

**The argument for plate recognition.** `LprInv` relates five things that are written at different
times: `Mirrors`, the matrix and the rows a worker is about to store are the looks of the first records, possibly fewer
and never others; `Job`, what a worker carries between two accesses to the registry is still true when it comes back (its track is
its own, its average is one of the track, the record it found or made has that look, the index it will write at has that id); `Identity`; and
`Stored`, the last complete file, and what `save()` has serialized of the next, are a prefix of the registry up to plates. The steps of the other workers only add records and fill in
plates (`Grown`), and all of `Job` survives that: this is why the missing lock does no harm to
these properties. For the plates of `SavedKept`, `Plates` says that until this process has saved, a
worker about to write a plate does so at a record that was loaded without one. That a vote is a plate (`MostCommonRead`) rests on the least-number
principle, which is derived from the well-foundedness of the numbers since induction theorems
over predicates cannot be used.

**The argument for the stages and the cache.** The cache needs `CacheInv` only: the file of a custom model is
whole from the start and no process opens, replaces or moves it, so a process exports, or loses an
export, over models of the zoo alone, and whatever becomes of the temporary files and of the
cached programs is met by compiling again. The stages need `CascadeInv`. `Stages`: a worker is in a stage exactly
while it holds the lock, so only one is, and what it has still to visit are targets of that stage. `Filled`: while it
runs the model, the buffer holds the crop of its own target; without the lock another camera's
worker could fill it in between. `Children`: what a stage has found carries the crop of its
parent, and only the finds of the first stage have the frame for a parent. `Embedded`: an object
that the embedding stage is told to work on and that has a crop has the embedding of that crop from its visit on. `Pixels` is `OwnPixels` with the finds
of the stage under way. `EvidenceWhole` follows at the place `publish`, where all stages are past.

**Model-checked only.** Liveness (`DoneComes`, `BlockedReturns`, `NoStreamBlocks`, `StopEnds`, `ReadReturns`,
`StopHeard`): the prover does not handle `ENABLED`, so the fairness arguments stay with TLC.

## 6. What the code does differently from what it says

`v1_fd_twice` / `FdOnce`, with a counterexample of TLC: the batcher leaves the frame in its
ring. While the extension imports the descriptor, an eviction or a `clear()` closes the same
number, and so does an import that throws after it closed it. `src/avap/frame.py:44` requires
exactly one of the two.

Counterexamples found while modelling, with no run kept:

* A producer waits in `push_frame` on a full pad; the application removes the pad and adds one
  under the same index. The wait's test (`streammux.py:312`) asks for the index, which exists, and
  the frame is appended to the old object, which nobody polls: it is neither batched nor closed,
  where `streammux.py:277` says that payloads are closed when dropped. If the old
  pad is still full the producer waits for ever. `NoFrameLost` fails where two
  sources share an index (`SharedIndex`) and `BlockWhenFull` is TRUE.
* After a reconnect whose timestamps start again, `batcher.py:35` skips frames until they pass
  the last timestamp of the old connection; the comment says they were dispatched before.
* `MuxedPipeline.stop()` (`muxed_pipeline.py:145-151`) stops the mux without closing what its pads
  hold, and the runner leaves its loop without a last poll; the frames of a batch behind one that
  fails to render are dropped as well (`canvas.py:153-156`). `frame.py:44` requires that a frame
  is closed or imported, and `RawFrame` has no finaliser.

* A number in a frame whose descriptor was consumed twice (`v1_fd_twice`) names nothing, or a later frame's
  descriptor. In the first case `close()` raises (`frame.py:64-67`): `push` has taken the old frame out
  and not put the new one in, whose descriptor leaks (`ringbuffer.py:24-27`), and the connection ends; `clear` leaves the
  rest of the ring open; `remove_stream` then leaves the tracker and the region of interest of the stream
  where they are, and `stop_all` stops no further stream. In the second case another frame's descriptor is closed, or
  imported, and the detections of one camera are made on the picture of another. Hence the condition of `FdAccounted`.

Observed while modelling the muxed pipeline, with no run kept:

* With the new policy and its default, adaptive batching, a batch has as many slots as there
  are active sources while the canvas has `batch_size`: with more sources than that,
  `render` refuses each full batch and its frames leak (`streammux.py:522-525`, `canvas.py:149`).
* `wait()` without a timeout never returns if `stop()` came before the end of the
  streams: nothing sets `done` (`muxed_pipeline.py:145-155`). `DoneComes` excepts this.
* `add_source` after `start()` adds the pad and never starts the thread
  (`muxed_pipeline.py:129-143`), so the pipeline EOS then never comes.
* After a join of the runner that timed out the canvas is freed under a batch
  (`streammux.py:635`, `muxed_pipeline.py:150`): the exception of `CanvasThere`.

Observed while modelling the streaming API, with no run kept:

* A file that is stopped before its end leaves its loop because of the event and takes the
  branch of a finished file (`streaming.py:278`): its state and last event are `eof`, and
  `stopped` is never set, where `events.py:33` says "non-live source finished normally".
* `start_stream` sets `running` after the thread was started, so the `eof` or `failed` of a
  short file can be overwritten for ever (`streaming.py:217-219`; the comment at line 163
  orders the states otherwise).
* `stop_streams` passes over streams that ended or failed, whose sinks then stay open
  (`streaming.py:593-596`); only `join` or `stop_stream` closes them, so a sink that writes
  its object on close may never do it. A failed start leaves its sink open as well.
* The retry count is reset by the time since *before* the open (`streaming.py:274`, 291), so
  a slow connect counts as a connection that held; "connected" is reported on open, not
  once frames flow.
* A reporter that stops its own stream leaves the sink open and the state `running` until
  somebody else calls `stop_stream` or `join`.
* A batch that a failing read interrupts is lost, while one that the stop event interrupts
  is flushed.
* After a join that timed out and a new start, the old worker clears the new one's
  `_active_decoder`, and both work on one stream: the exception of the three invariants.
* The state says `eof` or `failed` while the thread still reports it and runs the `finally` of `_run`. A
  stream that is started again in between has the annotated video of the new start closed and dropped by the old
  thread (`streaming.py:263-267`).
* A sink whose `close()` raises leaves the state `running` or what it was, and `stop_streams`, which catches nothing,
  visits no stream after it (`streaming.py:593-596`).

Observed while modelling the mux and the V1 pipeline, with no run kept: `push_frame` after `stop()` behaves
otherwise on a full pad than on one with room (`streammux.py:237` and 308-328); with fewer batch slots
than live sources not every source contributes to a batch (`streammux.py:8-9` against 498-499);
with an infinite timeout and a per-source cap the tail of the last sources is not
batched (`streammux.py:503-504`); round robin does not keep
priority order across the wrap (`streammux.py:544-568`); `remove_stream` holds the
registry lock over a join, while `docs/architecture.md:129-130` says the registry never
blocks on a bad stream (the block is bounded, so `NoStreamBlocks` holds);
a frame in flight makes the tracker of a removed stream again (`pipeline.py:70`);
a full scan of the round robin advances its position also when `max_fps_control` then holds the
batch back (`streammux.py:566-580`), so a source may lose its turn; the backoff of a V1 decoder is reset only by a clean end of
stream (`decoder.py:53`).

Observed while modelling annotated video and the decoders, with no run kept:

* "annotation failure must not stall detection output" (`streaming.py:524`), yet when the
  `close()` of the failing writer raises too, the exception leaves `_infer_and_emit`: the rest of
  the batch is not handed out, and the retry cycle begins the file again.
* After a join that timed out, `stop_stream` closes the writer, and a write of the worker that is
  still running makes a new encoder, which truncates the finished file. Both may also be in
  one encoder at a time, which has no lock. If that `close()` raises, the writer stays set.
* `vaapi_decoder.h` speaks of a read timeout per frame; the code arms it for each packet.
* An encoder whose drain failed writes no trailer at `close()`. The results of entering the drain and of
  writing the trailer are not looked at (`vcn_encoder.cpp:159-161`): a file may lack its last frames
  or its index with no error told.
* The rocDecode reader takes an error of the demuxer for the end of the stream
  (`rocdec_decoder.cpp:94-98`), so a truncated file is reported as `eof`.
* `hip_bridge.cpp` leaks the device pointer if the synchronisation fails, and the descriptor if
  `hipSetDevice` does.

Observed while modelling the advanced pipeline, with no run kept:

* With rocDecode a worker holds the inference lock over the read, so a camera that hangs holds up
  every other one, and `stop` too: `StopHeard` fails with `Backend = "rocdecode"` (`pipeline.py:240-241`).
* The worker of a removed camera looks only at its index; once that is given out again it goes
  on and its records are filed under the new camera: why `OwnBatch` excepts removed ones.
* A source added between `prepare` and `run` gets two workers; `run` clears a stop that came
  before it; a second `run` never enables the publisher again.
* A source that is removed while `run` starts its threads makes it raise a `KeyError`
  (`pipeline.py:201-202`), with the threads it started left running.
* Adding or removing a source while the publisher's final flush walks its dictionary raises out of
  `run` (`publisher.py:89`).
* A record queued before `unregister_source` and read after it is dropped without a count, and two
  threads that flush one source may send its batch twice: why
  `HeldOnce` and `RunFlushes` speak of sources that are still there.

Observed while modelling the trackers and the plates, with no run kept:

* With the NvDCF defaults the least confidence of a detection (`nvdcf.py:43`) is above the one
  below which it is tentative (`nvdcf.py:61`), so the second association never runs.
  `visual_only_age` is reset by a detection only, which is why a target nobody detects lives for up to 1848 frames with the defaults (`UnseenBound`).
* Two workers that see one new vehicle at a time make two identities of it; a `_rebuild` that
  read before the other's insertion drops that row until the next one; a lookup between the two
  assignments can raise.
* Two workers may both find a vehicle without a plate and both write theirs: the second overwrites a plate that is
  set, which `tests/test_advanced_lpr.py:76-77` says does not happen; for a plate that was loaded it cannot (`SavedKept`).
* `save()` writes the file in place (`lpr.py:109`). A process that is killed meanwhile leaves a file that
  does not parse; `load()` raises on it, so every later `LPRStage` fails to be built until somebody removes it.
* A record's embedding is averaged with each that is similar to it (`lpr.py:142-154`), so that a chain of similar
  vehicles can carry it away from the first.
* Identities are six hexadecimal digits and are not compared with those in use.
* `_track_embeddings` grows for ever; nothing calls `clear_track`.

Observed while modelling the model cache and the stages, with no run kept:

* `model_zoo.py:68` calls the replacement of a cached program "atomic vs concurrent workers", but
  the temporary file has one name for all of them: a process moves the half-written file of another
  into the cache, where that one goes on writing. A crash then leaves a torn program, which
  every later start compiles again and replaces.
* Two processes that export one zoo model at a time use one file as well (`model_zoo.py:87-100`): the second
  `os.replace` raises, or a half-written model is moved. If its writer then dies, every later start
  fails to parse it, since that the file exists is all that is asked.
* The cache key is the file's size and its time in whole seconds, so a model that is replaced
  within the second by one of the same size is not compiled again.
* An export is written under one name whatever its batch and image size, and renamed after it
  (`model_zoo.py:96-99`): of two that run at a time one may be kept under the other's name.
* An int8 stage of the advanced pipeline raises on its first frame, since nothing calibrates it.

## 7. Not modelled, and the plan

The mux, the muxed pipeline, the V1 pipeline, the streaming API with decoders and
annotated video, the advanced pipeline with its publisher, its stages and the model cache, the trackers and the plate
recognition are done. Left, in the order of what matters most:

1. `add_source` of a running `MuxedPipeline` and the trackers of removed sources; the mux's
   `sync_inputs`, rate control and drain.
2. A second `prepare` or `run` of the advanced pipeline, a second application thread on one
   stream of the API, and a worker left behind beside a new one of the same camera in the plate recognition.
3. Embeddings with a distance, whose averages drift; exports of one zoo model for several configurations at a time; models
   that `DeviceModel` refuses.
4. The graph executor, which runs a topological order in one thread, and what the models of a
   `ModelChain` hand to each other.
5. The sampling grid, even-aligned ROIs and the letterbox. They are floating-point
   geometry: what could be wrong in them is rounding, which integers would not show.

Out of scope: the GPU kernels and the pybind11 glue (per-pixel arithmetic, no protocol), Kalman
and correlation arithmetic, inference, vendored code in `cpp/thirdparty`, device probing, and the
scripts, examples and the DeepStream probe, which measure or demonstrate.
