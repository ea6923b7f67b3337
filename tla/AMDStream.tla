------------------------------ MODULE AMDStream ------------------------------
(***************************************************************************)
(* The streaming API of avap (streaming.py): AMDStream objects, each with  *)
(* the worker thread its start_stream creates, under one AMDGPUManager and *)
(* one application thread that starts, joins and stops them, directly or   *)
(* through the manager.                                                    *)
(*                                                                         *)
(* A worker is <<stream, k>>, the thread of the k-th start that succeeded. *)
(* All workers of a stream share its fields: state, _stop, _sink and       *)
(* _active_decoder.  A decoder's constructor holds the interpreter lock,   *)
(* so opening a source is one step; next_frame releases it.                *)
(*                                                                         *)
(* The records of a batch are counted, not named.  Left out: annotated     *)
(* video, and what the sampling, the ROI, the model and the tracker        *)
(* compute; all but the first may raise, which ends the source loop.       *)
(***************************************************************************)
EXTENDS Integers, FiniteSets

CONSTANTS
  Stream,         \* AMDStream objects
  ListPos,        \* [Stream -> position in AMDGPUManager.streams]
  Live,           \* streams with a network source
  Abortable,      \* streams whose decoder can be aborted (VAAPI)
  SelfStopping,   \* streams whose on_event calls stop_stream on a sink_error
  BatchSize,      \* batch_size
  MaxRetries,     \* RetryPolicy.max_retries
  MayReset,       \* TRUE when an attempt may last reset_after_s
  StopOnFailure,  \* config["stop_on_failure"]
  SlowJoin,       \* streams whose join in stop_stream may run into its timeout
  MaxStarts,      \* bound: [Stream -> starts that succeed]
  MaxFrames       \* bound: [Stream -> frames its sources deliver]

ASSUME AMDStreamAssumption ==
  /\ Live \cup Abortable \cup SelfStopping \cup SlowJoin \subseteq Stream
  /\ ListPos \in [Stream -> Nat]
  /\ BatchSize \in Nat \ {0} /\ MaxRetries \in Nat
  /\ {MayReset, StopOnFailure} \subseteq BOOLEAN
  /\ MaxStarts \in [Stream -> Nat] /\ MaxFrames \in [Stream -> Nat]

VARIABLES
  state,    \* AMDStream.state
  stop,     \* AMDStream._stop
  sink,     \* AMDStream._sink is there, and open
  active,   \* AMDStream._active_decoder, as the worker that opened it
  starts,   \* workers that were started; the last one is _thread
  frames,   \* frames_processed
  at,       \* where the application is in start_stream or stop_stream
  late,     \* workers whose join timed out
  toStart,  \* streams start_streams has yet to visit
  toStop,   \* streams stop_streams has yet to visit
  pc,       \* where a worker is
  attempt,  \* attempt of its retry cycle
  buffered, \* records of the batch it has not emitted yet
  outcome,  \* how its source loop ended, "none" before and after
  aborted,  \* its decoder was told to abort; FALSE when it has none
  said      \* the last lifecycle event it reported

application == <<at, late, toStart, toStop, starts>>
cycle == <<pc, attempt, buffered, outcome, said>>
vars == <<state, stop, sink, active, starts, frames, at, late, toStart, toStop,
          pc, attempt, buffered, outcome, aborted, said>>

Worker == UNION {{s} \X (1 .. MaxStarts[s]) : s \in Stream}
Nobody == <<>>

Init ==
  /\ state = [s \in Stream |-> "configured"]
  /\ stop = [s \in Stream |-> FALSE] /\ sink = [s \in Stream |-> FALSE]
  /\ active = [s \in Stream |-> Nobody]
  /\ starts = [s \in Stream |-> 0] /\ frames = [s \in Stream |-> 0]
  /\ at = [s \in Stream |-> "idle"] /\ late = {} /\ toStart = {} /\ toStop = {}
  /\ pc = [w \in Worker |-> "new"] /\ attempt = [w \in Worker |-> 0]
  /\ buffered = [w \in Worker |-> 0] /\ outcome = [w \in Worker |-> "none"]
  /\ aborted = [w \in Worker |-> FALSE] /\ said = [w \in Worker |-> "nothing"]

Ready == \A s \in Stream : at[s] = "idle"
Idle == Ready /\ toStart = {} /\ toStop = {}
\* A worker that may still read, emit or connect again.
Working(w) == pc[w] \notin {"new", "eof", "failed", "leaving", "ended"}

\* The stream the manager's loop visits next.
FirstOf(S) == {s \in S : \A t \in S : ListPos[s] <= ListPos[t]}

-----------------------------------------------------------------------------
(* The application: start_stream, stop_stream, join. *)

\* The manager starts streams that are "configured"; an application may start
\* a stream again that stopped, ended or failed.
BeginStart(s) ==
  /\ Ready
  /\ \/ s \in FirstOf(toStart) /\ toStart' = toStart \ {s}
     \/ Idle /\ state[s] \in {"configured", "stopped", "failed", "eof"} /\ UNCHANGED toStart
  /\ state' = [state EXCEPT ![s] = "starting"]
  /\ at' = [at EXCEPT ![s] = "starting"]
  /\ UNCHANGED <<stop, sink, active, starts, frames, late, toStop, cycle, aborted>>

\* Something cannot be acquired, before or after the sink was made.
FailStart(s) ==
  /\ at[s] = "starting"
  /\ state' = [state EXCEPT ![s] = "failed"]
  /\ \E made \in BOOLEAN : sink' = [sink EXCEPT ![s] = @ \/ made]
  /\ toStart' = IF StopOnFailure THEN {} ELSE toStart
  /\ at' = [at EXCEPT ![s] = "idle"]
  /\ UNCHANGED <<stop, active, starts, frames, late, toStop, cycle, aborted>>

\* The sink is made, the stop event cleared and the thread started.
Launch(s) ==
  /\ at[s] = "starting" /\ starts[s] < MaxStarts[s]
  /\ at' = [at EXCEPT ![s] = "launched"]
  /\ sink' = [sink EXCEPT ![s] = TRUE]
  /\ stop' = [stop EXCEPT ![s] = FALSE]
  /\ starts' = [starts EXCEPT ![s] = @ + 1]
  /\ pc' = [pc EXCEPT ![<<s, starts'[s]>>] = "top"]
  /\ UNCHANGED <<state, active, frames, late, toStart, toStop, attempt, buffered,
                 outcome, said, aborted>>

\* start_stream sets the state after the thread was started.
EndStart(s) ==
  /\ at[s] = "launched"
  /\ state' = [state EXCEPT ![s] = "running"]
  /\ at' = [at EXCEPT ![s] = "idle"]
  /\ UNCHANGED <<stop, sink, active, starts, frames, late, toStart, toStop, cycle,
                 aborted>>

\* Fault: the stop event is not set.
BeginStop_NoEvent(s) ==
  /\ Ready
  /\ \/ s \in FirstOf(toStop) /\ state[s] = "running" /\ toStop' = toStop \ {s}
     \/ Idle /\ state[s] # "configured" /\ UNCHANGED toStop
  /\ at' = [at EXCEPT ![s] = "aborting"]
  /\ UNCHANGED <<state, stop, sink, active, starts, frames, late, toStart, cycle, aborted>>

\* (Stopping a configured stream sets an event that start_stream clears.)
BeginStop(s) ==
  /\ Ready
  /\ \/ s \in FirstOf(toStop) /\ state[s] = "running" /\ toStop' = toStop \ {s}
     \/ Idle /\ state[s] # "configured" /\ UNCHANGED toStop
  /\ stop' = [stop EXCEPT ![s] = TRUE]
  /\ at' = [at EXCEPT ![s] = "aborting"]
  /\ UNCHANGED <<state, sink, active, starts, frames, late, toStart, cycle, aborted>>

\* Fault: the sink is closed first.
Abort_ClosesSink(s) ==
  /\ at[s] = "aborting"
  /\ aborted' = [w \in Worker |-> aborted[w] \/ w = active[s]]
  /\ at' = [at EXCEPT ![s] = "joining"]
  /\ sink' = [sink EXCEPT ![s] = FALSE]
  /\ UNCHANGED <<state, stop, active, starts, frames, late, toStart, toStop, cycle>>

\* The decoder that is active is aborted, and the join begins.
Abort(s) ==
  /\ at[s] = "aborting"
  /\ aborted' = [w \in Worker |-> aborted[w] \/ w = active[s]]
  /\ at' = [at EXCEPT ![s] = "joining"]
  /\ UNCHANGED <<state, stop, sink, active, starts, frames, late, toStart, toStop, cycle>>

Joined(s) == starts[s] > 0 => pc[<<s, starts[s]>>] = "ended"

\* _sink.close() raises: the sink is still there, open or not.
CloseRaises(s) == sink[s] /\ \E open \in BOOLEAN : sink' = [sink EXCEPT ![s] = open]

\* The join returns, after ten seconds at the latest, and the sink is closed.
\* When that raises the state stays, and stop_streams visits no other stream.
EndStop(s) ==
  /\ at[s] = "joining"
  /\ Joined(s) \/ s \in SlowJoin
  /\ late' = IF Joined(s) THEN late ELSE late \cup {<<s, starts[s]>>}
  /\ \/ /\ sink' = [sink EXCEPT ![s] = FALSE]
        /\ state' = [state EXCEPT ![s] = IF @ = "running" THEN "stopped" ELSE @]
        /\ UNCHANGED toStop
     \/ /\ CloseRaises(s)
        /\ toStop' = {}
        /\ UNCHANGED state
  /\ at' = [at EXCEPT ![s] = "idle"]
  /\ UNCHANGED <<stop, active, starts, frames, toStart, cycle, aborted>>

\* join(): the sink is closed when the thread has ended.
Join(s) ==
  /\ Idle /\ starts[s] > 0 /\ Joined(s)
  /\ sink' = [sink EXCEPT ![s] = FALSE] \/ CloseRaises(s)
  /\ UNCHANGED <<state, stop, active, frames, application, cycle, aborted>>

-----------------------------------------------------------------------------
(* AMDGPUManager.  Its loops visit the streams in list order. *)

\* Only this thread moves a stream out of "configured", so what start_streams
\* passes over can be left out at once.
StartStreams ==
  /\ Idle
  /\ toStart' = {s \in Stream : state[s] = "configured"}
  /\ UNCHANGED <<state, stop, sink, active, starts, frames, at, late, toStop, cycle, aborted>>

StopStreams ==
  /\ Idle
  /\ toStop' = Stream
  /\ UNCHANGED <<state, stop, sink, active, starts, frames, at, late, toStart, cycle, aborted>>

\* stop_streams passes over a stream that is not running.
PassStop(s) ==
  /\ Ready /\ s \in FirstOf(toStop) /\ state[s] # "running"
  /\ toStop' = toStop \ {s}
  /\ UNCHANGED <<state, stop, sink, active, starts, frames, at, late, toStart, cycle, aborted>>

-----------------------------------------------------------------------------
(* The worker: _run_cycle and the source loop. *)

\* An attempt begins, unless the stream was stopped.
Top(w) ==
  /\ pc[w] = "top"
  /\ IF stop[w[1]]
     THEN /\ pc' = [pc EXCEPT ![w] = "leaving"]
          /\ UNCHANGED said
     ELSE /\ pc' = [pc EXCEPT ![w] = "connecting"]
          /\ said' = [said EXCEPT ![w] = "connecting"]
  /\ UNCHANGED <<state, stop, sink, active, frames, application, attempt, buffered,
                 outcome, aborted>>

\* Fault: the decoder is not published.
Open_Unpublished(w) ==
  /\ pc[w] = "connecting"
  /\ pc' = [pc EXCEPT ![w] = "loop"]
  /\ said' = [said EXCEPT ![w] = "connected"]
  /\ UNCHANGED <<state, stop, sink, active, frames, application, attempt, buffered,
                 outcome, aborted>>

\* The source is open: its decoder becomes the active one.
Open(w) ==
  /\ pc[w] = "connecting"
  /\ pc' = [pc EXCEPT ![w] = "loop"]
  /\ said' = [said EXCEPT ![w] = "connected"]
  /\ active' = IF w[1] \in Abortable THEN [active EXCEPT ![w[1]] = w] ELSE active
  /\ UNCHANGED <<state, stop, sink, frames, application, attempt, buffered, outcome,
                 aborted>>

OpenFails(w) ==
  /\ pc[w] = "connecting"
  /\ pc' = [pc EXCEPT ![w] = "down"]
  /\ said' = [said EXCEPT ![w] = "disconnected"]
  /\ UNCHANGED <<state, stop, sink, active, frames, application, attempt, buffered,
                 outcome, aborted>>

\* while not self._stop.is_set()
Loop(w) ==
  /\ pc[w] = "loop"
  /\ IF stop[w[1]]
     THEN /\ outcome' = [outcome EXCEPT ![w] = "stopped"]
          /\ pc' = [pc EXCEPT ![w] = "flushing"]
     ELSE /\ pc' = [pc EXCEPT ![w] = "reading"]
          /\ UNCHANGED outcome
  /\ UNCHANGED <<state, stop, sink, active, frames, application, attempt, buffered,
                 aborted, said>>

\* next_frame returns a frame, or None at the end of the source.  The sampling
\* passes over a frame, and so does the calibration.
Read(w) ==
  /\ pc[w] = "reading"
  /\ \/ /\ pc' = [pc EXCEPT ![w] = "loop"]
        /\ UNCHANGED <<frames, buffered, outcome>>
     \/ /\ frames[w[1]] < MaxFrames[w[1]]
        /\ frames' = [frames EXCEPT ![w[1]] = @ + 1]
        /\ buffered' = [buffered EXCEPT ![w] = @ + 1]
        /\ pc' = [pc EXCEPT ![w] = IF buffered'[w] = BatchSize THEN "emitting" ELSE "loop"]
        /\ UNCHANGED outcome
     \/ /\ pc' = [pc EXCEPT ![w] = "flushing"]
        /\ outcome' = [outcome EXCEPT ![w] = "finished"]
        /\ UNCHANGED <<frames, buffered>>
  /\ UNCHANGED <<state, stop, sink, active, application, attempt, aborted, said>>

\* The read times out or is aborted, or the conversion, the model or the
\* tracker raises: the batch is lost.
Break(w) ==
  /\ pc[w] \in {"reading", "emitting", "flushing"}
  /\ pc[w] = "flushing" => buffered[w] > 0
  /\ buffered' = [buffered EXCEPT ![w] = 0]
  /\ outcome' = [outcome EXCEPT ![w] = "error"]
  /\ pc' = [pc EXCEPT ![w] = "closing"]
  /\ UNCHANGED <<state, stop, sink, active, frames, application, attempt, aborted, said>>

\* One record of the batch goes to the sink.  A failing sink, or one that is
\* not there, is reported, and the reporter may stop the stream: stop_stream
\* sets the event and aborts, and its join raises on the worker's own thread.
Emit(w) ==
  LET s == w[1] IN
  /\ pc[w] \in {"emitting", "flushing"} /\ buffered[w] > 0
  /\ buffered' = [buffered EXCEPT ![w] = @ - 1]
  /\ pc' = [pc EXCEPT ![w] = IF buffered[w] = 1 /\ @ = "emitting" THEN "loop" ELSE @]
  /\ \/ sink[s] /\ UNCHANGED <<stop, aborted>>
     \/ IF s \in SelfStopping
        THEN /\ stop' = [stop EXCEPT ![s] = TRUE]
             /\ aborted' = [v \in Worker |-> aborted[v] \/ v = active[s]]
        ELSE UNCHANGED <<stop, aborted>>
  /\ UNCHANGED <<state, sink, active, frames, application, attempt, outcome, said>>

\* The rest of the batch is out.
Flushed(w) ==
  /\ pc[w] = "flushing" /\ buffered[w] = 0
  /\ pc' = [pc EXCEPT ![w] = "closing"]
  /\ UNCHANGED <<state, stop, sink, active, frames, application, attempt, buffered,
                 outcome, aborted, said>>

\* The decoder is gone.  A file whose loop ended without an error is at eof,
\* which its state says before its report does; everything else is a
\* disconnection.
Disconnect(w) ==
  LET s == w[1]
      eof == s \notin Live /\ outcome[w] # "error" IN
  /\ pc[w] = "closing"
  /\ active' = IF s \in Abortable THEN [active EXCEPT ![s] = Nobody] ELSE active
  /\ state' = IF eof THEN [state EXCEPT ![s] = "eof"] ELSE state
  /\ said' = IF eof THEN said ELSE [said EXCEPT ![w] = "disconnected"]
  /\ pc' = [pc EXCEPT ![w] = IF eof THEN "eof" ELSE "down"]
  /\ outcome' = [outcome EXCEPT ![w] = "none"]
  /\ aborted' = [aborted EXCEPT ![w] = FALSE]
  /\ UNCHANGED <<stop, sink, frames, application, attempt, buffered>>

\* Fault: the worker goes on after it gave up.
Down_GoesOn(w) ==
  LET try == attempt[w] + 1 IN
  /\ pc[w] = "down"
  /\ IF stop[w[1]] THEN /\ pc' = [pc EXCEPT ![w] = "leaving"]
                        /\ UNCHANGED <<state, attempt, said>>
     ELSE /\ attempt' = [attempt EXCEPT ![w] = IF try > MaxRetries THEN 0 ELSE try]
          /\ pc' = [pc EXCEPT ![w] = "backoff"]
          /\ said' = [said EXCEPT ![w] = IF try > MaxRetries THEN "gave_up"
                                         ELSE "reconnecting"]
          /\ state' = IF try > MaxRetries THEN [state EXCEPT ![w[1]] = "failed"] ELSE state
  /\ UNCHANGED <<stop, sink, active, frames, application, buffered, outcome, aborted>>

\* Fault: one retry too many.
Down_OneMore(w) ==
  /\ pc[w] = "down"
  /\ IF stop[w[1]]
     THEN /\ pc' = [pc EXCEPT ![w] = "leaving"]
          /\ UNCHANGED <<state, attempt, said>>
     ELSE IF attempt[w] > MaxRetries
     THEN /\ pc' = [pc EXCEPT ![w] = "failed"]
          /\ state' = [state EXCEPT ![w[1]] = "failed"]
          /\ UNCHANGED <<attempt, said>>
     ELSE /\ pc' = [pc EXCEPT ![w] = "backoff"]
          /\ attempt' = [attempt EXCEPT ![w] = @ + 1]
          /\ said' = [said EXCEPT ![w] = "reconnecting"]
          /\ UNCHANGED state
  /\ UNCHANGED <<stop, sink, active, frames, application, buffered, outcome, aborted>>

\* The number of the next attempt: an attempt that lasted reset_after_s
\* starts a new cycle.
NextTry(w) == {attempt[w] + 1} \cup (IF MayReset THEN {1} ELSE {})

\* The attempt is over: stop, retry or give up.
Down(w) ==
  /\ pc[w] = "down"
  /\ IF stop[w[1]]
     THEN /\ pc' = [pc EXCEPT ![w] = "leaving"]
          /\ UNCHANGED <<state, attempt, said>>
     ELSE \E try \in NextTry(w) :
            IF try > MaxRetries
            THEN /\ pc' = [pc EXCEPT ![w] = "failed"]
                 /\ state' = [state EXCEPT ![w[1]] = "failed"]
                 /\ UNCHANGED <<attempt, said>>
            ELSE /\ pc' = [pc EXCEPT ![w] = "backoff"]
                 /\ attempt' = [attempt EXCEPT ![w] = try]
                 /\ said' = [said EXCEPT ![w] = "reconnecting"]
                 /\ UNCHANGED state
  /\ UNCHANGED <<stop, sink, active, frames, application, buffered, outcome, aborted>>

\* The backoff is over, or cut short by the stop event.
Backoff(w) ==
  /\ pc[w] = "backoff"
  /\ pc' = [pc EXCEPT ![w] = IF stop[w[1]] THEN "leaving" ELSE "top"]
  /\ UNCHANGED <<state, stop, sink, active, frames, application, attempt, buffered,
                 outcome, aborted, said>>

\* The last event of the worker, after its state was set.
LastReport(w) ==
  /\ pc[w] \in {"eof", "failed"}
  /\ said' = [said EXCEPT ![w] = IF pc[w] = "eof" THEN "eof" ELSE "gave_up"]
  /\ pc' = [pc EXCEPT ![w] = "leaving"]
  /\ UNCHANGED <<state, stop, sink, active, frames, application, attempt, buffered,
                 outcome, aborted>>

\* _run is through with its finally clause.
Leave(w) ==
  /\ pc[w] = "leaving"
  /\ pc' = [pc EXCEPT ![w] = "ended"]
  /\ UNCHANGED <<state, stop, sink, active, frames, application, attempt, buffered,
                 outcome, aborted, said>>

-----------------------------------------------------------------------------
Step(w) ==
  \/ Top(w) \/ Open(w) \/ OpenFails(w) \/ Loop(w) \/ Read(w) \/ Break(w)
  \/ Emit(w) \/ Flushed(w) \/ Disconnect(w) \/ Down(w) \/ Backoff(w)
  \/ LastReport(w) \/ Leave(w)

Stopping(s) == Abort(s) \/ EndStop(s)

Next ==
  \/ StartStreams \/ StopStreams
  \/ \E s \in Stream :
       \/ BeginStart(s) \/ FailStart(s) \/ Launch(s) \/ EndStart(s)
       \/ BeginStop(s) \/ Stopping(s) \/ Join(s) \/ PassStop(s)
  \/ \E w \in Worker : Step(w)

Spec == Init /\ [][Next]_vars

\* A stop_stream that was begun goes on (its join is timed).  A worker goes on,
\* also in a read: files do not block, and a VAAPI decoder bounds every read of
\* a network source.  The rocDecode demuxer does not, so its live sources may hang.
Fairness ==
  /\ \A s \in Stream : WF_vars(Stopping(s))
  /\ \A w \in Worker : WF_vars(Step(w) /\ (pc[w] = "reading" => w[1] \notin Live \ Abortable))

FairSpec == Spec /\ Fairness

-----------------------------------------------------------------------------
(* Properties. *)

TypeOK ==
  /\ state \in [Stream -> {"configured", "starting", "running", "stopped", "failed", "eof"}]
  /\ stop \in [Stream -> BOOLEAN] /\ sink \in [Stream -> BOOLEAN]
  /\ active \in [Stream -> Worker \cup {Nobody}]
  /\ starts \in [Stream -> Nat] /\ \A s \in Stream : starts[s] <= MaxStarts[s]
  /\ frames \in [Stream -> Nat]
  /\ at \in [Stream -> {"idle", "starting", "launched", "aborting", "joining"}]
  /\ late \subseteq Worker /\ toStart \subseteq Stream /\ toStop \subseteq Stream
  /\ pc \in [Worker -> {"new", "top", "connecting", "loop", "reading", "emitting",
                        "flushing", "closing", "down", "backoff", "eof", "failed",
                        "leaving", "ended"}]
  /\ attempt \in [Worker -> 0 .. MaxRetries]
  /\ buffered \in [Worker -> 0 .. BatchSize]
  /\ outcome \in [Worker -> {"none", "finished", "stopped", "error"}]
  /\ aborted \in [Worker -> BOOLEAN]
  /\ said \in [Worker -> {"nothing", "connecting", "connected", "disconnected",
                          "reconnecting", "gave_up", "eof"}]

\* Streams none of whose joins timed out.
Prompt == {s \in Stream : \A w \in late : w[1] # s}

\* stop_stream closes the sink, and start_stream replaces it, only when no
\* worker is left that may emit to it.
SinkOpen == \A w \in Worker : Working(w) /\ w[1] \in Prompt => sink[w[1]]

\* A worker that stop_stream waits for is not in a read that nobody aborted: a
\* read that began before the stop event was set is one the abort reaches.
AbortHeard ==
  \A w \in Worker :
    /\ at[w[1]] = "joining" /\ w[1] \in Prompt \cap Abortable
    /\ pc[w] = "reading"
    => aborted[w]

\* A stream that stop_streams passes over, or that may be started again, has no
\* thread that goes on reading, emitting or connecting.  (It may have one that
\* still reports the end or cleans up.)
EndedStates ==
  \A w \in Worker :
    Working(w) /\ w[1] \in Prompt => state[w[1]] \in {"starting", "running"}

\* A stopped stream's thread ends, unless the stream is started again.
StopEnds == \A s \in Stream : at[s] = "joining" ~> (Joined(s) \/ at[s] = "starting")

Report == INSTANCE StreamReport
  WITH File <- {w \in Worker : w[1] \notin Live},
       tries <- attempt, over <- [w \in Worker |-> pc[w] \in {"leaving", "ended"}]

\* The reporter sees the events of every start in the order StreamReport says.
ReportSpec == Report!Spec

=============================================================================
