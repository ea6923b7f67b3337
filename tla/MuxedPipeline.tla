--------------------------- MODULE MuxedPipeline ---------------------------
(***************************************************************************)
(* MuxedPipeline of avap (muxed_pipeline.py): StreamMux with the threads   *)
(* that use it.  One thread per source decodes and pushes; the runner      *)
(* (StreamMuxRunner) polls, renders a batch into the canvas, runs the      *)
(* detector and hands the frames to the sink; the application calls stop.  *)
(*                                                                         *)
(* The mux is StreamMux itself: every action here that touches it contains *)
(* the action of that module.  All pads are added before the threads start *)
(* and stay.  The runner's wait between two polls is timed, so it is no    *)
(* step of its own.                                                        *)
(*                                                                         *)
(* Left out: what the detector and the tracker compute (they may raise),   *)
(* regions of interest, and the order in which a batch shows frames of     *)
(* different sources.                                                      *)
(***************************************************************************)
EXTENDS StreamMux

CONSTANT SlowJoin   \* TRUE when the joins of stop() may run into their timeouts

ASSUME MuxedAssumption ==
  /\ InitialPads = Source /\ Removable = {} /\ MayStop = TRUE
  /\ \A p, q \in Source : IndexOf[p] = IndexOf[q] => p = q
  /\ SlowJoin \in BOOLEAN

VARIABLES
  app,       \* where the application is in stop()
  reading,   \* sources whose thread is past its loop test, in next_frame
  runner,    \* where the runner is
  slots,     \* frames of its batch that the sink has not got yet
  ending,    \* the pipeline EOS comes after that batch
  imported,  \* frames whose descriptor went to the canvas
  shown,     \* frames the sink got
  canvas,    \* the canvas has its device buffer
  done,      \* MuxedPipeline.done
  late       \* the join of the runner timed out

mine == <<app, reading, runner, slots, ending, imported, shown, canvas, done, late>>
consumer == <<runner, slots, ending, imported, shown, done>>
muxedVars == <<vars, mine>>

MuxedInit ==
  /\ Init
  /\ app = "running" /\ reading = {} /\ runner = "looping"
  /\ slots = {} /\ ending = FALSE /\ imported = {} /\ shown = {}
  /\ canvas = TRUE /\ done = FALSE /\ late = FALSE

quitting == app # "running"                          \* MuxedPipeline._stop
halted == app \in {"joining runner", "stopped"}      \* StreamMuxRunner._stop

-----------------------------------------------------------------------------
(* A source thread. *)

\* while not p._stop.is_set()
Loop(s) ==
  /\ pc[s] = "idle" /\ s \notin reading /\ ~quitting
  /\ reading' = reading \cup {s}
  /\ UNCHANGED <<vars, app, consumer, canvas, late>>

\* next_frame returns a frame, and push_frame is called.
Decode(s) ==
  /\ s \in reading /\ Call(s)
  /\ reading' = reading \ {s}
  /\ UNCHANGED <<app, consumer, canvas, late>>

\* push_frame
Pushing(s) ==
  /\ PushRefused(s) \/ Push(s) \/ Resume(s)
  /\ UNCHANGED mine

\* The source cannot be opened, ends, breaks, or is stopped: push_eos.
End(s) ==
  /\ s \in reading \/ decoded[s] = 0 \/ quitting
  /\ PushEos(s)
  /\ reading' = reading \ {s}
  /\ UNCHANGED <<app, consumer, canvas, late>>

-----------------------------------------------------------------------------
(* The runner: poll, then its items in order. *)

\* while not self._stop.is_set()
RunnerLoop ==
  /\ runner = "looping"
  /\ runner' = IF halted THEN "ended" ELSE "polling"
  /\ UNCHANGED <<vars, app, reading, slots, ending, imported, shown, canvas, done, late>>

\* Fault: events before batches.
RunnerPoll_EventsFirst ==
  /\ runner = "polling"
  /\ Poll
  /\ slots' = delivered' \ delivered
  /\ runner' = IF slots' = {} THEN "looping" ELSE "rendering"
  /\ done' = (done \/ (eosSent' /\ ~eosSent))
  /\ UNCHANGED <<app, reading, ending, imported, shown, canvas, late>>

\* poll returns events, a batch, and the pipeline EOS after it.
RunnerPoll ==
  LET over == eosSent' /\ ~eosSent IN
  /\ runner = "polling"
  /\ Poll
  /\ slots' = delivered' \ delivered
  /\ IF slots' = {}
     THEN runner' = "looping" /\ ending' = FALSE /\ done' = (done \/ over)
     ELSE runner' = "rendering" /\ ending' = over /\ UNCHANGED done
  /\ UNCHANGED <<app, reading, imported, shown, canvas, late>>

\* The batch is over, and the event after it is told.
Finish ==
  /\ runner' = "looping"
  /\ done' = (done \/ ending) /\ ending' = FALSE

\* The part of the batch that was rendered before an error.
Before(part) == \A f \in part, g \in slots : f[1] = g[1] /\ g[2] < f[2] => g \in part

\* render and the detector.  A batch with more frames than the canvas has slots
\* is refused as a whole; any frame's import, the read-back or the detector may
\* raise, and the runner goes on without the batch.
Render ==
  /\ runner = "rendering"
  /\ \/ /\ Cardinality(slots) <= BatchSize /\ canvas
        /\ imported' = imported \cup slots
        /\ runner' = "showing"
        /\ UNCHANGED <<slots, ending, done>>
     \/ /\ \E part \in SUBSET slots :
             /\ Before(part)
             /\ Cardinality(slots) > BatchSize => part = {}
             /\ imported' = imported \cup part
        /\ slots' = {}
        /\ Finish
  /\ UNCHANGED <<vars, app, reading, shown, canvas, late>>

\* One frame goes to the sink, whose errors are caught.
Show ==
  /\ runner = "showing"
  /\ \E f \in slots :
       /\ \A g \in slots : f[1] = g[1] => f[2] <= g[2]
       /\ shown' = shown \cup {f}
       /\ slots' = slots \ {f}
  /\ IF slots' = {} THEN Finish ELSE UNCHANGED <<runner, ending, done>>
  /\ UNCHANGED <<vars, app, reading, imported, canvas, late>>

\* Fault: an error drops the events behind the batch as well.
ShowFails_SkipsEvents ==
  /\ runner = "showing" /\ runner' = "looping"
  /\ slots' = {} /\ ending' = FALSE
  /\ UNCHANGED <<vars, app, reading, imported, shown, canvas, done, late>>

\* Reading the detections or the tracker raises.
ShowFails ==
  /\ runner = "showing"
  /\ slots' = {}
  /\ Finish
  /\ UNCHANGED <<vars, app, reading, imported, shown, canvas, late>>

-----------------------------------------------------------------------------
(* stop() *)

BeginStop ==
  /\ app = "running"
  /\ app' = "joining sources"
  /\ UNCHANGED <<vars, reading, consumer, canvas, late>>

\* Fault: the mux is not stopped.
StopRunner_NotMux ==
  /\ app = "joining sources"
  /\ (\A s \in Source : pc[s] = "done") \/ SlowJoin
  /\ app' = "joining runner"
  /\ UNCHANGED <<vars, reading, consumer, canvas, late>>

\* Each source thread is joined for ten seconds; then StreamMuxRunner.stop sets
\* its event and stops the mux.
StopRunner ==
  /\ app = "joining sources"
  /\ (\A s \in Source : pc[s] = "done") \/ SlowJoin
  /\ app' = "joining runner"
  /\ Stop
  /\ UNCHANGED <<reading, consumer, canvas, late>>

\* Fault: the canvas is closed before the join.
CloseCanvas_NoJoin ==
  /\ app = "joining runner"
  /\ app' = "stopped"
  /\ canvas' = FALSE
  /\ UNCHANGED <<vars, reading, consumer, late>>

\* The runner is joined for five seconds, then the canvas is closed.
CloseCanvas ==
  /\ app = "joining runner"
  /\ runner = "ended" \/ SlowJoin
  /\ late' = (runner # "ended")
  /\ app' = "stopped"
  /\ canvas' = FALSE
  /\ UNCHANGED <<vars, reading, consumer>>

-----------------------------------------------------------------------------
SourceStep(s) == Loop(s) \/ Decode(s) \/ Pushing(s) \/ End(s)
RunnerStep == RunnerLoop \/ RunnerPoll \/ Render \/ Show \/ ShowFails
Stopping == StopRunner \/ CloseCanvas

MuxedNext ==
  \/ \E s \in Source : SourceStep(s)
  \/ RunnerStep \/ BeginStop \/ Stopping
  \/ Tick /\ UNCHANGED mine

MuxedSpec == MuxedInit /\ [][MuxedNext]_muxedVars

\* Clock, runner and source threads go on: a VAAPI decoder bounds every read by
\* a deadline, and so are the joins of a stop that was begun.
MuxedFairness ==
  /\ WF_muxedVars(Tick /\ UNCHANGED mine)
  /\ WF_muxedVars(RunnerStep) /\ WF_muxedVars(Stopping)
  /\ \A s \in Source : WF_muxedVars(SourceStep(s))

MuxedFairSpec == MuxedSpec /\ MuxedFairness

-----------------------------------------------------------------------------
(* Properties. *)

MuxedTypeOK ==
  /\ TypeOK
  /\ app \in {"running", "joining sources", "joining runner", "stopped"}
  /\ reading \subseteq Source
  /\ runner \in {"looping", "polling", "rendering", "showing", "ended"}
  /\ slots \subseteq delivered /\ imported \subseteq delivered /\ shown \subseteq imported
  /\ {ending, canvas, done, late} \subseteq BOOLEAN

\* The runner never works on a canvas that stop() has closed, unless its join
\* timed out.
CanvasThere == runner \in {"rendering", "showing"} /\ ~late => canvas

\* When wait() returns, nothing is on its way any more: not in a thread's hand,
\* not in the mux and not in the runner's batch.
DoneMeansAll == done => InHand = {} /\ Queued = {} /\ slots = {}

\* The sink gets the frames of a source in the order they were decoded, each
\* once.
SinkInOrder ==
  [][\A f \in shown' \ shown, g \in shown : f[1] = g[1] => g[2] < f[2]]_muxedVars

\* Once every source has ended, wait() returns, unless stop() was called.
DoneComes == (\A s \in Source : pc[s] = "done") ~> (done \/ quitting)

\* stop() gets every thread to its end, whatever it waits for.
StopEnds == quitting ~> (runner = "ended" /\ \A s \in Source : pc[s] = "done")

=============================================================================
