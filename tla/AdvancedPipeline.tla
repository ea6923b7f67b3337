------------------------- MODULE AdvancedPipeline --------------------------
(***************************************************************************)
(* AdvancedPipeline of avap (advanced/pipeline.py) with its DataPublisher: *)
(* one worker thread per source, source indices that are recycled through  *)
(* a free list, and three kinds of callers.  "Control" adds and removes    *)
(* sources and calls stop(); "main" calls prepare() and run(); the workers *)
(* decode, infer, track and publish.                                       *)
(*                                                                         *)
(* A camera is added at most once, but its index may be handed out again.  *)
(* A worker is named by its camera and by what started it: add_source on   *)
(* a prepared pipeline ("hot") or run ("run").  Each of prepare and run    *)
(* is called once, and add_source is one step.  Left out: what the models, *)
(* probes, metrics and plate recognition compute; a stage may raise, which *)
(* ends the worker.                                                        *)
(***************************************************************************)
EXTENDS DataPublisher

CONSTANTS
  MaxFrames,   \* frames each worker may decode
  HotAdd,      \* cameras that may be added after prepare()
  Removable,   \* cameras that control may remove
  Hanging,     \* cameras whose read may never return
  Backend,     \* "vaapi" or "rocdecode"
  LateJoin     \* TRUE when the join of disable() may time out

Worker == Camera \X {"hot", "run"}

ASSUME AdvAssumption ==
  /\ MaxFrames \in [Worker -> Nat]
  /\ Record \subseteq Worker \X Nat
  /\ \A w \in Worker : \A n \in 1 .. MaxFrames[w] : <<w, n>> \in Record
  /\ HotAdd \subseteq Camera /\ Removable \subseteq Camera /\ Hanging \subseteq Camera
  /\ Backend \in {"vaapi", "rocdecode"} /\ LateJoin \in BOOLEAN

VARIABLES
  source,   \* AdvancedPipeline._sources: the index of every source
  added,    \* cameras that were added
  free,     \* _free_indices
  next,     \* _next_index
  leaving,  \* the camera remove_source works on, at most one
  stop,     \* _stop
  main,     \* where main is
  starting, \* the indices whose threads run() has still to start
  joining,  \* the threads run() waits for
  pc,       \* where a worker is
  at,       \* the index a worker was started with
  made,     \* frames it decoded
  late,     \* the join of disable() timed out
  final,    \* the sources disable() iterates over
  flushed   \* those it has flushed

control == <<source, added, free, next, leaving>>
runner == <<main, starting, joining, late, final, flushed>>
workers == <<pc, at, made>>
advVars == <<pubVars, control, stop, runner, workers>>

AdvInit ==
  /\ PubInit
  /\ source = [c \in Camera |-> NoIndex]
  /\ added = {} /\ free = <<>> /\ next = 0 /\ leaving = {}
  /\ stop = FALSE
  /\ main = "new" /\ starting = {} /\ joining = {} /\ late = FALSE /\ final = {} /\ flushed = {}
  /\ pc = [w \in Worker |-> "none"]
  /\ at = [w \in Worker |-> NoIndex]
  /\ made = [w \in Worker |-> 0]

Sources == {c \in Camera : source[c] # NoIndex}
InSources(i) == \E c \in Camera : source[c] = i

\* _start_source_thread, for a set of workers.
StartThreads(started, index) ==
  /\ pc' = [w \in Worker |-> IF w \in started THEN "test" ELSE pc[w]]
  /\ at' = [w \in Worker |-> IF w \in started THEN index[w[1]] ELSE at[w]]
  /\ UNCHANGED made

-----------------------------------------------------------------------------
(* Control. *)

\* Fault: the next index is not advanced.
AddSource_KeepsNext(c) ==
  /\ c \notin added /\ leaving = {}
  /\ main # "new" => c \in HotAdd
  /\ LET i == IF free # <<>> THEN free[Len(free)] ELSE next IN
     /\ source' = [source EXCEPT ![c] = i]
     /\ Register(c, i)
     /\ free' = IF free # <<>> THEN SubSeq(free, 1, Len(free) - 1) ELSE free
  /\ added' = added \cup {c}
  /\ StartThreads(IF main # "new" /\ ~stop THEN {<<c, "hot">>} ELSE {}, source')
  /\ UNCHANGED <<next, leaving, stop, runner>>

\* add_source: the last freed index or a new one; a prepared pipeline that is
\* not stopped gets a thread at once.
AddSource(c) ==
  /\ c \notin added /\ leaving = {}
  /\ main # "new" => c \in HotAdd
  /\ LET i == IF free # <<>> THEN free[Len(free)] ELSE next IN
     /\ source' = [source EXCEPT ![c] = i]
     /\ Register(c, i)
     /\ free' = IF free # <<>> THEN SubSeq(free, 1, Len(free) - 1) ELSE free
     /\ next' = IF i = next THEN next + 1 ELSE next
  /\ added' = added \cup {c}
  /\ StartThreads(IF main # "new" /\ ~stop THEN {<<c, "hot">>} ELSE {}, source')
  /\ UNCHANGED <<leaving, stop, runner>>

\* remove_source: the source goes at once, its worker is not waited for, and
\* its batch is flushed before the index is free.
BeginRemove(c) ==
  /\ c \in Removable /\ c \in Sources /\ leaving = {}
  /\ source' = [source EXCEPT ![c] = NoIndex]
  /\ leaving' = {c}
  /\ UnregisterFlush(c)
  /\ UNCHANGED <<added, free, next, stop, runner, workers>>

RemoveFlush ==
  /\ ControlFlush
  /\ UNCHANGED <<control, stop, runner, workers>>

\* Fault: the index is free before the source is unregistered.
EndRemove_FreesFirst(c) ==
  /\ c \in leaving
  /\ free' = Append(free, reg[c])
  /\ leaving' = {}
  /\ UNCHANGED <<pubVars, source, added, next, stop, runner, workers>>

EndRemove(c) ==
  /\ c \in leaving
  /\ Unregister(c)
  /\ free' = Append(free, reg[c])
  /\ leaving' = {}
  /\ UNCHANGED <<source, added, next, stop, runner, workers>>

StopCalled ==
  /\ ~stop
  /\ stop' = TRUE
  /\ UNCHANGED <<pubVars, control, runner, workers>>

-----------------------------------------------------------------------------
(* Main. *)

Prepare ==
  /\ main = "new"
  /\ main' = "prepared"
  /\ Enable
  /\ UNCHANGED <<control, stop, starting, joining, late, final, flushed, workers>>

\* run: an earlier stop is forgotten, and the sources are listed.
Run ==
  /\ main = "prepared"
  /\ main' = "starting"
  /\ stop' = FALSE
  /\ starting' = {source[c] : c \in Sources}
  /\ UNCHANGED <<pubVars, control, joining, late, final, flushed, workers>>

\* Every listed index gets a thread, whether its source has one or not.
StartSource(c) ==
  /\ main = "starting" /\ source[c] \in starting
  /\ StartThreads({<<c, "run">>}, source)
  /\ starting' = starting \ {source[c]}
  /\ UNCHANGED <<pubVars, control, stop, main, joining, late, final, flushed>>

\* _start_source_thread: KeyError, out of run(), when the source is gone.
StartFails ==
  /\ main = "starting"
  /\ \E i \in starting : ~InSources(i)
  /\ main' = "failed"
  /\ UNCHANGED <<pubVars, control, stop, starting, joining, late, final, flushed, workers>>

\* The threads to join: the latest one of every source.
ListThreads ==
  /\ main = "starting" /\ starting = {}
  /\ main' = "running"
  /\ joining' = {w \in Worker :
                   /\ w[1] \in Sources /\ pc[w] # "none"
                   /\ w[2] = "hot" => pc[<<w[1], "run">>] = "none"}
  /\ UNCHANGED <<pubVars, control, stop, starting, late, final, flushed, workers>>

Joined ==
  /\ main = "running"
  /\ \A w \in joining : pc[w] = "ended"
  /\ main' = "disabling"
  /\ Disable
  /\ UNCHANGED <<control, stop, starting, joining, late, final, flushed, workers>>

\* The publisher's worker is joined for ten seconds.
JoinPublisher ==
  /\ main = "disabling"
  /\ pub = "ended" \/ LateJoin
  /\ late' = (pub # "ended")
  /\ main' = "flushing"
  /\ final' = Registered
  /\ UNCHANGED <<pubVars, control, stop, starting, joining, flushed, workers>>

\* for src in self._sources.values(): a dictionary that changed its size
\* meanwhile makes the loop, and with it run(), raise.
SizeChanged == Cardinality(Registered) # Cardinality(final)

FlushNext(c) ==
  /\ main = "flushing" /\ c \in final \ flushed /\ ~SizeChanged
  /\ FinalFlush(c)
  /\ flushed' = flushed \cup {c}
  /\ UNCHANGED <<control, stop, main, starting, joining, late, final, workers>>

FlushSwap ==
  /\ MainFlush
  /\ UNCHANGED <<control, stop, runner, workers>>

Return ==
  /\ main = "flushing" /\ target["main"] = {}
  /\ flushed = final \/ SizeChanged
  /\ main' = IF SizeChanged THEN "raised" ELSE "returned"
  /\ UNCHANGED <<pubVars, control, stop, starting, joining, late, final, flushed, workers>>

-----------------------------------------------------------------------------
(* A source worker. *)

Goto(w, where) == pc' = [pc EXCEPT ![w] = where]

\* Fault: every backend holds the inference lock over the read.
LockFree_OverRead(w) == \A v \in Worker \ {w} : pc[v] # "read"

\* rocDecode holds the inference lock over the read of the next frame.
LockFree(w) == Backend = "rocdecode" => \A v \in Worker \ {w} : pc[v] # "read"

\* while not self._stop.is_set() and index in self._sources
Test(w) ==
  /\ pc[w] = "test"
  /\ Goto(w, IF stop \/ ~InSources(at[w]) THEN "ended" ELSE "lock")
  /\ UNCHANGED <<pubVars, control, stop, runner, at, made>>

Lock(w) ==
  /\ pc[w] = "lock" /\ LockFree(w)
  /\ Goto(w, "read")
  /\ UNCHANGED <<pubVars, control, stop, runner, at, made>>

\* next_frame returns a frame, or the source ends or breaks (or never opened).
Read(w) ==
  /\ pc[w] = "read"
  /\ \/ /\ made[w] < MaxFrames[w]
        /\ made' = [made EXCEPT ![w] = @ + 1]
        /\ Goto(w, "process")
     \/ Goto(w, "ended") /\ UNCHANGED made
  /\ UNCHANGED <<pubVars, control, stop, runner, at>>

\* process_image up to the record, its inferences under the lock: context, frame
\* number and tracker are looked up by the index (KeyError if it is gone), as
\* they are now, and a stage may raise.
Infer(w) ==
  /\ pc[w] = "process" /\ LockFree(w)
  /\ \/ InSources(at[w]) /\ Goto(w, "publish")
     \/ Goto(w, "ended")
  /\ UNCHANGED <<pubVars, control, stop, runner, at, made>>

PublishFrame(w) ==
  /\ pc[w] = "publish"
  /\ Publish(at[w], <<w, made[w]>>)
  /\ Goto(w, "test")
  /\ UNCHANGED <<control, stop, runner, at, made>>

Publisher ==
  /\ WorkerStep
  /\ UNCHANGED <<control, stop, runner, workers>>

-----------------------------------------------------------------------------
Step(w) == Test(w) \/ Lock(w) \/ Infer(w) \/ PublishFrame(w)
Removing == RemoveFlush \/ \E c \in Camera : EndRemove(c)
Starting == StartFails \/ ListThreads \/ \E c \in Camera : StartSource(c)
Ending == Joined \/ JoinPublisher \/ FlushSwap \/ Return \/ \E c \in Camera : FlushNext(c)

AdvNext ==
  \/ \E c \in Camera : AddSource(c) \/ BeginRemove(c)
  \/ Removing \/ StopCalled
  \/ Prepare \/ Run \/ Starting \/ Ending
  \/ \E w \in Worker : Step(w) \/ Read(w)
  \/ Publisher

AdvSpec == AdvInit /\ [][AdvNext]_advVars

\* Every thread runs; a read returns unless its camera hangs.  Nothing is
\* assumed about the callers' decisions.
AdvFairness ==
  /\ WF_advVars(Removing) /\ WF_advVars(Publisher)
  /\ WF_advVars(Starting) /\ WF_advVars(Ending)
  /\ \A w \in Worker : WF_advVars(Step(w))
  /\ \A w \in Worker : w[1] \notin Hanging => WF_advVars(Read(w))

AdvFairSpec == AdvSpec /\ AdvFairness

-----------------------------------------------------------------------------
(* Properties. *)

AdvTypeOK ==
  /\ PubTypeOK
  /\ source \in [Camera -> Index \cup {NoIndex}]
  /\ added \subseteq Camera /\ leaving \subseteq Camera
  /\ free \in Seq(Index) /\ next \in Nat
  /\ stop \in BOOLEAN /\ late \in BOOLEAN
  /\ main \in {"new", "prepared", "starting", "failed", "running", "disabling", "flushing",
               "returned", "raised"}
  /\ starting \subseteq Index /\ joining \subseteq Worker
  /\ pc \in [Worker -> {"none", "test", "lock", "read", "process", "publish", "ended"}]
  /\ at \in [Worker -> Index \cup {NoIndex}]
  /\ made \in [Worker -> Nat]
  /\ final \subseteq Camera /\ flushed \subseteq Camera

\* An index has one owner: a source, the call that removes one, or the free
\* list, and never two (a source removed twice would free its index twice, and
\* two cameras would then share tracker, frame numbers and batch).
IndexOwner ==
  /\ \A c, d \in Camera : c # d /\ reg[c] # NoIndex => reg[c] # reg[d]
  /\ \A c \in Camera : source[c] # NoIndex => source[c] = reg[c]
  /\ \A j \in DOMAIN free :
       /\ free[j] < next
       /\ \A c \in Camera : reg[c] # free[j]
       /\ \A k \in DOMAIN free : k # j => free[k] # free[j]

CameraOf(r) == r[1][1]

\* Whatever is added, removed and reused meanwhile, the record of a camera that
\* was not removed is never put into the batch of another camera.
OwnBatch ==
  \A r \in Record, c \in Camera :
    /\ CameraOf(r) \in Sources
    /\ r \in records[c] \/ (r \in hand /\ c \in target["worker"])
    => c = CameraOf(r)

\* One for each place that has the record.
Copies(r) ==
  Cardinality({j \in DOMAIN queue : queue[j][2] = r})
    + (IF r \in hand THEN 1 ELSE 0)
    + Cardinality({c \in Camera : r \in records[c]})
    + sent[r]

\* A record the queue took from a camera that was not removed is in one place,
\* once: queue, worker, batch or transport.  It is neither lost nor sent twice,
\* unless disable() gave up on its worker.
HeldOnce == \A r \in accepted : CameraOf(r) \in Sources /\ ~late => Copies(r) = 1

\* When run() has returned, everything its threads handed to the publisher for
\* sources that are still there was sent.
RunFlushes ==
  main = "returned" /\ ~late =>
    \A r \in accepted : r[1] \in joining /\ CameraOf(r) \in Sources => sent[r] = 1

\* A stop() during run() ends every worker whose reads return, although another
\* camera hangs in a read, and run() returns when the last of its threads ends.
StopHeard ==
  (main \in {"starting", "running"} /\ stop) ~>
    /\ \A w \in Worker : w[1] \notin Hanging => pc[w] \in {"none", "ended"}
    /\ (\A w \in joining : pc[w] = "ended") => main \in {"failed", "returned", "raised"}

=============================================================================
