----------------------------- MODULE StreamMux -----------------------------
(***************************************************************************)
(* The batch former of avap (class StreamMux of avap/streammux.py) under   *)
(* its callers: one decoder thread per source that calls push_frame and    *)
(* push_eos, one consumer thread that calls poll, and an application that  *)
(* adds and removes pads and starts and stops the mux.                     *)
(*                                                                         *)
(* Every method body runs under one Condition, so each is one action.  The *)
(* only step that releases the lock is the wait of a blocking push_frame,  *)
(* and the only state read before the lock is taken is the clock (push).   *)
(*                                                                         *)
(* A SinkPad object is identified with the source it was created for, so   *)
(* that a pad index that is removed and added again gives two objects with *)
(* one index: push_frame and push_eos look the object up by index, while a *)
(* push_frame that already waits holds on to the object it found.          *)
(*                                                                         *)
(* A frame is a pair <<source, n>>, the n-th frame that source decodes.    *)
(* Deques and dictionaries are sets whose order is a relation kept beside  *)
(* them: padOrder (insertion order of pads), ahead (order in a pad's       *)
(* deque) and earlier (order of the recv_ns clock readings).  Time is      *)
(* counted in ticks since a frame was stamped (age) and since the last     *)
(* push (sinceBatch), both up to the longest delay that matters.           *)
(*                                                                         *)
(* Left out: output timestamps, frame numbers and source rate control, and *)
(* sync_inputs, which is off by default.                                   *)
(***************************************************************************)
EXTENDS Integers, FiniteSets

CONSTANTS
  Source,         \* sources, each with the SinkPad object made for it
  IndexOf,        \* [Source -> pad index]
  InitialPads,    \* pads added before the threads start, one per index
  Removable,      \* sources whose pad the application may remove
  MayStop,        \* TRUE when the application may call stop()
  MaxFrames,      \* bound: frames one source decodes
  Policy,         \* MuxConfig.policy, "legacy" or "new"
  LiveSource,     \* MuxConfig.live_source
  BlockWhenFull,  \* MuxConfig.blocks_when_full
  BatchSize,      \* MuxConfig.batch_size
  Timeout,        \* MuxConfig.batched_push_timeout_us in ticks, -1 = forever
  QueueDepth,     \* MuxConfig.queue_depth
  MaxSameLegacy,  \* MuxConfig.max_same_source_frames_legacy
  MaxSameNew,     \* MuxConfig.max_same_source_frames
  Adaptive,       \* MuxConfig.adaptive_batching
  RoundRobin,     \* MuxConfig.algorithm = "round_robin"
  Priority,       \* [Source -> SourceConfig.priority]
  MaxPerBatch,    \* SourceConfig.max_frames_per_batch
  MinGap          \* ticks of 1/overall_max_fps, 0 without max_fps_control

ASSUME MuxAssumption ==
  /\ IsFiniteSet(Source) /\ Source # {}
  /\ Removable \subseteq Source /\ InitialPads \subseteq Source
  /\ \A p, q \in InitialPads : IndexOf[p] = IndexOf[q] => p = q
  /\ Policy \in {"legacy", "new"}
  /\ {MayStop, LiveSource, BlockWhenFull, Adaptive, RoundRobin} \subseteq BOOLEAN
  /\ {MaxFrames, BatchSize, QueueDepth, MaxSameLegacy, MaxSameNew, MaxPerBatch}
       \subseteq Nat \ {0}
  /\ Timeout \in Int /\ Timeout >= -1
  /\ MinGap \in Nat
  /\ Priority \in [Source -> Nat]

VARIABLES
  pads,         \* StreamMux.pads: the objects in the dictionary
  padOrder,     \* StreamMux._pad_order, as pairs
  queue,        \* SinkPad.queue
  ahead,        \* order of the deques, as pairs of frames
  earlier,      \* order of _Queued.recv_ns, as pairs of frames
  age,          \* clock - _Queued.recv_ns
  eosPending,   \* SinkPad.eos_pending
  eos,          \* SinkPad.eos
  pending,      \* StreamMux._pending_events
  eosSent,      \* StreamMux.eos_sent
  stopping,     \* StreamMux._stopping
  sinceBatch,   \* clock - _last_batch_ns, NoBatch before the first push
  rr,           \* <<_rr_priority_pos, _rr_source_pos>>
  pc,           \* where the decoder thread of a source is
  decoded,      \* frames the source has decoded
  target,       \* the SinkPad a waiting push_frame holds
  delivered,    \* frames handed to the consumer in batches
  released,     \* frames whose payload was closed
  told          \* kinds of event the consumer has seen for a pad

threads == <<pc, decoded, target>>
order == <<ahead, earlier, age>>
padState == <<pads, padOrder, eosPending, eos>>
vars == <<pads, padOrder, queue, ahead, earlier, age, eosPending, eos, pending,
          eosSent, stopping, sinceBatch, rr, pc, decoded, target, delivered,
          released, told>>

Frame == Source \X (1 .. MaxFrames)
NoBatch == -1
MaxAge == IF Timeout > MinGap THEN Timeout ELSE MinGap
Kind == {"pad-added", "stream-segment", "stream-eos", "pad-deleted"}

\* The strict total orders of S.
Orders(S) == {R \in SUBSET (S \X S) :
                \A x, y \in S : /\ x # y => (<<x, y>> \in R <=> <<y, x>> \notin R)
                                /\ <<x, x>> \notin R
                                /\ \A z \in S : <<x, y>> \in R /\ <<y, z>> \in R
                                                 => <<x, z>> \in R}

Init ==
  /\ pads = InitialPads /\ padOrder \in Orders(InitialPads)
  /\ queue = [p \in Source |-> {}]
  /\ ahead = {} /\ earlier = {} /\ age = [f \in Frame |-> 0]
  /\ eosPending = [p \in Source |-> FALSE] /\ eos = [p \in Source |-> FALSE]
  /\ pending = {"pad-added"} \X InitialPads /\ told = [p \in Source |-> {}]
  /\ eosSent = FALSE /\ stopping = FALSE
  /\ sinceBatch = NoBatch /\ rr = <<0, 0>>
  /\ pc = [s \in Source |-> IF s \in InitialPads THEN "idle" ELSE "new"]
  /\ decoded = [s \in Source |-> 0]
  /\ target = [s \in Source |-> s]
  /\ delivered = {} /\ released = {}

-----------------------------------------------------------------------------
(* Where frames are. *)

\* The frame a decoder thread holds inside push_frame, or after it raised.
Hand(s) == IF pc[s] \in {"calling", "blocked", "failed"}
           THEN {<<s, decoded[s]>>} ELSE {}
InHand == UNION {Hand(s) : s \in Source}
Queued == UNION {queue[p] : p \in pads}
Present == InHand \cup Queued
Calling == UNION {Hand(s) : s \in {t \in Source : pc[t] = "calling"}}
Timed == Queued \cup Calling
Decoded == {f \in Frame : f[2] <= decoded[f[1]]}

\* SinkPad.done: the pad cannot contribute any more frames.
Done(p) == eos[p] \/ (eosPending[p] /\ queue[p] = {})
Active == {p \in pads : ~Done(p)}

\* The pad object under an index: self.pads[pad_index].
Lookup(i) == {p \in pads : IndexOf[p] = i}

\* The first n elements of S in the order R.
First(S, R, n) == {x \in S : Cardinality({y \in S : <<y, x>> \in R}) < n}

\* The order R after x comes last among the elements of S.
Last(R, S, x) == {r \in R : x \notin {r[1], r[2]}} \cup ((S \ {x}) \X {x})

\* R without the elements of S.
Forget(R, S) == {r \in R : r[1] \notin S /\ r[2] \notin S}

\* Frames F are out of the mux: nothing orders or times them any more.
Leave(F) ==
  /\ ahead' = Forget(ahead, F)
  /\ earlier' = Forget(earlier, F)
  /\ age' = [f \in Frame |-> IF f \in F THEN 0 ELSE age[f]]

-----------------------------------------------------------------------------
(* Pads and lifecycle: add_pad, remove_pad, start, stop. *)

AddPad(s) ==
  /\ pc[s] = "new"
  /\ Lookup(IndexOf[s]) = {}
  /\ pads' = pads \cup {s}
  /\ padOrder' = Last(padOrder, pads, s)
  /\ eosSent' = FALSE
  /\ pending' = pending \cup {<<"pad-added", s>>}
  /\ pc' = [pc EXCEPT ![s] = "idle"]
  /\ UNCHANGED <<queue, order, eosPending, eos, stopping, sinceBatch, rr, decoded,
                 target, delivered, released, told>>

\* Fault: forgets to close the queued frames.
RemovePad_Leaks(s) ==
  /\ s \in pads \cap Removable
  /\ pads' = pads \ {s}
  /\ padOrder' = Forget(padOrder, {s})
  /\ Leave(queue[s])
  /\ pending' = pending \cup {<<"pad-deleted", s>>}
  /\ UNCHANGED <<queue, eosPending, eos, eosSent, stopping, sinceBatch, rr, threads,
                 delivered, released, told>>

\* The frames are closed but stay in the deque of the detached object.
RemovePad(s) ==
  /\ s \in pads \cap Removable
  /\ pads' = pads \ {s}
  /\ padOrder' = Forget(padOrder, {s})
  /\ released' = released \cup queue[s]
  /\ Leave(queue[s])
  /\ pending' = pending \cup {<<"pad-deleted", s>>}
  /\ UNCHANGED <<queue, eosPending, eos, eosSent, stopping, sinceBatch, rr, threads,
                 delivered, told>>

Stop ==
  /\ MayStop /\ ~stopping
  /\ stopping' = TRUE
  /\ UNCHANGED <<padState, queue, order, pending, eosSent, sinceBatch, rr, threads,
                 delivered, released, told>>

Start ==
  /\ stopping
  /\ stopping' = FALSE
  /\ UNCHANGED <<padState, queue, order, pending, eosSent, sinceBatch, rr, threads,
                 delivered, released, told>>

-----------------------------------------------------------------------------
(* push_frame and push_eos, called by the decoder thread of a source. *)

\* A frame is decoded and push_frame reads the clock, before it takes the lock.
Call(s) ==
  /\ pc[s] = "idle" /\ decoded[s] < MaxFrames
  /\ decoded' = [decoded EXCEPT ![s] = @ + 1]
  /\ earlier' = Last(earlier, Timed, <<s, decoded'[s]>>)
  /\ pc' = [pc EXCEPT ![s] = "calling"]
  /\ UNCHANGED <<padState, queue, ahead, age, pending, eosSent, stopping, sinceBatch,
                 rr, target, delivered, released, told>>

\* No pad has the index: push_frame raises KeyError with the frame still
\* the caller's, and ends the decoder thread.
Raise(s) ==
  /\ pc[s] = "calling" /\ Lookup(IndexOf[s]) = {}
  /\ pc' = [pc EXCEPT ![s] = "failed"]
  /\ Leave({<<s, decoded[s]>>})
  /\ UNCHANGED <<padState, queue, pending, eosSent, stopping, sinceBatch, rr, decoded,
                 target, delivered, released, told>>

\* push_frame returns False and closes the frame it was given.
Refuse(s) ==
  /\ released' = released \cup {<<s, decoded[s]>>}
  /\ Leave({<<s, decoded[s]>>})
  /\ pc' = [pc EXCEPT ![s] = "idle"]
  /\ UNCHANGED queue

\* push_frame appends its frame to the deque of p; out are the frames it drops.
Enqueue(s, p, out) ==
  LET f == <<s, decoded[s]>> IN
  /\ queue' = [queue EXCEPT ![p] = (@ \ out) \cup {f}]
  /\ ahead' = Last(Forget(ahead, out), queue[p] \ out, f)
  /\ released' = released \cup out
  /\ pc' = [pc EXCEPT ![s] = "idle"]

\* The first push starts the batch timer at its own clock reading; the first
\* accepted push of a pad announces the pad's segment.
Announce(s, p) ==
  /\ sinceBatch' = IF sinceBatch = NoBatch THEN age[<<s, decoded[s]>>] ELSE sinceBatch
  /\ pending' = IF "stream-segment" \in told[p] THEN pending
                ELSE pending \cup {<<"stream-segment", p>>}

Full(p) == Cardinality(queue[p]) >= QueueDepth

\* Fault: drops the newest frame.
Overflow_Newest(p) == {f \in queue[p] : \A g \in queue[p] : <<f, g>> \notin ahead}

\* drop-oldest: the frames that make room on a full pad.
Overflow(p) == First(queue[p], ahead, 1)

PushRefused(s) ==
  /\ pc[s] = "calling"
  /\ \E p \in Lookup(IndexOf[s]) : eosPending[p] \/ eos[p]
  /\ Refuse(s)
  /\ UNCHANGED <<padState, pending, eosSent, stopping, sinceBatch, rr, decoded, target,
                 delivered, told>>

Push(s) ==
  /\ pc[s] = "calling"
  /\ \E p \in Lookup(IndexOf[s]) :
       /\ ~eosPending[p] /\ ~eos[p]
       /\ Announce(s, p)
       /\ \/ /\ ~Full(p)
             /\ Enqueue(s, p, {})
             /\ UNCHANGED <<earlier, age, target>>
          \/ /\ Full(p) /\ ~BlockWhenFull
             /\ Enqueue(s, p, Overflow(p))
             /\ earlier' = Forget(earlier, Overflow(p))
             /\ age' = [f \in Frame |-> IF f \in Overflow(p) THEN 0 ELSE age[f]]
             /\ UNCHANGED target
          \/ /\ Full(p) /\ BlockWhenFull /\ ~stopping
             /\ pc' = [pc EXCEPT ![s] = "blocked"]
             /\ target' = [target EXCEPT ![s] = p]
             /\ Leave({<<s, decoded[s]>>})
             /\ UNCHANGED <<queue, released>>
          \/ /\ Full(p) /\ BlockWhenFull /\ stopping
             /\ Refuse(s)
             /\ UNCHANGED target
  /\ UNCHANGED <<padState, eosSent, stopping, rr, decoded, delivered, told>>

\* Fault: the wait only ends when the queue is below its depth by two.
Resume_LowWater(s) ==
  LET p == target[s] IN
  /\ pc[s] = "blocked"
  /\ Cardinality(queue[p]) + 1 < QueueDepth
  /\ Enqueue(s, p, {})
  /\ earlier' = Last(earlier, Timed, <<s, decoded[s]>>)
  /\ UNCHANGED <<age, padState, pending, eosSent, stopping, sinceBatch, rr, decoded,
                 target, delivered, told>>

\* The wait of a blocking push_frame ends: the frame gets a new clock reading
\* and is appended to the object found before the wait.
Resume(s) ==
  LET p == target[s] IN
  /\ pc[s] = "blocked"
  /\ \/ /\ stopping \/ Lookup(IndexOf[p]) = {}
        /\ Refuse(s)
     \/ /\ ~stopping /\ Lookup(IndexOf[p]) # {}
        /\ ~Full(p) \/ eosPending[p]
        /\ Enqueue(s, p, {})
        /\ earlier' = Last(earlier, Timed, <<s, decoded[s]>>)
        /\ UNCHANGED age
  /\ UNCHANGED <<padState, pending, eosSent, stopping, sinceBatch, rr, decoded, target,
                 delivered, told>>

\* End of stream, a decode error or the application's stop; the thread ends.
PushEos(s) ==
  /\ pc[s] = "idle"
  /\ pc' = [pc EXCEPT ![s] = "done"]
  /\ eosPending' = [p \in Source |-> eosPending[p]
                                       \/ (p \in Lookup(IndexOf[s]) /\ ~eos[p])]
  /\ UNCHANGED <<pads, padOrder, queue, order, eos, pending, eosSent, stopping,
                 sinceBatch, rr, decoded, target, delivered, released, told>>

-----------------------------------------------------------------------------
(* Batch formation: _form_legacy. *)

CapPerSource == MaxSameLegacy

\* live_source: the oldest frame of each source, in pad order; otherwise all
\* arrivals in clock order, up to CapPerSource of one source.
LegacyPicks ==
  IF LiveSource
  THEN LET heads == First({p \in Active : queue[p] # {}}, padOrder, BatchSize)
       IN UNION {First(queue[p], ahead, 1) : p \in heads}
  ELSE First(UNION {First(queue[p], earlier, CapPerSource) : p \in Active},
             earlier, BatchSize)

LegacyFull(picks) ==
  Cardinality(picks) >= IF LiveSource /\ Cardinality(Active) < BatchSize
                        THEN Cardinality(Active) ELSE BatchSize

\* The timeout runs from the oldest queued frame, but never from before the
\* previous push.
LegacyDue ==
  /\ Timeout # -1
  /\ sinceBatch >= Timeout
  /\ \E p \in Active : \E f \in First(queue[p], ahead, 1) : age[f] >= Timeout

-----------------------------------------------------------------------------
(* Batch formation: _form_new. *)

NewBatchSize == IF Adaptive THEN Cardinality(Active) ELSE BatchSize

AllowedRepeats ==
  LET slots == IF NewBatchSize > MaxPerBatch THEN NewBatchSize ELSE MaxPerBatch
  IN IF MaxSameNew < slots THEN MaxSameNew ELSE slots

Group(p) == {q \in pads : Priority[q] = Priority[p]}
Groups == {Priority[p] : p \in pads}
PriorityStart == IF RoundRobin THEN rr[1] % Cardinality(Groups) ELSE 0

\* Position in the scan of a pad's group, and of the pad in its group.
GroupTurn(p) ==
  (Cardinality({g \in Groups : g < Priority[p]}) - PriorityStart) % Cardinality(Groups)
SourceStart(p) ==
  IF RoundRobin /\ GroupTurn(p) = 0 THEN rr[2] % Cardinality(Group(p)) ELSE 0
SourceTurn(p) ==
  (Cardinality({q \in Group(p) : <<q, p>> \in padOrder}) - SourceStart(p))
    % Cardinality(Group(p))

ScanBefore(p, q) ==
  \/ GroupTurn(p) < GroupTurn(q)
  \/ GroupTurn(p) = GroupTurn(q) /\ SourceTurn(p) < SourceTurn(q)

\* What the scan may take from a pad, and what it does take: the slots that
\* the pads before it left.
Offer(p) == First(queue[p], ahead, AllowedRepeats)
OfferedBefore(p) == UNION {Offer(q) : q \in {r \in Active : ScanBefore(r, p)}}
\* Fault: every pad may fill the whole batch.
NewPicks_NoQuota == UNION {First(Offer(p), ahead, NewBatchSize) : p \in Active}

NewPicks ==
  UNION {First(Offer(p), ahead, NewBatchSize - Cardinality(OfferedBefore(p))) : p \in Active}
NewFull(picks) == Cardinality(picks) >= NewBatchSize
NewDue == Timeout > 0 /\ sinceBatch >= Timeout

\* max_fps_control: a ready batch waits for the minimum distance.
Throttled == MinGap > 0 /\ sinceBatch # NoBatch /\ sinceBatch < MinGap

\* Fault: the next scan begins with the last pad it took from.
Advance_Repeats(picks) ==
  IF Policy # "new" \/ picks = {} \/ ~NewFull(picks) THEN UNCHANGED rr
  ELSE \E last \in Active :
         /\ queue[last] \cap picks # {}
         /\ \A q \in Active : queue[q] \cap picks # {} => ~ScanBefore(last, q)
         /\ rr' = <<(PriorityStart + GroupTurn(last)) % Cardinality(Groups),
                    (SourceStart(last) + SourceTurn(last)) % Cardinality(Group(last))>>

\* A scan that fills the batch moves the position past the last pad it took
\* from, whether the batch is pushed or not.
Advance(picks) ==
  IF Policy # "new" \/ picks = {} \/ ~NewFull(picks) THEN UNCHANGED rr
  ELSE \E last \in Active :
         /\ queue[last] \cap picks # {}
         /\ \A q \in Active : queue[q] \cap picks # {} => ~ScanBefore(last, q)
         /\ rr' = <<(PriorityStart + GroupTurn(last)) % Cardinality(Groups),
                    (SourceStart(last) + SourceTurn(last) + 1) % Cardinality(Group(last))>>

-----------------------------------------------------------------------------
(* poll: events, then at most one batch, then the pads that are drained. *)

Picks == IF Policy = "legacy" THEN LegacyPicks ELSE NewPicks
Ready(picks) ==
  /\ picks # {}
  /\ IF Policy = "legacy" THEN LegacyFull(picks) \/ LegacyDue
     ELSE (NewFull(picks) \/ NewDue) /\ ~Throttled

\* _forward_eos: an EOS goes downstream once its pad is drained.
Drained(p, batch) == p \in pads /\ eosPending[p] /\ queue[p] \ batch = {}

\* Fault: the first pad at EOS ends them all.
AllEos_First(batch) == \E p \in pads : eos[p] \/ Drained(p, batch)

\* Every pad is at EOS.
AllEos(batch) == pads # {} /\ \A p \in pads : eos[p] \/ Drained(p, batch)

Flushed(p, batch) == {k \in Kind : <<k, p>> \in pending}
                       \cup (IF Drained(p, batch) THEN {"stream-eos"} ELSE {})

\* Fault: the picked frames stay in their deques.
Emit_KeepsFrames(batch) ==
  /\ UNCHANGED <<queue, order, eos, eosPending>>
  /\ delivered' = delivered \cup batch
  /\ told' = [p \in Source |-> told[p] \cup Flushed(p, batch)]
  /\ pending' = {}
  /\ eosSent' = (eosSent \/ AllEos(batch))
  /\ sinceBatch' = IF batch = {} THEN sinceBatch ELSE 0

\* poll emits the given batch ({} when there is none).
Emit(batch) ==
  /\ queue' = [p \in Source |-> IF p \in pads THEN queue[p] \ batch ELSE queue[p]]
  /\ delivered' = delivered \cup batch
  /\ Leave(batch)
  /\ eos' = [p \in Source |-> eos[p] \/ Drained(p, batch)]
  /\ eosPending' = [p \in Source |-> eosPending[p] /\ ~Drained(p, batch)]
  /\ told' = [p \in Source |-> told[p] \cup Flushed(p, batch)]
  /\ pending' = {}
  /\ eosSent' = (eosSent \/ AllEos(batch))
  /\ sinceBatch' = IF batch = {} THEN sinceBatch ELSE 0

Poll ==
  /\ Emit(IF Ready(Picks) THEN Picks ELSE {})
  /\ Advance(Picks)
  /\ UNCHANGED <<pads, padOrder, stopping, threads, released>>

\* The clock advances.
Tick ==
  /\ age' = [f \in Frame |->
               IF f \in Timed /\ age[f] < MaxAge THEN age[f] + 1 ELSE age[f]]
  /\ sinceBatch' = IF sinceBatch \in 0 .. MaxAge - 1 THEN sinceBatch + 1 ELSE sinceBatch
  /\ UNCHANGED <<padState, queue, ahead, earlier, pending, eosSent, stopping, rr,
                 threads, delivered, released, told>>

-----------------------------------------------------------------------------
Next ==
  \/ \E s \in Source :
       \/ AddPad(s) \/ RemovePad(s)
       \/ Call(s) \/ Raise(s) \/ PushRefused(s) \/ Push(s) \/ Resume(s) \/ PushEos(s)
  \/ Poll \/ Tick \/ Stop \/ Start

Spec == Init /\ [][Next]_vars

-----------------------------------------------------------------------------
(* Properties. *)

TypeOK ==
  /\ pads \subseteq Source /\ padOrder \subseteq Source \X Source
  /\ queue \in [Source -> SUBSET Frame]
  /\ ahead \subseteq Frame \X Frame /\ earlier \subseteq Frame \X Frame
  /\ age \in [Frame -> 0 .. MaxAge]
  /\ eosPending \in [Source -> BOOLEAN] /\ eos \in [Source -> BOOLEAN]
  /\ pending \subseteq Kind \X Source /\ told \in [Source -> SUBSET Kind]
  /\ eosSent \in BOOLEAN /\ stopping \in BOOLEAN
  /\ sinceBatch \in -1 .. MaxAge /\ rr \in Nat \X Nat
  /\ pc \in [Source -> {"new", "idle", "calling", "blocked", "failed", "done"}]
  /\ decoded \in [Source -> 0 .. MaxFrames]
  /\ target \in [Source -> Source]
  /\ delivered \subseteq Frame /\ released \subseteq Frame

\* The payload of a frame has one owner: the calling thread, one pad, the
\* consumer of the batch, or nobody once it is closed.  A second owner would
\* close or import its file descriptor twice.
OneOwner ==
  /\ \A p, q \in pads : p # q => queue[p] \cap queue[q] = {}
  /\ InHand \cap (Queued \cup delivered \cup released) = {}
  /\ Queued \cap (delivered \cup released) = {}
  /\ delivered \cap released = {}

\* Every decoded frame still has an owner or was closed: none is leaked.
NoFrameLost == Decoded \subseteq Present \cup delivered \cup released

\* Batching never lets a frame overtake an older one of the same source.
InOrder == \A f \in delivered, g \in Present : f[1] = g[1] => f[2] < g[2]

\* Overflow drops the oldest frames: whatever was dropped is older than all
\* that is queued for the same source.
FreshestKept == \A f \in released, g \in Queued : f[1] = g[1] => f[2] < g[2]

\* Once the consumer saw a source's stream-eos, no frame of it is on its way.
EosLast == \A s \in Source : "stream-eos" \in told[s] => \A f \in Present : f[1] # s

\* The pipeline EOS means that nothing is left in the mux or on its way to it.
EosComplete == eosSent => Decoded \subseteq delivered \cup released

NewlyDelivered == delivered' \ delivered

\* A batch of the new policy never exceeds its slots, and one that is pushed
\* with free slots took everything the scan offered.
SlotsUsed ==
  [][/\ Cardinality(NewlyDelivered) <= NewBatchSize
     /\ NewlyDelivered # {} /\ Cardinality(NewlyDelivered) < NewBatchSize
          => \A p \in Active : Offer(p) \subseteq NewlyDelivered]_vars

\* Round robin passes nobody over for ever: when a full batch has frames of one
\* source and none of another that offered some, the other one comes first in
\* the scan that follows, wherever pads that came and went left the position.
TakesTurns ==
  [][\A p, q \in Active :
       /\ Priority[p] = Priority[q]
       /\ queue[p] \cap NewlyDelivered # {}
       /\ Offer(q) # {} /\ queue[q] \cap NewlyDelivered = {}
       => ScanBefore(q, p)']_vars

\* A push_frame that waits for room returns.
BlockedReturns == \A s \in Source : pc[s] = "blocked" ~> pc[s] # "blocked"

=============================================================================
