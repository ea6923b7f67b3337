-------------------------- MODULE AMDStreamProofs ---------------------------
(* The streaming API keeps its states, sinks and decoders in step with its *)
(* worker threads, for all streams, retries, batch sizes and interleavings, *)
(* and its reports follow StreamReport.                                     *)
EXTENDS AMDStream, TLAPS

-----------------------------------------------------------------------------
(* The inductive invariant. *)

\* A worker is new until its start.
Started == \A w \in Worker : pc[w] = "new" <=> starts[w[1]] < w[2]

\* A batch that is not being emitted has room.
Batches == \A w \in Worker :
             pc[w] \notin {"emitting", "flushing"} => buffered[w] < BatchSize

\* A configured stream was never touched, and the manager starts no other.
Untouched == \A s \in Stream :
               /\ state[s] = "configured" => starts[s] = 0 /\ at[s] = "idle"
               /\ s \in toStart => state[s] = "configured"

\* While a stream is started nobody else sets its state.
Begun == \A s \in Prompt : at[s] = "starting" => state[s] = "starting"

\* Only the last worker of a stream is at work, and none while it is started.
Single == \A w \in Worker :
            Working(w) /\ w[1] \in Prompt => w[2] = starts[w[1]] /\ at[w[1]] # "starting"

\* stop_stream sets the event before it reads the active decoder.
Told == \A s \in Stream : at[s] \in {"aborting", "joining"} => stop[s]

\* A worker's decoder is the active one as long as it is open.
Published == \A w \in Worker :
               /\ pc[w] \in {"loop", "reading", "emitting", "flushing", "closing"}
               /\ w[1] \in Prompt \cap Abortable
               => active[w[1]] = w

\* What a worker said last belongs to the place it is at.
Saying == \A w \in Worker :
            /\ pc[w] = "new" => said[w] = "nothing"
            /\ pc[w] = "top" => said[w] \in {"nothing", "reconnecting"}
            /\ pc[w] = "connecting" => said[w] = "connecting"
            /\ pc[w] \in {"loop", "reading", "emitting", "flushing", "closing"}
                 => said[w] = "connected"
            /\ pc[w] = "down" => said[w] = "disconnected"
            /\ pc[w] = "backoff" => said[w] = "reconnecting"
            /\ pc[w] = "eof" => said[w] = "connected" /\ w[1] \notin Live
            /\ pc[w] = "failed" => /\ said[w] = "disconnected"
                                   /\ attempt[w] = MaxRetries \/ MaxRetries = 0

Control == Started /\ Untouched /\ Begun /\ Single /\ EndedStates /\ SinkOpen
Abortion == Told /\ Published /\ AbortHeard

IInv == TypeOK /\ Batches /\ Control /\ Abortion /\ Saying

-----------------------------------------------------------------------------
LEMMA WorkerParts ==
  \A w : w \in Worker <=> /\ w = <<w[1], w[2]>> /\ w[1] \in Stream
                          /\ w[2] \in Nat /\ 1 <= w[2] /\ w[2] <= MaxStarts[w[1]]
<1>1. \A s \in Stream : MaxStarts[s] \in Nat
  BY AMDStreamAssumption
<1> QED
  BY <1>1 DEF Worker

\* stop_stream has nothing to wait for: no worker of the stream is at work.
LEMMA NobodyLeft ==
  ASSUME TypeOK, Started, Single, NEW s \in Prompt, Joined(s),
         NEW w \in Worker, w[1] = s
  PROVE  ~Working(w)
<1>1. w = <<s, w[2]>> /\ w[2] \in Nat /\ 1 <= w[2] /\ starts[s] \in Nat
  BY WorkerParts DEF TypeOK, Prompt
<1> QED
  BY <1>1 DEF Started, Single, Joined, Working

\* The worker that a start makes.
LEMMA StartedWorker ==
  ASSUME TypeOK, NEW s \in Stream, Launch(s)
  PROVE  /\ <<s, starts[s] + 1>> \in Worker
         /\ starts' = [starts EXCEPT ![s] = starts[s] + 1]
         /\ pc' = [pc EXCEPT ![<<s, starts[s] + 1>>] = "top"]
<1>1. starts[s] \in Nat /\ starts'[s] = starts[s] + 1
  BY DEF TypeOK, Launch
<1>2. MaxStarts[s] \in Nat
  BY AMDStreamAssumption
<1>3. starts[s] < MaxStarts[s]
  BY DEF Launch
<1>4. <<s, starts[s] + 1>> \in Worker
  BY <1>1, <1>2, <1>3 DEF Worker
<1> QED
  BY <1>1, <1>4 DEF Launch

\* It is one that was not started before.
LEMMA NewWorker ==
  ASSUME TypeOK, Started, NEW s \in Stream, Launch(s)
  PROVE  \E v \in Worker : pc[v] = "new" /\ pc' = [pc EXCEPT ![v] = "top"]
<1> DEFINE v == <<s, starts[s] + 1>>
<1>1. v \in Worker /\ pc' = [pc EXCEPT ![v] = "top"]
  BY StartedWorker
<1>2. v[1] = s /\ v[2] = starts[s] + 1 /\ starts[s] \in Nat
  BY DEF TypeOK
<1>3. pc[v] = "new"
  BY <1>1, <1>2 DEF Started
<1> QED
  BY <1>1, <1>3

\* A stream has one worker at work.
LEMMA OnlyOne ==
  ASSUME Single, NEW u \in Worker, NEW w \in Worker, Working(u), Working(w),
         u[1] = w[1], u[1] \in Prompt
  PROVE  u = w
<1>1. u[2] = starts[u[1]] /\ w[2] = starts[u[1]]
  BY DEF Single
<1> QED
  BY <1>1, WorkerParts

LEMMA InitInv == Init => IInv
<1> SUFFICES ASSUME Init PROVE IInv
  OBVIOUS
<1>1. TypeOK
  BY AMDStreamAssumption DEF Init, TypeOK, Nobody
<1>2. Started
  BY WorkerParts DEF Init, Started
<1>3. Batches /\ Abortion /\ Saying
  BY AMDStreamAssumption, WorkerParts
  DEF Init, Batches, Abortion, Told, Published, AbortHeard, Saying
<1>4. Untouched /\ Begun /\ Single /\ EndedStates /\ SinkOpen
  BY WorkerParts DEF Init, Untouched, Begun, Prompt, Single, EndedStates, SinkOpen, Working
<1> QED
  BY <1>1, <1>2, <1>3, <1>4 DEF IInv, Control

\* Types are kept by every step.
LEMMA TypeStep == TypeOK /\ Batches /\ Started /\ [Next]_vars => TypeOK' /\ Batches'
<1> SUFFICES ASSUME TypeOK, Batches, Started, [Next]_vars PROVE TypeOK' /\ Batches'
  OBVIOUS
<1> USE AMDStreamAssumption DEF TypeOK, Batches
<1>1. CASE UNCHANGED vars
  BY <1>1 DEF vars
<1>2. CASE StartStreams \/ StopStreams
  BY <1>2 DEF StartStreams, StopStreams, cycle
<1>3. ASSUME NEW s \in Stream,
             \/ BeginStart(s) \/ FailStart(s) \/ EndStart(s)
             \/ BeginStop(s) \/ Join(s) \/ PassStop(s)
      PROVE  TypeOK' /\ Batches'
  <2>1. CASE BeginStart(s) \/ FailStart(s) \/ EndStart(s) \/ BeginStop(s) \/ PassStop(s)
    BY <2>1 DEF BeginStart, FailStart, EndStart, BeginStop, PassStop, cycle
  <2>2. CASE Join(s)
    <3>1. sink' \in [Stream -> BOOLEAN]
      BY <2>2 DEF Join, CloseRaises
    <3> QED
      BY <2>2, <3>1 DEF Join, application, cycle
  <2> QED
    BY <1>3, <2>1, <2>2
<1>4. ASSUME NEW s \in Stream, Launch(s) PROVE TypeOK' /\ Batches'
  <2> DEFINE v == <<s, starts[s] + 1>>
  <2>1. v \in Worker /\ pc' = [pc EXCEPT ![v] = "top"]
    BY <1>4, StartedWorker
  <2>2. starts[s] < starts[s] + 1 /\ v[1] = s /\ v[2] = starts[s] + 1
    OBVIOUS
  <2>3. pc[v] = "new"
    BY <2>1, <2>2 DEF Started
  <2>4. starts' \in [Stream -> Nat] /\ \A t \in Stream : starts'[t] <= MaxStarts[t]
    BY <1>4 DEF Launch
  <2> HIDE DEF v
  <2>5. TypeOK'
    BY <1>4, <2>1, <2>4 DEF Launch
  <2>6. buffered' = buffered
    BY <1>4 DEF Launch
  <2>7. ASSUME NEW u \in Worker, pc'[u] \notin {"emitting", "flushing"}
        PROVE  buffered'[u] < BatchSize
    BY <2>1, <2>3, <2>6, <2>7
  <2> QED
    BY <2>5, <2>7
<1>5. ASSUME NEW s \in Stream, Stopping(s) PROVE TypeOK' /\ Batches'
  <2>1. CASE Abort(s)
    BY <2>1 DEF Abort, cycle
  <2>2. CASE EndStop(s)
    <3>1. starts[s] > 0 => <<s, starts[s]>> \in Worker
      BY WorkerParts
    <3>2. late' \subseteq Worker
      BY <2>2, <3>1 DEF EndStop, Joined
    <3> QED
      BY <2>2, <3>2 DEF EndStop, CloseRaises, cycle
  <2> QED
    BY <1>5, <2>1, <2>2 DEF Stopping
<1>6. ASSUME NEW w \in Worker, Step(w) PROVE TypeOK' /\ Batches'
  <2>1. w[1] \in Stream /\ buffered[w] \in 0 .. BatchSize
    BY WorkerParts
  <2> USE <2>1 DEF application
  <2>2. CASE Top(w) \/ Open(w) \/ OpenFails(w) \/ Loop(w)
    BY <2>2 DEF Top, Open, OpenFails, Loop
  <2>3. CASE Read(w)
    <3>1. CASE pc[w] = "reading" /\ buffered' = [buffered EXCEPT ![w] = @ + 1]
      BY <2>3, <3>1 DEF Read
    <3>2. CASE UNCHANGED <<frames, buffered>>
      BY <2>3, <3>2 DEF Read
    <3> QED
      BY <2>3, <3>1, <3>2 DEF Read
  <2>4. CASE Break(w)
    BY <2>4 DEF Break
  <2>5. CASE Emit(w)
    <3>1. aborted' \in [Worker -> BOOLEAN] /\ stop' \in [Stream -> BOOLEAN]
      <4>1. CASE UNCHANGED <<stop, aborted>>
        BY <4>1
      <4>2. CASE /\ stop' = [stop EXCEPT ![w[1]] = TRUE]
                 /\ aborted' = [v \in Worker |-> aborted[v] \/ v = active[w[1]]]
        BY <4>2
      <4> QED
        BY <2>5, <4>1, <4>2 DEF Emit
    <3>2. pc[w] \in {"emitting", "flushing"} /\ buffered[w] > 0
      BY <2>5 DEF Emit
    <3>3. buffered' = [buffered EXCEPT ![w] = @ - 1]
      BY <2>5 DEF Emit
    <3>4. pc' = [pc EXCEPT ![w] = IF buffered[w] = 1 /\ pc[w] = "emitting" THEN "loop" ELSE pc[w]]
      BY <2>5 DEF Emit
    <3>5. UNCHANGED <<state, sink, active, frames, application, attempt, outcome, said>>
      BY <2>5 DEF Emit
    <3>6. TypeOK'
      BY <3>1, <3>2, <3>3, <3>4, <3>5
    <3>7. Batches'
      BY <3>2, <3>3, <3>4
    <3> QED
      BY <3>6, <3>7
  <2>6. CASE Flushed(w) \/ Backoff(w)
    BY <2>6 DEF Flushed, Backoff
  <2>7. CASE Disconnect(w)
    <3>1. active' \in [Stream -> Worker \cup {Nobody}] /\ outcome' \in [Worker -> {"none", "finished", "stopped", "error"}]
      BY <2>7 DEF Disconnect
    <3>2. /\ state' \in [Stream -> {"configured", "starting", "running", "stopped", "failed", "eof"}]
          /\ said' \in [Worker -> {"nothing", "connecting", "connected", "disconnected",
                          "reconnecting", "gave_up", "eof"}]
      BY <2>7 DEF Disconnect
    <3>3. buffered' = buffered /\ buffered[w] < BatchSize
      BY <2>7 DEF Disconnect
    <3>4. \E p \in {"eof", "down"} : pc' = [pc EXCEPT ![w] = p]
      BY <2>7 DEF Disconnect
    <3>5. aborted' = [aborted EXCEPT ![w] = FALSE]
      BY <2>7 DEF Disconnect
    <3>6. UNCHANGED <<stop, sink, frames, application, attempt, buffered>>
      BY <2>7 DEF Disconnect
    <3>7. TypeOK'
      BY <3>1, <3>2, <3>4, <3>5, <3>6
    <3> QED
      BY <3>7, <3>3, <3>4
  <2>8. CASE Down(w)
    BY <2>8 DEF Down, NextTry
  <2>9. CASE LastReport(w) \/ Leave(w)
    BY <2>9 DEF LastReport, Leave
  <2> QED
    BY <1>6, <2>2, <2>3, <2>4, <2>5, <2>6, <2>7, <2>8, <2>9 DEF Step
<1> QED
  BY <1>1, <1>2, <1>3, <1>4, <1>5, <1>6 DEF Next

-----------------------------------------------------------------------------
\* What a step of a worker may do to the state it shares.
LEMMA WorkerMove ==
  ASSUME TypeOK, NEW w \in Worker, Step(w)
  PROVE  /\ pc[w] \notin {"new", "ended"} /\ pc'[w] # "new"
         /\ Working(w)' => Working(w)
         /\ \A u \in Worker : u # w => pc'[u] = pc[u]
         /\ UNCHANGED <<sink, at, late, toStart, toStop, starts>>
         /\ \/ UNCHANGED state
            \/ /\ Working(w) /\ ~Working(w)'
               /\ \E x \in {"eof", "failed"} : state' = [state EXCEPT ![w[1]] = x]
<1> USE DEF TypeOK, Working, application
<1>1. CASE Top(w) \/ Open(w) \/ OpenFails(w) \/ Loop(w)
  BY <1>1 DEF Top, Open, OpenFails, Loop
<1>2. CASE Read(w)
  BY <1>2 DEF Read
<1>3. CASE Break(w) \/ Flushed(w) \/ Backoff(w)
  BY <1>3 DEF Break, Flushed, Backoff
<1>4. CASE Emit(w)
  BY <1>4 DEF Emit
<1>5. CASE Disconnect(w)
  BY <1>5 DEF Disconnect
<1>6. CASE Down(w)
  BY <1>6 DEF Down
<1>7. CASE LastReport(w) \/ Leave(w)
  BY <1>7 DEF LastReport, Leave
<1> QED
  BY <1>1, <1>2, <1>3, <1>4, <1>5, <1>6, <1>7 DEF Step

LEMMA WorkerControl ==
  ASSUME TypeOK, Control, NEW w \in Worker, Step(w)
  PROVE  Control'
<1>1. /\ pc[w] \notin {"new", "ended"} /\ pc'[w] # "new"
      /\ \A u \in Worker : u # w => pc'[u] = pc[u]
      /\ UNCHANGED <<sink, at, late, toStart, toStop, starts>>
  BY WorkerMove
<1>2. \/ UNCHANGED state
      \/ /\ Working(w) /\ ~Working(w)'
         /\ \E x \in {"eof", "failed"} : state' = [state EXCEPT ![w[1]] = x]
  BY WorkerMove
<1>3. Prompt' = Prompt /\ \A u \in Worker : Working(u)' => Working(u)
  BY <1>1, WorkerMove DEF Prompt, Working
<1>4. w[1] \in Stream /\ starts[w[1]] \in Nat /\ w[2] \in Nat /\ 1 <= w[2]
  BY WorkerParts DEF TypeOK
<1>5. Started'
  BY <1>1 DEF Control, Started
<1>6. Untouched'
  <2>1. starts[w[1]] # 0
    BY <1>1, <1>4 DEF Control, Started
  <2>2. w[1] \notin toStart
    BY <1>4, <2>1 DEF Control, Untouched
  <2> QED
    BY <1>1, <1>2, <2>1, <2>2 DEF Control, Untouched, TypeOK
<1>7. Begun'
  <2>1. w[1] \in Prompt /\ Working(w) => at[w[1]] # "starting"
    BY DEF Control, Single
  <2> QED
    BY <1>1, <1>2, <1>3, <2>1 DEF Control, Begun, TypeOK, Prompt
<1>8. Single'
  BY <1>1, <1>3 DEF Control, Single
<1>9. EndedStates'
  <2>1. CASE UNCHANGED state
    BY <1>3, <2>1 DEF Control, EndedStates
  <2>2. CASE Working(w) /\ ~Working(w)' /\ \E x \in {"eof", "failed"} : state' = [state EXCEPT ![w[1]] = x]
    <3> SUFFICES ASSUME NEW u \in Worker, Working(u)', u[1] \in Prompt
                 PROVE  state'[u[1]] \in {"starting", "running"}
      BY <1>3 DEF EndedStates
    <3>1. u # w /\ Working(u)
      BY <1>3, <2>2
    <3>2. u[1] # w[1]
      BY <1>3, <2>2, <3>1, OnlyOne DEF Control
    <3> QED
      BY <2>2, <3>1, <3>2, WorkerParts DEF Control, EndedStates, TypeOK
  <2> QED
    BY <1>2, <2>1, <2>2
<1>10. SinkOpen'
  BY <1>1, <1>3 DEF Control, SinkOpen
<1> QED
  BY <1>5, <1>6, <1>7, <1>8, <1>9, <1>10 DEF Control

\* No worker is left at a stream whose state stop_streams passes over, or
\* which was not started yet.
LEMMA NobodyThere ==
  ASSUME TypeOK, Control, NEW s \in Prompt,
         state[s] \in {"configured", "stopped", "failed", "eof"},
         NEW w \in Worker, w[1] = s
  PROVE  ~Working(w)
BY DEF Control, EndedStates

LEMMA StartControl ==
  ASSUME TypeOK, Control, NEW s \in Stream,
         BeginStart(s) \/ FailStart(s) \/ EndStart(s)
  PROVE  Control'
<1> USE DEF TypeOK, cycle
<1>1. UNCHANGED <<pc, starts, late>>
  BY DEF BeginStart, FailStart, EndStart
<1>2. Prompt' = Prompt /\ \A u \in Worker : Working(u)' = Working(u)
  BY <1>1 DEF Prompt, Working
<1>3. Started'
  BY <1>1 DEF Control, Started
<1>4. \A w \in Worker : sink[w[1]] => sink'[w[1]]
  BY WorkerParts DEF BeginStart, FailStart, EndStart
<1>5. SinkOpen'
  BY <1>2, <1>4 DEF Control, SinkOpen
<1>6. CASE BeginStart(s)
  <2>1. state[s] \in {"configured", "stopped", "failed", "eof"}
    BY <1>6 DEF BeginStart, FirstOf, Control, Untouched
  <2>2. Untouched'
    BY <1>6 DEF BeginStart, Idle, Control, Untouched
  <2>3. Begun' /\ EndedStates'
    BY <1>2, <1>6, WorkerParts DEF BeginStart, Control, Begun, EndedStates, Prompt
  <2>4. Single'
    BY <1>1, <1>2, <1>6, <2>1, NobodyThere, WorkerParts DEF BeginStart, Control, Single
  <2> QED
    BY <1>3, <1>5, <2>2, <2>3, <2>4 DEF Control
<1>7. CASE FailStart(s)
  <2>1. \A w \in Worker : w[1] = s /\ s \in Prompt => ~Working(w)
    BY <1>7 DEF FailStart, Control, Single
  <2>2. Untouched'
    BY <1>7 DEF FailStart, Control, Untouched
  <2>3. Begun' /\ EndedStates'
    BY <1>2, <1>7, <2>1, WorkerParts DEF FailStart, Control, Begun, EndedStates, Prompt
  <2>4. Single'
    BY <1>1, <1>2, <1>7, WorkerParts DEF FailStart, Control, Single
  <2> QED
    BY <1>3, <1>5, <2>2, <2>3, <2>4 DEF Control
<1>8. CASE EndStart(s)
  <2>1. Untouched'
    BY <1>8 DEF EndStart, Control, Untouched
  <2>2. Begun' /\ EndedStates'
    BY <1>2, <1>8, WorkerParts DEF EndStart, Control, Begun, EndedStates, Prompt
  <2>3. Single'
    BY <1>1, <1>2, <1>8, WorkerParts DEF EndStart, Control, Single
  <2> QED
    BY <1>3, <1>5, <2>1, <2>2, <2>3 DEF Control
<1> QED
  BY <1>6, <1>7, <1>8

LEMMA LaunchControl ==
  ASSUME TypeOK, Control, NEW s \in Stream, Launch(s)
  PROVE  Control'
<1> DEFINE v == <<s, starts[s] + 1>>
<1>1. /\ v \in Worker /\ v[1] = s /\ v[2] = starts[s] + 1
      /\ starts' = [starts EXCEPT ![s] = starts[s] + 1]
      /\ pc' = [pc EXCEPT ![v] = "top"]
  BY StartedWorker
<1> HIDE DEF v
<1>2. /\ at[s] = "starting" /\ at' = [at EXCEPT ![s] = "launched"]
      /\ sink' = [sink EXCEPT ![s] = TRUE]
      /\ UNCHANGED <<state, late, toStart>>
  BY DEF Launch
<1>3. Prompt' = Prompt
  BY <1>2 DEF Prompt
<1>4. \A u \in Worker : u # v => pc'[u] = pc[u] /\ (Working(u)' <=> Working(u))
  BY <1>1 DEF Working, TypeOK
<1>5. Started'
  <2> SUFFICES ASSUME NEW u \in Worker
               PROVE  pc'[u] = "new" <=> starts'[u[1]] < u[2]
    BY DEF Started
  <2>1. u = <<u[1], u[2]>> /\ u[1] \in Stream /\ u[2] \in Nat
    BY WorkerParts
  <2>2. starts[s] \in Nat
    BY DEF TypeOK
  <2>3. CASE u = v
    BY <1>1, <2>1, <2>2, <2>3 DEF TypeOK
  <2>4. CASE u # v /\ u[1] = s
    <3>1. u[2] # starts[s] + 1
      BY <2>1, <2>4 DEF v
    <3>2. pc[u] = "new" <=> starts[s] < u[2]
      BY <2>4 DEF Control, Started
    <3>3. starts'[s] = starts[s] + 1
      BY <1>1 DEF TypeOK
    <3> QED
      BY <1>4, <2>1, <2>2, <2>4, <3>1, <3>2, <3>3
  <2>5. CASE u[1] # s
    BY <1>1, <1>4, <2>1, <2>5 DEF Control, Started, TypeOK
  <2> QED
    BY <2>3, <2>4, <2>5
<1>6. Untouched'
  BY <1>1, <1>2 DEF Control, Untouched, TypeOK
<1>7. Begun'
  BY <1>2, <1>3 DEF Control, Begun, TypeOK, Prompt
<1>8. ASSUME NEW u \in Worker, u[1] = s, s \in Prompt PROVE ~Working(u)
  BY <1>2, <1>8 DEF Control, Single
<1>9. Single'
  <2> SUFFICES ASSUME NEW u \in Worker, Working(u)', u[1] \in Prompt
               PROVE  u[2] = starts'[u[1]] /\ at'[u[1]] # "starting"
    BY <1>3 DEF Single
  <2>1. CASE u = v
    BY <1>1, <1>2, <2>1 DEF TypeOK
  <2>2. CASE u # v
    BY <1>1, <1>2, <1>4, <1>8, <2>2, WorkerParts DEF Control, Single, TypeOK
  <2> QED
    BY <2>1, <2>2
<1>10. EndedStates' /\ SinkOpen'
  <2> SUFFICES ASSUME NEW u \in Worker, Working(u)', u[1] \in Prompt
               PROVE  state[u[1]] \in {"starting", "running"} /\ sink'[u[1]]
    BY <1>2, <1>3 DEF EndedStates, SinkOpen
  <2>1. CASE u = v
    BY <1>1, <1>2, <2>1 DEF Control, Begun, TypeOK
  <2>2. CASE u # v
    BY <1>2, <1>4, <1>8, <2>2, WorkerParts DEF Control, EndedStates, SinkOpen, TypeOK
  <2> QED
    BY <2>1, <2>2
<1> QED
  BY <1>5, <1>6, <1>7, <1>9, <1>10 DEF Control

LEMMA StopControl ==
  ASSUME TypeOK, Control, NEW s \in Stream,
         BeginStop(s) \/ Abort(s) \/ EndStop(s) \/ Join(s) \/ PassStop(s)
  PROVE  Control'
<1> USE DEF TypeOK, cycle, application
<1>1. UNCHANGED <<pc, starts, toStart>>
  BY DEF BeginStop, Abort, EndStop, Join, PassStop
<1>2. /\ at' \in [Stream -> {"idle", "starting", "launched", "aborting", "joining"}]
      /\ \A t \in Stream : at'[t] = "starting" => at[t] = "starting"
  BY DEF BeginStop, Abort, EndStop, Join, PassStop
<1>3. Prompt' \subseteq Prompt /\ \A u \in Worker : Working(u)' <=> Working(u)
  BY <1>1 DEF Prompt, Working, BeginStop, Abort, EndStop, Join, PassStop
<1>4. Started'
  BY <1>1 DEF Control, Started
<1>5. Untouched'
  BY <1>1 DEF Control, Untouched, BeginStop, Abort, EndStop, Join, PassStop, Idle
<1>6. Single'
  BY <1>1, <1>2, <1>3, WorkerParts DEF Control, Single
<1>7. CASE BeginStop(s) \/ Abort(s) \/ PassStop(s)
  <2>1. UNCHANGED <<state, sink>>
    BY <1>7 DEF BeginStop, Abort, PassStop
  <2> QED
    BY <1>2, <1>3, <1>4, <1>5, <1>6, <2>1 DEF Control, Begun, EndedStates, SinkOpen, Prompt
<1>8. CASE EndStop(s) \/ Join(s)
  <2>1. s \in Prompt' => Joined(s)
    <3>1. starts[s] > 0 => <<s, starts[s]>>[1] = s
      OBVIOUS
    <3> QED
      BY <1>8, <3>1 DEF EndStop, Join, Prompt, Joined
  <2>2. ASSUME s \in Prompt', NEW u \in Worker, u[1] = s PROVE ~Working(u)
    BY <1>3, <2>1, <2>2, NobodyLeft DEF Control
  <2>3. \A t \in Stream \ {s} : state'[t] = state[t] /\ sink'[t] = sink[t]
    BY <1>8 DEF EndStop, Join, CloseRaises
  <2>4. EndedStates' /\ SinkOpen'
    BY <1>3, <2>2, <2>3, WorkerParts DEF Control, EndedStates, SinkOpen
  <2>5. at'[s] # "starting"
    BY <1>8 DEF EndStop, Join, Idle, Ready
  <2>6. Begun'
    BY <1>2, <1>3, <2>3, <2>5 DEF Control, Begun, Prompt
  <2> QED
    BY <1>4, <1>5, <1>6, <2>4, <2>6 DEF Control
<1> QED
  BY <1>7, <1>8

LEMMA ControlStep == TypeOK /\ Control /\ [Next]_vars => Control'
<1> SUFFICES ASSUME TypeOK, Control, [Next]_vars PROVE Control'
  OBVIOUS
<1>1. CASE UNCHANGED vars
  BY <1>1 DEF vars, Control, Started, Untouched, Begun, Single, EndedStates, SinkOpen,
              Working, Prompt
<1>2. CASE StartStreams \/ StopStreams
  BY <1>2 DEF StartStreams, StopStreams, Idle, cycle, Control, Started, Untouched, Begun,
              Single, EndedStates, SinkOpen, Working, Prompt
<1> QED
  BY <1>1, <1>2, StartControl, LaunchControl, StopControl, WorkerControl DEF Next, Stopping

-----------------------------------------------------------------------------
\* A read that began before the stop event was set has its decoder published,
\* and none begins after.
LEMMA WorkerAbortion ==
  ASSUME TypeOK, Control, Abortion, NEW w \in Worker, Step(w)
  PROVE  Abortion'
<1> USE DEF TypeOK, application
<1> DEFINE Opened(u) == pc[u] \in {"loop", "reading", "emitting", "flushing", "closing"}
<1>1. /\ \A u \in Worker : u # w => pc'[u] = pc[u]
      /\ UNCHANGED <<at, late>> /\ Prompt' = Prompt
  BY WorkerMove DEF Prompt
<1>2. w[1] \in Stream
  BY WorkerParts
<1>3. \A t \in Stream : stop[t] => stop'[t]
  <2>1. CASE Emit(w)
    BY <1>2, <2>1 DEF Emit
  <2>2. CASE ~Emit(w)
    BY <2>2 DEF Step, Top, Open, OpenFails, Loop, Read, Break, Flushed, Disconnect, Down, Backoff, LastReport,
                Leave
  <2> QED
    BY <2>1, <2>2
<1>4. Told'
  BY <1>1, <1>3 DEF Abortion, Told
<1>5. Working(w) =>
        \A u \in Worker : u # w /\ Opened(u) /\ u[1] \in Prompt => u[1] # w[1]
  BY OnlyOne DEF Control, Working
<1>6. Published'
  <2>1. CASE Open(w)
    BY <1>1, <1>2, <1>5, <2>1, WorkerParts DEF Open, Working, Abortion, Published
  <2>2. CASE Disconnect(w)
    BY <1>1, <1>2, <1>5, <2>2, WorkerParts DEF Disconnect, Working, Abortion, Published
  <2>3. CASE ~Open(w) /\ ~Disconnect(w)
    <3>1. active' = active
      BY <2>3 DEF Step, Top, OpenFails, Loop, Read, Break, Emit, Flushed, Down, Backoff,
                  LastReport, Leave
    <3>2. Opened(w)' => Opened(w)
      BY <2>3 DEF Step, Top, OpenFails, Loop, Read, Break, Emit, Flushed, Down, Backoff,
                  LastReport, Leave
    <3> QED
      BY <1>1, <3>1, <3>2 DEF Abortion, Published
  <2> QED
    BY <2>1, <2>2, <2>3
<1>7. AbortHeard'
  <2>1. \A u \in Worker : u # w /\ aborted[u] => aborted'[u]
    <3>1. CASE Emit(w)
      BY <3>1 DEF Emit
    <3>2. CASE ~Emit(w)
      BY <3>2 DEF Step, Top, Open, OpenFails, Loop, Read, Break, Flushed, Disconnect, Down,
                  Backoff, LastReport, Leave
    <3> QED
      BY <3>1, <3>2
  <2>2. pc'[w] = "reading" => ~stop[w[1]]
    BY DEF Step, Top, Open, OpenFails, Loop, Read, Break, Emit, Flushed, Disconnect, Down,
           Backoff, LastReport, Leave
  <2> QED
    BY <1>1, <1>2, <2>1, <2>2 DEF Abortion, Told, AbortHeard
<1> QED
  BY <1>4, <1>6, <1>7 DEF Abortion

LEMMA AbortionStep == TypeOK /\ Control /\ Abortion /\ [Next]_vars => Abortion'
<1> SUFFICES ASSUME TypeOK, Control, Abortion, [Next]_vars PROVE Abortion'
  OBVIOUS
<1> USE DEF TypeOK
<1>1. CASE UNCHANGED vars
  BY <1>1 DEF vars, Abortion, Told, Published, AbortHeard, Prompt
<1>2. CASE StartStreams \/ StopStreams
  BY <1>2 DEF StartStreams, StopStreams, cycle, Abortion, Told, Published, AbortHeard, Prompt
<1>3. ASSUME NEW s \in Stream,
             \/ BeginStart(s) \/ FailStart(s) \/ EndStart(s) \/ BeginStop(s)
             \/ EndStop(s) \/ Join(s) \/ PassStop(s)
      PROVE  Abortion'
  <2>1. UNCHANGED <<active, pc, aborted>>
    BY <1>3 DEF BeginStart, FailStart, EndStart, BeginStop, EndStop, Join, PassStop, cycle
  <2>2. Prompt' \subseteq Prompt
    BY <1>3 DEF BeginStart, FailStart, EndStart, BeginStop, EndStop, Join, PassStop,
                application, Prompt
  <2>3. \A t \in Stream :
          /\ at'[t] = "joining" => at[t] = "joining"
          /\ stop[t] => stop'[t]
          /\ at'[t] = "aborting" => at[t] = "aborting" \/ stop'[t]
    BY <1>3 DEF BeginStart, FailStart, EndStart, BeginStop, EndStop, Join, PassStop, application
  <2> QED
    BY <2>1, <2>2, <2>3, WorkerParts DEF Abortion, Told, Published, AbortHeard
<1>4. ASSUME NEW s \in Stream, Launch(s) PROVE Abortion'
  <2>1. PICK v \in Worker : pc' = [pc EXCEPT ![v] = "top"]
    BY <1>4, StartedWorker
  <2>2. UNCHANGED <<active, aborted>> /\ Prompt' = Prompt
    BY <1>4 DEF Launch, Prompt
  <2>3. /\ at' = [at EXCEPT ![s] = "launched"] /\ stop' = [stop EXCEPT ![s] = FALSE]
    BY <1>4 DEF Launch
  <2> QED
    BY <2>1, <2>2, <2>3, WorkerParts DEF Abortion, Told, Published, AbortHeard
<1>5. ASSUME NEW s \in Stream, Abort(s) PROVE Abortion'
  <2>1. UNCHANGED <<active, pc, stop>> /\ Prompt' = Prompt
    BY <1>5 DEF Abort, Prompt, cycle
  <2>2. /\ at[s] = "aborting" /\ at' = [at EXCEPT ![s] = "joining"]
        /\ aborted' = [u \in Worker |-> aborted[u] \/ u = active[s]]
    BY <1>5 DEF Abort
  <2>3. Told' /\ Published'
    BY <2>1, <2>2 DEF Abortion, Told, Published
  <2>4. ASSUME NEW u \in Worker, at'[u[1]] = "joining", u[1] \in Prompt \cap Abortable,
               pc[u] = "reading"
        PROVE  aborted'[u]
    <3>1. aborted[u] => aborted'[u]
      BY <2>2
    <3>2. active[u[1]] = u
      BY <2>4 DEF Abortion, Published
    <3>3. u[1] = s => aborted'[u]
      BY <2>2, <3>2
    <3>4. u[1] # s => aborted[u]
      BY <2>2, <2>4, WorkerParts DEF Abortion, AbortHeard
    <3> QED
      BY <3>1, <3>3, <3>4
  <2> QED
    BY <2>1, <2>3, <2>4 DEF Abortion, AbortHeard
<1> QED
  BY <1>1, <1>2, <1>3, <1>4, <1>5, WorkerAbortion DEF Next, Stopping

-----------------------------------------------------------------------------
LEMMA SayingStep == TypeOK /\ Started /\ Saying /\ [Next]_vars => Saying'
<1> SUFFICES ASSUME TypeOK, Started, Saying, [Next]_vars PROVE Saying'
  OBVIOUS
<1> USE DEF TypeOK
<1>1. CASE UNCHANGED vars
  BY <1>1 DEF vars, Saying
<1>2. CASE StartStreams \/ StopStreams
  BY <1>2 DEF StartStreams, StopStreams, cycle, Saying
<1>3. ASSUME NEW s \in Stream,
             \/ BeginStart(s) \/ FailStart(s) \/ EndStart(s) \/ BeginStop(s)
             \/ Stopping(s) \/ Join(s) \/ PassStop(s)
      PROVE  Saying'
  <2>1. UNCHANGED <<pc, said, attempt>>
    BY <1>3 DEF BeginStart, FailStart, EndStart, BeginStop, Stopping, Abort, EndStop, Join,
                PassStop, cycle
  <2> QED
    BY <2>1 DEF Saying
<1>4. ASSUME NEW s \in Stream, Launch(s) PROVE Saying'
  <2>1. PICK v \in Worker : pc' = [pc EXCEPT ![v] = "top"] /\ pc[v] = "new"
    BY <1>4, NewWorker
  <2>2. UNCHANGED <<said, attempt>>
    BY <1>4 DEF Launch
  <2> QED
    BY <2>1, <2>2 DEF Saying
<1>5. ASSUME NEW w \in Worker, Step(w) PROVE Saying'
  <2>1. CASE Top(w) \/ Open(w) \/ OpenFails(w) \/ Backoff(w)
    BY <2>1 DEF Top, Open, OpenFails, Backoff, Saying
  <2>2. CASE Loop(w) \/ Read(w) \/ Break(w) \/ Emit(w) \/ Flushed(w)
    BY <2>2 DEF Loop, Read, Break, Emit, Flushed, Saying
  <2>3. CASE Disconnect(w)
    BY <2>3 DEF Disconnect, Saying
  <2>4. CASE Down(w)
    <3>1. w \in Worker /\ attempt[w] \in 0 .. MaxRetries /\ MaxRetries \in Nat
      BY AMDStreamAssumption
    <3>2. pc'[w] = "failed" => attempt'[w] = MaxRetries \/ MaxRetries = 0
      BY <2>4, <3>1 DEF Down, NextTry
    <3> QED
      BY <2>4, <3>2 DEF Down, Saying
  <2>5. CASE LastReport(w) \/ Leave(w)
    BY <2>5 DEF LastReport, Leave, Saying
  <2> QED
    BY <1>5, <2>1, <2>2, <2>3, <2>4, <2>5 DEF Step
<1> QED
  BY <1>1, <1>2, <1>3, <1>4, <1>5 DEF Next

-----------------------------------------------------------------------------
(* The reports. *)

Over == [w \in Worker |-> pc[w] \in {"leaving", "ended"}]

\* Every step of a worker says what StreamReport allows, or nothing.
LEMMA WorkerReport ==
  ASSUME TypeOK, Saying, NEW w \in Worker, Step(w)
  PROVE  [Report!Next]_(Report!vars)
<1> USE DEF TypeOK, application
<1> SUFFICES ASSUME ~(UNCHANGED <<said, attempt, Over>>)
             PROVE  Report!Next
  BY DEF Report!vars, Over
<1> DEFINE over == pc'[w] \in {"leaving", "ended"}
<1>0. CASE Leave(w)
  <2>1. UNCHANGED <<said, attempt>> /\ pc[w] = "leaving" /\ pc' = [pc EXCEPT ![w] = "ended"]
    BY <1>0 DEF Leave
  <2>2. Over' = Over
    BY <2>1 DEF Over
  <2> QED
    BY <2>1, <2>2
<1> SUFFICES ASSUME ~Leave(w) PROVE Report!Next
  BY <1>0
<1>1. ~Over[w]
  BY DEF Over, Step, Top, Open, OpenFails, Loop, Read, Break, Emit, Flushed, Disconnect, Down,
         Backoff, LastReport
<1>2. /\ pc' \in [Worker -> {"new", "top", "connecting", "loop", "reading", "emitting",
                             "flushing", "closing", "down", "backoff", "eof", "failed",
                             "leaving", "ended"}]
      /\ pc' = [pc EXCEPT ![w] = pc'[w]]
  <2>1. CASE Top(w) \/ Open(w) \/ OpenFails(w) \/ Loop(w) \/ Read(w) \/ Break(w)
    BY <2>1 DEF Top, Open, OpenFails, Loop, Read, Break
  <2>2. CASE Emit(w) \/ Flushed(w) \/ Disconnect(w)
    BY <2>2 DEF Emit, Flushed, Disconnect
  <2>3. CASE Down(w) \/ Backoff(w) \/ LastReport(w)
    BY <2>3 DEF Down, Backoff, LastReport
  <2> QED
    BY <2>1, <2>2, <2>3 DEF Step
<1>3. Over' = [Over EXCEPT ![w] = over]
  BY <1>2 DEF Over
<1>4. ~over => Over' = Over
  <2>1. ~over => \A u \in Worker :
                   (pc'[u] \in {"leaving", "ended"}) = (pc[u] \in {"leaving", "ended"})
    <3> SUFFICES ASSUME ~over, NEW u \in Worker
                 PROVE  (pc'[u] \in {"leaving", "ended"}) = (pc[u] \in {"leaving", "ended"})
      OBVIOUS
    <3>1. CASE u = w
      <4>1. pc[w] \notin {"leaving", "ended"}
        BY <1>1 DEF Over
      <4> QED
        BY <3>1, <4>1
    <3>2. CASE u # w
      BY <1>2, <3>2
    <3> QED
      BY <3>1, <3>2
  <2> QED
    BY <2>1 DEF Over
<1>5. over => Over' = [Over EXCEPT ![w] = TRUE]
  BY <1>3
<1> HIDE DEF TypeOK
<1>6. CASE over /\ UNCHANGED <<said, attempt>>
  BY <1>1, <1>5, <1>6 DEF Report!Next, Report!Silence, Over
<1>7. CASE Top(w) /\ ~over
  <2>1. /\ said' = [said EXCEPT ![w] = "connecting"] /\ UNCHANGED attempt
        /\ said[w] \in {"nothing", "reconnecting"}
    BY <1>7 DEF Top, Saying, TypeOK
  <2> QED
    BY <1>1, <1>4, <1>7, <2>1 DEF Report!Next, Report!Attempt, Report!Say, Over
<1>8. CASE Open(w)
  <2>1. /\ said' = [said EXCEPT ![w] = "connected"] /\ UNCHANGED attempt
        /\ said[w] = "connecting" /\ ~over
    BY <1>8 DEF Open, Saying, TypeOK
  <2> QED
    BY <1>1, <1>4, <2>1 DEF Report!Next, Report!Up, Report!Say, Over
<1>9. CASE OpenFails(w) \/ (Disconnect(w) /\ pc'[w] # "eof")
  <2>1. /\ said' = [said EXCEPT ![w] = "disconnected"] /\ UNCHANGED attempt
        /\ said[w] \in {"connecting", "connected"} /\ ~over
    BY <1>9 DEF OpenFails, Disconnect, Saying, TypeOK
  <2> QED
    BY <1>1, <1>4, <2>1 DEF Report!Next, Report!Down, Report!Say, Over
<1>10. CASE LastReport(w) /\ pc[w] = "eof"
  <2>1. /\ said' = [said EXCEPT ![w] = "eof"] /\ UNCHANGED attempt /\ over
        /\ said[w] = "connected" /\ w \in {u \in Worker : u[1] \notin Live}
    BY <1>10 DEF LastReport, Saying, TypeOK
  <2> QED
    BY <1>1, <1>5, <2>1 DEF Report!Next, Report!Eof, Report!Say, Over
<1>14. CASE LastReport(w) /\ pc[w] = "failed"
  <2>1. /\ said' = [said EXCEPT ![w] = "gave_up"] /\ UNCHANGED attempt
        /\ pc' = [pc EXCEPT ![w] = "leaving"]
    BY <1>14 DEF LastReport
  <2>2. said[w] = "disconnected" /\ (attempt[w] = MaxRetries \/ MaxRetries = 0)
    <3>1. pc[w] = "failed" => /\ said[w] = "disconnected"
                              /\ attempt[w] = MaxRetries \/ MaxRetries = 0
      BY Zenon DEF Saying
    <3> QED
      BY <1>14, <3>1
  <2>3. over
    BY <2>1 DEF TypeOK
  <2> QED
    BY <1>1, <1>5, <2>1, <2>2, <2>3 DEF Report!Next, Report!GiveUp, Report!Say, Over
<1>11. CASE Down(w) /\ pc'[w] = "backoff"
  <2>1. said[w] = "disconnected" /\ attempt[w] \in 0 .. MaxRetries /\ MaxRetries \in Nat
    BY <1>11, AMDStreamAssumption DEF Down, Saying, TypeOK
  <2>2. ~stop[w[1]]
    BY <1>11 DEF Down, TypeOK
  <2>3. PICK try \in NextTry(w) :
          IF try > MaxRetries
          THEN pc' = [pc EXCEPT ![w] = "failed"]
          ELSE /\ attempt' = [attempt EXCEPT ![w] = try]
               /\ said' = [said EXCEPT ![w] = "reconnecting"]
    BY <1>11, <2>2 DEF Down
  <2>4. try \in {attempt[w] + 1, 1} /\ ~(try > MaxRetries)
    BY <1>11, <2>3 DEF NextTry, TypeOK
  <2>5. ~over /\ said' = [said EXCEPT ![w] = "reconnecting"]
        /\ attempt' = [attempt EXCEPT ![w] = try]
    BY <1>11, <2>3, <2>4
  <2>6. attempt'[w] = try /\ try <= MaxRetries
    BY <2>1, <2>4, <2>5 DEF TypeOK
  <2>7. \/ attempt' = [attempt EXCEPT ![w] = attempt[w] + 1]
        \/ attempt' = [attempt EXCEPT ![w] = 1]
    BY <2>4, <2>5
  <2> QED
    BY <1>1, <1>4, <2>1, <2>5, <2>6, <2>7 DEF Report!Next, Report!Retry, Report!Say, Over
<1>12. CASE \/ Loop(w) \/ Read(w) \/ Break(w) \/ Emit(w) \/ Flushed(w)
            \/ (Backoff(w) /\ ~stop[w[1]])
            \/ (Disconnect(w) /\ pc'[w] = "eof")
            \/ (Down(w) /\ pc'[w] = "failed")
  <2>1. ~over /\ UNCHANGED <<said, attempt>>
    BY <1>12 DEF Loop, Read, Break, Emit, Flushed, Backoff, Disconnect, Down, TypeOK
  <2> QED
    BY <1>4, <2>1
<1>13. CASE \/ Top(w) /\ over
            \/ Backoff(w) /\ stop[w[1]]
            \/ Down(w) /\ pc'[w] = "leaving"
  <2>1. over /\ UNCHANGED <<said, attempt>>
    BY <1>13 DEF Top, Backoff, Down, TypeOK
  <2> QED
    BY <1>6, <2>1
<1>15. Down(w) => pc'[w] \in {"backoff", "failed", "leaving"}
  BY DEF Down, TypeOK
<1>16. LastReport(w) => pc[w] \in {"eof", "failed"}
  BY DEF LastReport
<1> QED
  BY <1>7, <1>8, <1>9, <1>10, <1>11, <1>12, <1>13, <1>14, <1>15, <1>16 DEF Step

\* The application and the manager say nothing, and end no worker.
LEMMA ReportStep ==
  TypeOK /\ Started /\ Saying /\ [Next]_vars => [Report!Next]_(Report!vars)
<1> SUFFICES ASSUME TypeOK, Started, Saying, [Next]_vars
             PROVE  [Report!Next]_(Report!vars)
  OBVIOUS
<1>1. CASE \/ UNCHANGED vars \/ StartStreams \/ StopStreams
           \/ \E s \in Stream : \/ BeginStart(s) \/ FailStart(s) \/ EndStart(s)
                                \/ BeginStop(s) \/ Stopping(s) \/ Join(s) \/ PassStop(s)
  <2>1. UNCHANGED <<pc, said, attempt>>
    BY <1>1 DEF vars, StartStreams, StopStreams, BeginStart, FailStart, EndStart,
                BeginStop, Stopping, Abort, EndStop, Join, PassStop, cycle
  <2> QED
    BY <2>1 DEF Report!vars
<1>2. CASE \E s \in Stream : Launch(s)
  <2>1. UNCHANGED <<said, attempt>>
    BY <1>2 DEF Launch
  <2>2. PICK v \in Worker : pc' = [pc EXCEPT ![v] = "top"] /\ pc[v] = "new"
    BY <1>2, NewWorker
  <2>3. \A w \in Worker : (pc'[w] \in {"leaving", "ended"}) = (pc[w] \in {"leaving", "ended"})
    BY <2>2 DEF TypeOK
  <2> QED
    BY <2>1, <2>3 DEF Report!vars
<1>3. CASE \E w \in Worker : Step(w)
  BY <1>3, WorkerReport
<1> QED
  BY <1>1, <1>2, <1>3 DEF Next

-----------------------------------------------------------------------------
\* All of it is kept together by every step of the threads.
THEOREM Inductive == Spec => []IInv
<1>1. IInv /\ [Next]_vars => IInv'
  BY TypeStep, ControlStep, AbortionStep, SayingStep DEF IInv, Control
<1> QED
  BY InitInv, <1>1, PTL DEF Spec

\* Streams, workers and counters keep their types: no more attempts than the
\* policy allows and no batch larger than batch_size.
THEOREM Typed == Spec => []TypeOK
<1>1. IInv => TypeOK
  BY DEF IInv
<1> QED
  BY <1>1, Inductive, PTL

\* A worker that may still emit records has its sink: stop_stream, join and
\* start_stream touch the sink of a stream only when its thread has ended
\* (unless a join timed out).
THEOREM SinkStaysOpen == Spec => []SinkOpen
<1>1. IInv => SinkOpen
  BY DEF IInv, Control
<1> QED
  BY <1>1, Inductive, PTL

\* stop_stream never waits for a read that nobody aborted: there is no order of
\* publishing the decoder and setting the event in which the abort is missed.
THEOREM AbortReaches == Spec => []AbortHeard
<1>1. IInv => AbortHeard
  BY DEF IInv, Abortion
<1> QED
  BY <1>1, Inductive, PTL

\* A stream that shows as stopped, failed or at its end has no thread that reads,
\* emits or connects: at most one that still reports or cleans up (unless a join
\* timed out).
THEOREM EndedIsOver == Spec => []EndedStates
<1>1. IInv => EndedStates
  BY DEF IInv, Control
<1> QED
  BY <1>1, Inductive, PTL

\* on_event sees the lifecycle of every start in StreamReport's order: one
\* report per attempt, a retry only while retries are left, "gave_up" only when
\* they are used up, and nothing after the end.
THEOREM Reports == Spec => ReportSpec
<1>1. Init => Report!Init
  <2> SUFFICES ASSUME Init PROVE Report!Init
    OBVIOUS
  <2>1. \A w \in Worker : (pc[w] \in {"leaving", "ended"}) = FALSE
    BY DEF Init
  <2>2. [w \in Worker |-> pc[w] \in {"leaving", "ended"}] = [w \in Worker |-> FALSE]
    BY <2>1
  <2> QED
    BY <2>2 DEF Init, Report!Init
<1>2. IInv /\ [Next]_vars => [Report!Next]_(Report!vars)
  BY ReportStep DEF IInv, Control
<1> QED
  BY <1>1, <1>2, Inductive, PTL DEF Spec, ReportSpec, Report!Spec

=============================================================================
