--------------------------- MODULE PipelineProofs ---------------------------
(* Descriptors are accounted for and frames are handed out once, for every  *)
(* set of streams, ring capacity and interleaving of Pipeline.              *)
EXTENDS Pipeline, FiniteSetTheorems, TLAPS

-----------------------------------------------------------------------------
(* The inductive invariant. *)

\* Pipeline.stop finds no remove_stream under way and goes through the streams
\* that are registered; remove_stream stops one.
Quiet ==
  /\ phase \in {"stopping", "raised"} => leaving = {}
  /\ phase = "closing" => leaving \subseteq registered
  /\ phase = "running" => \A u, v \in leaving : u = v
  /\ joining = {} \/ clearing = {}

\* A batch is empty while the next one is assembled, and a frame of it is with
\* the bridge or behind it.
Calm ==
  /\ loop \in {"assembling", "clocked"} => todo = {} /\ batch = {}
  /\ importing = {} \/ converted = {}

\* A ring holds decoded frames of its own worker.
Rings == \A w \in Worker : \A f \in ring[w] : f[1] = w /\ f[2] <= decoded[w]

\* A thread that is about to push has a frame that is not in its ring.
Pushing == \A w \in Worker :
             pc[w] = "pushing" => decoded[w] >= 1 /\ <<w, decoded[w]>> \notin ring[w]

\* An open descriptor is in a ring or about to be pushed into one, unless the
\* second close of another raised.
Held ==
  \A f \in Frame :
    Opened(f) /\ OnceOf(f[1]) =>
      \/ f \in ring[f[1]]
      \/ pc[f[1]] = "pushing" /\ f[2] = decoded[f[1]]

Gone(w) == pc[w] # "new" /\ w \notin registered \cup leaving

\* The stream's stop is over, though stop_all may keep it registered.
Done(w) == pc[w] # "new" /\ w \notin leaving /\ (phase = "closing" \/ w \notin registered)

\* A worker that was stopped has ended, or its join timed out: then it puts
\* at most one more frame into the ring before it sees the stop event.
Life(w) ==
  /\ pc[w] = "new" => w \notin registered \cup leaving /\ ring[w] = {}
  /\ w \in joining \cup clearing => stopReq[w]
  /\ w \in clearing => w \in late \/ pc[w] = "ended"
  /\ Done(w) => /\ stopReq[w]
                /\ w \notin late => pc[w] = "ended"
                /\ OnceOf(w) /\ ring[w] # {} =>
                     /\ w \in late /\ pc[w] \in {"connecting", "ended"}
                     /\ ring[w] = {<<w, decoded[w]>>}

\* What was handed out is not newer than the last timestamp of its source.
Stamped ==
  /\ batch \subseteq handed
  /\ \A f \in handed : f[2] <= decoded[f[1]] /\ pts[f] <= lastPts[SourceOf[f[1]]]

IInv ==
  /\ TypeOK /\ Quiet /\ Calm /\ Rings /\ Pushing /\ Held /\ Stamped
  /\ \A w \in Worker : Life(w)

-----------------------------------------------------------------------------
(* Frames, rings and the batcher's choice. *)

LEMMA FrameParts ==
  \A f : f \in Frame <=> /\ f = <<f[1], f[2]>> /\ f[1] \in Worker
                         /\ f[2] \in Nat /\ 1 <= f[2] /\ f[2] <= MaxFrames[f[1]]
<1>1. \A w \in Worker : MaxFrames[w] \in Nat
  BY PipelineAssumption
<1> QED
  BY <1>1 DEF Frame

\* The batcher takes at most one frame of a stream, one of its ring and newer
\* than what its source dispatched.
LEMMA FreshOne ==
  ASSUME TypeOK, Rings, NEW w \in Worker
  PROVE  /\ Fresh(w) \subseteq ring[w]
         /\ \A f \in Fresh(w) : pts[f] > lastPts[SourceOf[w]]
         /\ \A f, g \in Fresh(w) : f = g
<1>1. Fresh(w) \subseteq Latest(w) /\ Latest(w) \subseteq ring[w]
  BY DEF Fresh, Latest
<1>2. ring[w] \subseteq Frame
  BY DEF TypeOK
<1>3. ASSUME NEW f \in Latest(w), NEW g \in Latest(w) PROVE f = g
  <2>1. f[2] <= g[2] /\ g[2] <= f[2]
    BY <1>3 DEF Latest
  <2>2. f \in Frame /\ g \in Frame /\ f[1] = w /\ g[1] = w
    BY <1>1, <1>2, <1>3 DEF Rings
  <2> QED
    BY <2>1, <2>2, FrameParts
<1> QED
  BY <1>1, <1>3 DEF Fresh

\* What is consumed stays so.
LEMMA Consumed ==
  ASSUME TypeOK, NEW f \in Frame, NEW named, Consume(f, named)
  PROVE  /\ uses' \in [Frame -> Nat]
         /\ \A g \in Frame : uses[g] <= uses'[g]
         /\ uses'[f] = uses[f] + 1
  BY DEF TypeOK, Consume

LEMMA Monotone ==
  ASSUME TypeOK, uses' \in [Frame -> Nat], \A g \in Frame : uses[g] <= uses'[g]
  PROVE  \A w : OnceOf(w)' => OnceOf(w)
<1>1. \A g \in Frame : uses[g] \in Nat /\ uses'[g] \in Nat
  BY DEF TypeOK
<1> QED
  BY <1>1 DEF OnceOf

\* A close that returns leaves the frame without a number.
LEMMA Closed ==
  ASSUME TypeOK, NEW f \in Frame, Close(f)
  PROVE  /\ uses' \in [Frame -> Nat] /\ hasFd' \in [Frame -> BOOLEAN]
         /\ \A g \in Frame : uses[g] <= uses'[g] /\ (hasFd'[g] => hasFd[g])
         /\ ~hasFd'[f]
<1>1. CASE hasFd[f]
  <2>1. PICK named : Consume(f, named)
    BY <1>1 DEF Close
  <2>2. hasFd' = [hasFd EXCEPT ![f] = FALSE]
    BY <1>1 DEF Close
  <2> QED
    BY <2>1, <2>2, Consumed DEF TypeOK
<1>2. CASE ~hasFd[f]
  BY <1>2 DEF Close, TypeOK
<1> QED
  BY <1>1, <1>2

\* One that raises consumed a number for the second time.
LEMMA Raised ==
  ASSUME TypeOK, NEW f \in Frame, CloseRaises(f)
  PROVE  /\ uses' \in [Frame -> Nat] /\ hasFd' = hasFd
         /\ \A g \in Frame : uses[g] <= uses'[g]
         /\ ~OnceOf(f[1])'
<1>1. /\ uses' \in [Frame -> Nat] /\ uses'[f] = uses[f] + 1 /\ uses[f] > 0 /\ uses[f] \in Nat
      /\ \A g \in Frame : uses[g] <= uses'[g]
  BY Consumed DEF CloseRaises, TypeOK
<1> QED
  BY <1>1 DEF CloseRaises, OnceOf

-----------------------------------------------------------------------------
LEMMA InitInv == Init => IInv
<1> SUFFICES ASSUME Init PROVE IInv
  OBVIOUS
<1>1. \A w \in Worker : MaxFrames[w] \in Nat
  BY PipelineAssumption
<1>2. TypeOK
  BY <1>1 DEF Init, TypeOK
<1>3. Quiet /\ Calm /\ Rings /\ Pushing /\ Held /\ Stamped
  BY DEF Init, Quiet, Calm, Rings, Pushing, Held, Opened, Stamped
<1>4. \A w \in Worker : Life(w)
  BY DEF Init, Life, Done
<1> QED
  BY <1>2, <1>3, <1>4 DEF IInv

\* The registry's calls, which leave the frames alone.
LEMMA RegistryStep ==
  ASSUME IInv, NEW w \in Worker,
         AddStream(w) \/ RemoveStream(w) \/ BeginJoin(w) \/ EndJoin(w) \/ Stopped(w)
  PROVE  IInv'
<1> USE DEF IInv
<1>1. /\ UNCHANGED <<decoded, pts, frames, batching, phase, loop>>
      /\ (pc' = [pc EXCEPT ![w] = "connecting"] /\ pc[w] = "new") \/ UNCHANGED pc
  BY DEF AddStream, RemoveStream, BeginJoin, EndJoin, Stopped, decoding
<1>2. UNCHANGED <<ring, recent, hasFd, uses, lastPts, todo, window, batch, importing,
                  converted, handed, ghost>>
  BY <1>1 DEF frames, batching
<1>3. TypeOK'
  <2>1. pc' \in [Worker -> {"new", "connecting", "opened", "reading", "pushing", "ended"}]
    BY <1>1 DEF TypeOK
  <2>2. /\ registered' \subseteq Worker /\ leaving' \subseteq Worker
        /\ joining' \cup clearing' \subseteq leaving' /\ late' \subseteq Worker
        /\ stopReq' \in [Worker -> BOOLEAN]
    BY DEF TypeOK, Quiet, AddStream, RemoveStream, BeginJoin, EndJoin, Stopped
  <2> QED
    BY <1>1, <1>2, <2>1, <2>2 DEF TypeOK
<1>4. \A v \in Worker : pc'[v] = "pushing" <=> pc[v] = "pushing"
  BY <1>1 DEF TypeOK
<1>5. Calm' /\ Rings' /\ Pushing' /\ Stamped'
  BY <1>1, <1>2, <1>4 DEF Calm, Rings, Pushing, Stamped
<1>6. Held'
  BY <1>1, <1>2, <1>4, FrameParts DEF Held, Opened, OnceOf
<1>7. Quiet'
  BY <1>1 DEF TypeOK, Quiet, AddStream, RemoveStream, BeginJoin, EndJoin, Stopped
<1>8. \A v \in Worker : OnceOf(v)' <=> OnceOf(v)
  BY <1>2 DEF OnceOf
<1>9. \A v \in Worker : Life(v)'
  <2>1. CASE AddStream(w)
    BY <2>1, <1>1, <1>2, <1>8 DEF TypeOK, Quiet, Life, Done, AddStream
  <2>2. CASE RemoveStream(w)
    BY <2>2, <1>1, <1>2, <1>8 DEF TypeOK, Quiet, Life, Done, RemoveStream
  <2>3. CASE BeginJoin(w)
    BY <2>3, <1>1, <1>2, <1>8 DEF TypeOK, Quiet, Life, Done, BeginJoin
  <2>4. CASE EndJoin(w)
    BY <2>4, <1>1, <1>2, <1>8 DEF TypeOK, Quiet, Life, Done, EndJoin
  <2>5. CASE Stopped(w)
    BY <2>5, <1>1, <1>2, <1>8 DEF TypeOK, Quiet, Life, Done, Stopped
  <2> QED
    BY <2>1, <2>2, <2>3, <2>4, <2>5
<1> QED
  BY <1>3, <1>5, <1>6, <1>7, <1>9

\* A ring is cleared, frame by frame.
LEMMA ClearStep ==
  ASSUME IInv, NEW w \in Worker, Clear(w) \/ ClearRaises(w)
  PROVE  IInv'
<1> USE DEF IInv
<1>1. PICK f \in Oldest(w) :
        /\ (Clear(w) /\ Close(f)) \/ (ClearRaises(w) /\ CloseRaises(f))
        /\ ring' = [ring EXCEPT ![w] = @ \ {f}] /\ recent' = recent \ {f}
  BY DEF Clear, ClearRaises
<1>2. f \in ring[w] /\ f \in Frame /\ f[1] = w
  BY DEF Oldest, TypeOK, Rings
<1>3. /\ UNCHANGED <<decoded, pts, pc, stopReq, late, registered, joining, loop>>
      /\ UNCHANGED <<lastPts, todo, window, batch, importing, converted, handed, ghost>>
      /\ w \in clearing
  BY DEF Clear, ClearRaises, registry, decoding, batching
<1>4. /\ uses' \in [Frame -> Nat] /\ hasFd' \in [Frame -> BOOLEAN]
      /\ \A g \in Frame : uses[g] <= uses'[g] /\ (hasFd'[g] => hasFd[g])
      /\ (Clear(w) /\ ~hasFd'[f]) \/ (ClearRaises(w) /\ ~OnceOf(w)')
  BY <1>1, <1>2, Closed, Raised DEF TypeOK
<1>5. \A v : OnceOf(v)' => OnceOf(v)
  BY <1>4, Monotone
<1>6. clearing' \subseteq clearing /\ leaving' \subseteq leaving
      /\ clearing' \cup joining' \subseteq leaving'
      /\ phase' \in {phase, "raised"}
  BY DEF Clear, ClearRaises, registry, TypeOK, Quiet
<1>7. TypeOK'
  <2>1. ring' \in [Worker -> SUBSET Frame] /\ recent' \subseteq Frame
    BY <1>1 DEF TypeOK
  <2> QED
    BY <1>3, <1>4, <1>6, <2>1 DEF TypeOK
<1>8. Quiet'
  BY DEF TypeOK, Quiet, Clear, ClearRaises, registry
<1>9. \A v \in Worker : ring'[v] \subseteq ring[v] /\ (v # w => ring'[v] = ring[v])
  BY <1>1 DEF TypeOK
<1>10. Calm' /\ Rings' /\ Pushing' /\ Stamped'
  BY <1>3, <1>9 DEF Calm, Rings, Pushing, Stamped
<1>11. Held'
  <2> SUFFICES ASSUME NEW g \in Frame, Opened(g)', OnceOf(g[1])'
               PROVE  g \in ring'[g[1]] \/ (pc'[g[1]] = "pushing" /\ g[2] = decoded'[g[1]])
    BY DEF Held
  <2>1. g # f
    BY <1>2, <1>4 DEF Opened
  <2>2. Opened(g) /\ OnceOf(g[1])
    BY <1>4, <1>5 DEF Opened, TypeOK
  <2>3. g \in ring[g[1]] \/ (pc[g[1]] = "pushing" /\ g[2] = decoded[g[1]])
    BY <2>2, Zenon DEF Held
  <2>4. g \in ring[g[1]] => g \in ring'[g[1]]
    BY <1>1, <1>2, <2>1, FrameParts DEF TypeOK
  <2> QED
    BY <1>3, <2>3, <2>4
<1>12. \A v \in Worker : Life(v)'
  <2> SUFFICES ASSUME NEW v \in Worker PROVE Life(v)'
    OBVIOUS
  <2>1. Life(v) /\ Life(w)
    OBVIOUS
  <2>2. CASE v = w
    BY <1>2, <1>3, <1>4, <1>6, <1>9, <2>1, <2>2 DEF Life, Done, Clear, registry, TypeOK
  <2>3. CASE v # w
    <3>1. Done(v)' => Done(v)
      BY <1>3, <1>6, <2>3 DEF Done, Quiet, Clear, ClearRaises, registry, TypeOK
    <3>2. /\ pc'[v] = pc[v] /\ stopReq'[v] = stopReq[v] /\ ring'[v] = ring[v]
          /\ registered' = registered /\ joining' = joining /\ late' = late
          /\ decoded' = decoded
      BY <1>3, <1>9, <2>3
    <3> QED
      BY <1>5, <1>6, <2>1, <3>1, <3>2 DEF Life
  <2> QED
    BY <2>2, <2>3
<1> QED
  BY <1>7, <1>8, <1>10, <1>11, <1>12

\* A decoder thread that connects, loses its connection or ends.
LEMMA ConnectionStep ==
  ASSUME IInv, NEW w \in Worker, Open(w) \/ Disconnect(w) \/ Exit(w)
  PROVE  IInv'
<1> USE DEF IInv, Open, Disconnect, Exit, registry, frames, batching
<1>1. TypeOK'
  BY DEF TypeOK
<1>2. Quiet' /\ Calm' /\ Rings' /\ Stamped'
  BY DEF Quiet, Calm, Rings, Stamped
<1>3. \A v \in Worker : pc[v] = "pushing" <=> pc'[v] = "pushing"
  BY DEF TypeOK
<1>4. Pushing'
  BY <1>3 DEF Pushing
<1>5. Held'
  BY <1>3, FrameParts DEF Held, Opened, OnceOf
<1>6. \A v \in Worker : Life(v)'
  BY DEF TypeOK, Life, Done, OnceOf
<1> QED
  BY <1>1, <1>2, <1>4, <1>5, <1>6

LEMMA DecodeStep ==
  ASSUME IInv, NEW w \in Worker, Decode(w)
  PROVE  IInv'
<1> USE DEF IInv, Decode, registry, batching
<1> DEFINE f == <<w, decoded[w] + 1>>
<1>1. f \in Frame /\ decoded[w] \in Nat /\ MaxFrames[w] \in Nat
  <2>1. decoded[w] \in Nat /\ MaxFrames[w] \in Nat /\ decoded[w] < MaxFrames[w]
    BY PipelineAssumption DEF TypeOK
  <2>2. decoded[w] + 1 \in 1 .. MaxFrames[w]
    BY <2>1
  <2> QED
    BY <2>1, <2>2 DEF Frame
<1>2. /\ \A g \in Frame : g[2] <= decoded[g[1]] => g # f
      /\ \A v \in Worker : decoded[v] \in Nat /\ decoded'[v] \in Nat
                           /\ decoded[v] <= decoded'[v]
  BY <1>1 DEF TypeOK
<1>3. LastPts(w) \in Nat
  <2>1. CASE decoded[w] = 0
    BY <2>1 DEF LastPts
  <2>2. CASE decoded[w] # 0
    <3>1. <<w, decoded[w]>> \in Frame
      BY <2>2, <1>1, FrameParts DEF TypeOK
    <3> QED
      BY <2>2, <3>1 DEF LastPts, TypeOK
  <2> QED
    BY <2>1, <2>2
<1>4. PICK p \in Nat : pts' = [pts EXCEPT ![f] = p]
  <2>1. PICK p \in {LastPts(w) + 1} \cup (IF pc[w] = "opened" THEN {1} ELSE {}) :
          pts' = [pts EXCEPT ![f] = p]
    OBVIOUS
  <2>2. p \in Nat
    BY <1>3, <2>1
  <2> QED
    BY <2>1, <2>2
<1>5. TypeOK'
  BY <1>1, <1>4 DEF TypeOK
<1>6. Quiet' /\ Calm' /\ Rings'
  BY <1>2, FrameParts DEF TypeOK, Quiet, Calm, Rings
<1>7. Pushing'
  <2>1. f \notin ring[w]
    BY <1>1 DEF Rings
  <2>2. decoded'[w] = decoded[w] + 1
    BY DEF TypeOK
  <2>3. \A v \in Worker : v # w => pc'[v] = pc[v] /\ decoded'[v] = decoded[v]
    BY DEF TypeOK
  <2> QED
    BY <1>1, <2>1, <2>2, <2>3 DEF Pushing
<1>8. Held'
  <2> SUFFICES ASSUME NEW g \in Frame, Opened(g)', OnceOf(g[1])'
               PROVE  g \in ring'[g[1]] \/ (pc'[g[1]] = "pushing" /\ g[2] = decoded'[g[1]])
    BY DEF Held
  <2>1. CASE g = f
    BY <1>1, <2>1 DEF TypeOK
  <2>2. CASE g # f
    <3>1. Opened(g) /\ OnceOf(g[1]) /\ g[1] \in Worker
      BY <2>2, <1>1, FrameParts DEF TypeOK, Opened, OnceOf
    <3>2. g \in ring[g[1]] \/ (pc[g[1]] = "pushing" /\ g[2] = decoded[g[1]])
      BY <3>1, Zenon DEF Held
    <3>3. \A v \in Worker : pc[v] = "pushing" => pc'[v] = "pushing" /\ decoded'[v] = decoded[v]
      BY DEF TypeOK
    <3> QED
      BY <3>1, <3>2, <3>3, Zenon
  <2> QED
    BY <2>1, <2>2
<1>9. Stamped'
  <2>1. \A g \in handed : g \in Frame /\ pts'[g] = pts[g] /\ g[2] <= decoded'[g[1]]
    BY <1>2, <1>4, FrameParts DEF TypeOK, Stamped
  <2> QED
    BY <2>1 DEF Stamped
<1>10. \A v \in Worker : Life(v)'
  BY DEF TypeOK, Life, Done, OnceOf
<1> QED
  BY <1>5, <1>6, <1>7, <1>8, <1>9, <1>10

LEMMA PushStep ==
  ASSUME IInv, NEW w \in Worker, Push(w) \/ PushRaises(w)
  PROVE  IInv'
<1> USE DEF IInv
<1> DEFINE f == <<w, decoded[w]>>
<1>1. f \in Frame /\ pc[w] = "pushing" /\ w \notin clearing
  BY FrameParts DEF TypeOK, Pushing, Push, PushRaises
<1>2. Evicted(w) \subseteq ring[w] /\ \A g, h \in Evicted(w) : g = h
  <2>1. Evicted(w) \subseteq Oldest(w) /\ Oldest(w) \subseteq ring[w] /\ ring[w] \subseteq Frame
    BY DEF Evicted, Oldest, TypeOK
  <2>2. \A g, h \in Oldest(w) : g[2] <= h[2] /\ h[2] <= g[2] /\ g[1] = h[1]
    BY DEF Oldest, Rings
  <2> QED
    BY <2>1, <2>2, FrameParts
<1>3. UNCHANGED <<registry, decoded, pts, batching, phase, loop>>
  BY DEF Push, PushRaises
<1>4. /\ uses' \in [Frame -> Nat] /\ hasFd' \in [Frame -> BOOLEAN]
      /\ \A g \in Frame : uses[g] <= uses'[g] /\ (hasFd'[g] => hasFd[g])
      /\ \/ Push(w) /\ \A g \in Evicted(w) : ~hasFd'[g]
         \/ PushRaises(w) /\ ~OnceOf(w)'
  <2>1. CASE Push(w) /\ Evicted(w) = {} /\ UNCHANGED <<hasFd, uses>>
    BY <2>1 DEF TypeOK
  <2>2. CASE Push(w) /\ \E e \in Evicted(w) : Close(e)
    <3>1. PICK e \in Evicted(w) : Close(e)
      BY <2>2
    <3>2. e \in Frame /\ Evicted(w) = {e}
      BY <1>2 DEF TypeOK
    <3> QED
      BY <2>2, <3>1, <3>2, Closed
  <2>3. CASE PushRaises(w)
    <3>1. PICK e \in Evicted(w) : CloseRaises(e)
      BY <2>3 DEF PushRaises
    <3>2. e \in Frame /\ e[1] = w
      BY <1>2 DEF TypeOK, Rings
    <3> QED
      BY <2>3, <3>1, <3>2, Raised DEF TypeOK
  <2> QED
    BY <2>1, <2>2, <2>3 DEF Push
<1>5. \A v : OnceOf(v)' => OnceOf(v)
  BY <1>4, Monotone
<1>6. /\ ring' \in [Worker -> SUBSET Frame] /\ recent' \subseteq Frame
      /\ ring'[w] \subseteq ring[w] \cup {f}
      /\ Push(w) => ring'[w] = (ring[w] \ Evicted(w)) \cup {f}
      /\ \A v \in Worker : v # w => ring'[v] = ring[v] /\ pc'[v] = pc[v]
      /\ pc' \in [Worker -> {"new", "connecting", "opened", "reading", "pushing", "ended"}]
      /\ pc'[w] \in {"connecting", "reading"} /\ (stopReq[w] => pc'[w] = "connecting")
  BY <1>1, <1>2 DEF TypeOK, Push, PushRaises
<1>7. TypeOK'
  BY <1>3, <1>4, <1>6 DEF TypeOK, registry, batching
<1>8. Quiet' /\ Calm' /\ Rings' /\ Pushing' /\ Stamped'
  BY <1>1, <1>3, <1>6 DEF TypeOK, Quiet, Calm, Rings, Pushing, Stamped, registry, batching
<1>9. Held'
  <2> SUFFICES ASSUME NEW g \in Frame, Opened(g)', OnceOf(g[1])'
               PROVE  g \in ring'[g[1]] \/ (pc'[g[1]] = "pushing" /\ g[2] = decoded'[g[1]])
    BY DEF Held
  <2>1. Opened(g) /\ OnceOf(g[1]) /\ g[1] \in Worker
    BY <1>4, <1>5, FrameParts DEF Opened, TypeOK
  <2>2. g \in ring[g[1]] \/ (pc[g[1]] = "pushing" /\ g[2] = decoded[g[1]])
    BY <2>1, Zenon DEF Held
  <2>3. CASE g[1] = w
    <3>1. Push(w) /\ g \notin Evicted(w)
      BY <1>4, <2>3 DEF Opened
    <3>2. g \in ring[w] \/ g = f
      BY <2>2, <2>3, FrameParts
    <3> QED
      BY <1>6, <2>3, <3>1, <3>2, Zenon
  <2>4. CASE g[1] # w
    BY <1>3, <1>6, <2>1, <2>2, <2>4
  <2> QED
    BY <2>3, <2>4
<1>10. \A v \in Worker : Life(v)'
  <2> SUFFICES ASSUME NEW v \in Worker PROVE Life(v)'
    OBVIOUS
  <2>1. /\ UNCHANGED <<registered, leaving, joining, clearing, stopReq, late, phase, decoded>>
        /\ Life(v) /\ Life(w)
    BY <1>3 DEF registry
  <2>2. CASE v = w
    <3>1. Done(w)' => Done(w)
      BY <1>1, <2>1 DEF Done
    <3>2. ASSUME Done(w), OnceOf(w)'
          PROVE  ring[w] = {} /\ stopReq[w] /\ w \in late /\ Push(w)
      BY <1>1, <1>4, <1>5, <2>1, <3>2 DEF Life
    <3>3. ASSUME Done(w), OnceOf(w)' PROVE ring'[w] = {f} /\ pc'[w] = "connecting"
      BY <1>2, <1>6, <3>2, <3>3
    <3> QED
      BY <1>1, <1>6, <2>1, <2>2, <3>1, <3>2, <3>3 DEF Life
  <2>3. CASE v # w
    BY <1>5, <1>6, <2>1, <2>3 DEF Life, Done
  <2> QED
    BY <2>2, <2>3
<1> QED
  BY <1>7, <1>8, <1>9, <1>10

\* The pipeline thread and the clock.
LEMMA PeekStep ==
  ASSUME IInv, NEW w \in Worker, Peek(w)
  PROVE  IInv' /\ Fresh(w) \cap handed = {}
<1> USE DEF IInv, Peek, registry, decoding, frames
<1> DEFINE s == SourceOf[w]
<1>1. /\ Fresh(w) \subseteq ring[w] /\ ring[w] \subseteq Frame
      /\ \A f \in Fresh(w) : pts[f] > lastPts[s] /\ f[1] = w /\ f[2] <= decoded[w]
      /\ \A f, g \in Fresh(w) : f = g
  BY FreshOne DEF TypeOK, Rings
<1>2. s \in SourceId /\ \A f \in Frame : pts[f] \in Nat
  BY DEF TypeOK, SourceId
<1>3. \A r \in SourceId : lastPts[r] \in Nat
  BY DEF TypeOK
<1>4. /\ lastPts' \in [SourceId -> Nat]
      /\ \A r \in SourceId : lastPts[r] <= lastPts'[r]
      /\ \A f \in Fresh(w) : pts[f] = lastPts'[s]
  <2>1. CASE Fresh(w) = {}
    BY <2>1, <1>3 DEF TypeOK
  <2>2. CASE Fresh(w) # {}
    <3> DEFINE c == CHOOSE f \in Fresh(w) : TRUE
    <3>1. c \in Fresh(w)
      BY <2>2
    <3>2. lastPts' = [lastPts EXCEPT ![s] = pts[c]]
      BY <2>2
    <3>3. pts[c] \in Nat /\ lastPts[s] <= pts[c] /\ \A f \in Fresh(w) : f = c
      BY <3>1, <1>1, <1>2, <1>3
    <3>4. /\ \A r \in SourceId : lastPts'[r] = IF r = s THEN pts[c] ELSE lastPts[r]
          /\ lastPts' \in [SourceId -> Nat]
      BY <3>2, <3>3, <1>2 DEF TypeOK
    <3>5. \A r \in SourceId : lastPts[r] <= lastPts'[r]
      BY <3>3, <3>4, <1>3
    <3> QED
      BY <3>3, <3>4, <3>5, <1>2
  <2> QED
    BY <2>1, <2>2
<1>5. TypeOK'
  BY <1>1, <1>4 DEF TypeOK
<1>6. Quiet' /\ Calm' /\ Rings' /\ Pushing' /\ Held'
  BY DEF Quiet, Calm, Rings, Pushing, Held, Opened, OnceOf
<1>7. Stamped'
  <2> SUFFICES ASSUME NEW f \in handed \cup Fresh(w)
               PROVE  f[2] <= decoded[f[1]] /\ pts[f] <= lastPts'[SourceOf[f[1]]]
    BY DEF Stamped
  <2>1. CASE f \in Fresh(w)
    BY <2>1, <1>1, <1>2, <1>3, <1>4
  <2>2. CASE f \in handed
    <3>1. f \in Frame /\ f[1] \in Worker /\ SourceOf[f[1]] \in SourceId
      BY <2>2, FrameParts DEF TypeOK, SourceId
    <3>2. f[2] <= decoded[f[1]] /\ pts[f] <= lastPts[SourceOf[f[1]]]
      BY <2>2 DEF Stamped
    <3> QED
      BY <3>1, <3>2, <1>2, <1>3, <1>4 DEF TypeOK
  <2> QED
    BY <2>1, <2>2
<1>8. \A v \in Worker : Life(v)'
  BY DEF Life, Done, OnceOf
<1>9. Fresh(w) \cap handed = {}
  <2> SUFFICES ASSUME NEW f \in Fresh(w), f \in handed PROVE FALSE
    OBVIOUS
  <2>1. pts[f] > lastPts[s] /\ pts[f] <= lastPts[s] /\ f \in Frame
    BY <1>1 DEF Stamped
  <2> QED
    BY <2>1, <1>2, <1>3
<1> QED
  BY <1>5, <1>6, <1>7, <1>8, <1>9

LEMMA ThreadStep ==
  ASSUME IInv,
         \/ LoopTest \/ ReadClock \/ Snapshot \/ EndLoop \/ Stop \/ StopAll
         \/ \E f \in Frame : Expire(f) \/ Convert(f) \/ Show(f)
         \/ UNCHANGED vars
  PROVE  IInv'
<1> USE DEF IInv
<1>1. CASE \/ LoopTest \/ ReadClock \/ Snapshot \/ EndLoop \/ Stop \/ StopAll
           \/ UNCHANGED vars
  <2> USE <1>1 DEF LoopTest, ReadClock, Snapshot, Visit, EndLoop, Stop, StopAll, vars,
                   registry, decoding, frames, batching
  <2>1. TypeOK'
    BY DEF TypeOK, Idle, Quiet
  <2>2. Quiet' /\ Calm'
    BY DEF TypeOK, Quiet, Calm, Idle
  <2>3. UNCHANGED <<ring, hasFd, uses, pc, decoded, pts, lastPts, batch, handed>>
    OBVIOUS
  <2>4. Rings' /\ Pushing' /\ Held' /\ Stamped'
    BY <2>3 DEF Rings, Pushing, Held, Opened, OnceOf, Stamped
  <2>5. \A v \in Worker : Life(v)'
    <3>1. /\ UNCHANGED <<registered, joining, clearing, stopReq, late>>
          /\ clearing # {} => phase' = phase
      BY DEF TypeOK, Quiet
    <3>2. \A v \in Worker : Done(v)' => Done(v)
      BY DEF TypeOK, Quiet, Done
    <3>3. \A v \in Worker : v \in leaving' => v \in registered \cup leaving
      BY DEF TypeOK
    <3>4. \A v : OnceOf(v)' <=> OnceOf(v)
      BY <2>3 DEF OnceOf
    <3> QED
      BY <2>3, <3>1, <3>2, <3>3, <3>4 DEF Life
  <2> QED
    BY <2>1, <2>2, <2>4, <2>5
<1>2. ASSUME NEW f \in Frame, Expire(f) \/ Convert(f) \/ Show(f) PROVE IInv'
  <2>1. /\ UNCHANGED <<registry, decoding, ring, hasFd, uses, lastPts, todo, handed,
                        phase, loop>>
        /\ recent' \subseteq recent /\ window' = window
    BY <1>2 DEF Expire, Convert, Show, frames, batching
  <2>2. /\ batch' \subseteq batch
        /\ importing' \cup converted' \subseteq batch'
        /\ (ghost' \in {ghost, ghost \cup {f}} /\ f \in handed) \/ ghost' = ghost
    BY <1>2 DEF Expire, Convert, Show, batching, TypeOK, Stamped, Calm
  <2>3. TypeOK'
    BY <2>1, <2>2 DEF TypeOK, registry, decoding
  <2>4. Quiet' /\ Rings' /\ Pushing' /\ Held' /\ Stamped'
    BY <2>1, <2>2 DEF Quiet, Rings, Pushing, Held, Opened, OnceOf, Stamped,
                      registry, decoding
  <2>5. \A v \in Worker : Life(v)'
    BY <2>1 DEF Life, Done, OnceOf, registry, decoding
  <2>6. Calm'
    BY <1>2, <2>1, <2>2 DEF Calm, Expire, Convert, Show, batching, TypeOK
  <2> QED
    BY <2>3, <2>4, <2>5, <2>6
<1> QED
  BY <1>1, <1>2

LEMMA ImportStep ==
  ASSUME IInv, NEW f \in Frame, Import(f)
  PROVE  IInv'
<1> USE DEF IInv
<1>1. /\ UNCHANGED <<registry, decoding, ring, recent, lastPts, todo, window, handed, ghost,
                      phase, loop>>
      /\ batch' \subseteq batch
  BY DEF Import
<1>2. /\ uses' \in [Frame -> Nat]
      /\ \A g \in Frame : uses[g] <= uses'[g]
  BY Consumed DEF Import, TypeOK
<1>3. /\ hasFd' \in [Frame -> BOOLEAN]
      /\ \A g \in Frame : hasFd'[g] => hasFd[g]
  BY DEF Import, TypeOK
<1>4. importing' \cup converted' \subseteq batch'
  BY DEF Import, TypeOK, Calm
<1>5. TypeOK'
  BY <1>1, <1>2, <1>3, <1>4 DEF TypeOK, registry, decoding
<1>6. \A v : OnceOf(v)' => OnceOf(v)
  BY <1>2, Monotone
<1>7. \A g \in Frame : Opened(g)' => Opened(g)
  BY <1>2, <1>3 DEF Opened, TypeOK
<1>8. Quiet' /\ Rings' /\ Pushing' /\ Held' /\ Stamped'
  BY <1>1, <1>6, <1>7 DEF Quiet, Rings, Pushing, Held, Stamped, registry, decoding
<1>9. \A v \in Worker : Life(v)'
  BY <1>1, <1>6 DEF Life, Done, registry, decoding
<1>10. Calm'
  BY <1>1 DEF Calm, Import
<1> QED
  BY <1>5, <1>8, <1>9, <1>10

LEMMA NextInv == IInv /\ [Next]_vars => IInv'
<1> SUFFICES ASSUME IInv, [Next]_vars PROVE IInv'
  OBVIOUS
<1> QED
  BY RegistryStep, ClearStep, ConnectionStep, DecodeStep, PushStep, PeekStep, ThreadStep, ImportStep
  DEF Next, Stopping, PipelineThread

THEOREM Invariance == Spec => []IInv
  BY InitInv, NextInv, PTL DEF Spec

-----------------------------------------------------------------------------
(* The results. *)

\* The variables keep their types, so that a join never runs for a stream that
\* is not being stopped and only frames of a batch are imported or shown.
THEOREM Typed == Spec => []TypeOK
  BY Invariance, PTL DEF IInv

\* As long as none of a stream's descriptors is consumed twice, none is leaked
\* but one if the stream's join timed out (RingBuffer, RawFrame.close,
\* DecoderWorker.stop, StreamRegistry), whatever the capacity and whatever
\* happens to the descriptors of the other streams.
THEOREM DescriptorsAccounted == Spec => []FdAccounted
<1>1. IInv => FdAccounted
  <2> SUFFICES ASSUME IInv, NEW w \in Worker, OnceOf(w)
               PROVE  Cardinality(Leaked(w)) <= IF w \in late THEN 1 ELSE 0
    BY DEF FdAccounted
  <2>1. Leaked(w) \subseteq ring[w] /\ (Leaked(w) # {} => w \notin registered \cup leaving)
    BY DEF Leaked, Owned, Decoded, IInv, Held
  <2>2. CASE Leaked(w) = {}
    BY <2>2, FS_EmptySet
  <2>3. CASE Leaked(w) # {}
    <3>1. Done(w)
      BY <2>1, <2>3 DEF IInv, Life, Done
    <3>2. w \in late /\ Leaked(w) = {<<w, decoded[w]>>}
      BY <2>1, <2>3, <3>1 DEF IInv, Life
    <3>3. Cardinality(Leaked(w)) = 1
      BY <3>2, FS_Singleton, Zenon
    <3> QED
      BY <3>2, <3>3
  <2> QED
    BY <2>2, <2>3
<1> QED
  BY <1>1, Invariance, PTL

\* DynamicBatcher never puts a frame into two batches.
THEOREM DispatchedOnce == Spec => HandedOnce
<1>1. IInv /\ [Next]_vars => [(batch' \ batch) \cap handed = {}]_vars
  <2> SUFFICES ASSUME IInv, Next PROVE (batch' \ batch) \cap handed = {}
    OBVIOUS
  <2>1. ASSUME NEW w \in Worker, Peek(w) PROVE (batch' \ batch) \cap handed = {}
    BY <2>1, PeekStep DEF Peek
  <2>2. ASSUME ~ \E w \in Worker : Peek(w) PROVE batch' \subseteq batch
    BY <2>2 DEF Next, Stopping, PipelineThread, AddStream, RemoveStream, BeginJoin,
                EndJoin, Clear, ClearRaises, Stopped, Open, Disconnect, Exit, Decode,
                Push, PushRaises, Expire, Convert, Import, Show, Stop, StopAll,
                LoopTest, ReadClock, Snapshot, Visit, EndLoop, batching
  <2> QED
    BY <2>1, <2>2
<1> QED
  BY <1>1, Invariance, PTL DEF Spec, HandedOnce

-----------------------------------------------------------------------------
(* Frames in flight when their stream is removed. *)

\* A stream has one frame in a batch, or shown after its removal, at most, and
\* none while the batcher still has to look at it.
InFlight ==
  /\ \A f \in ghost : Gone(f[1])
  /\ \A f \in batch \cup ghost : f[1] \notin todo
  /\ \A f, g \in batch \cup ghost : f[1] = g[1] => f = g

\* Every step keeps it, given the invariant above.
LEMMA InFlightStep == IInv /\ InFlight /\ [Next]_vars => InFlight'
<1> SUFFICES ASSUME IInv, InFlight, [Next]_vars PROVE InFlight'
  OBVIOUS
<1>1. ghost \subseteq Frame /\ batch \subseteq Frame
      /\ \A f \in Frame : f[1] \in Worker
  BY FrameParts DEF IInv, TypeOK
<1>2. ASSUME NEW w \in Worker,
             \/ AddStream(w) \/ RemoveStream(w) \/ BeginJoin(w) \/ EndJoin(w)
             \/ Clear(w) \/ ClearRaises(w) \/ Stopped(w)
      PROVE  InFlight'
  <2>1. \A v \in Worker : Gone(v) => Gone(v)'
    BY <1>2 DEF IInv, TypeOK, Gone, AddStream, RemoveStream, BeginJoin, EndJoin, Clear,
                ClearRaises, Stopped, decoding, registry
  <2>2. UNCHANGED <<ghost, batch, todo>>
    BY <1>2 DEF AddStream, RemoveStream, BeginJoin, EndJoin, Clear, ClearRaises, Stopped,
                batching
  <2> QED
    BY <1>1, <2>1, <2>2 DEF InFlight
<1>3. ASSUME NEW w \in Worker,
             \/ Open(w) \/ Disconnect(w) \/ Exit(w) \/ Decode(w)
             \/ Push(w) \/ PushRaises(w)
      PROVE  InFlight'
  <2>1. \A v \in Worker : Gone(v) => Gone(v)'
    BY <1>3 DEF IInv, TypeOK, Gone, Open, Disconnect, Exit, Decode, Push,
                PushRaises, registry
  <2>2. UNCHANGED <<ghost, batch, todo>>
    BY <1>3 DEF Open, Disconnect, Exit, Decode, Push, PushRaises, batching
  <2> QED
    BY <1>1, <2>1, <2>2 DEF InFlight
<1>4. ASSUME NEW w \in Worker, Peek(w) PROVE InFlight'
  <2>1. /\ \A f \in Fresh(w) : f[1] = w
        /\ \A f, g \in Fresh(w) : f = g
    BY FreshOne DEF IInv, Rings
  <2>2. \A v : Gone(v)' <=> Gone(v)
    BY <1>4 DEF Peek, Gone, registry, decoding
  <2>3. ghost' = ghost /\ batch' = batch \cup Fresh(w) /\ todo' = todo \ {w} /\ w \in todo
    BY <1>4 DEF Peek
  <2> QED
    BY <2>1, <2>2, <2>3 DEF InFlight
<1>5. ASSUME NEW f \in Frame, Convert(f) \/ Import(f) \/ Show(f) PROVE InFlight'
  <2>1. ghost' = ghost \/ (ghost' = ghost \cup {f} /\ f[1] \in Removed /\ f \in batch)
    BY <1>5 DEF IInv, TypeOK, Convert, Import, Show
  <2>2. batch' \subseteq batch /\ todo' = todo
    BY <1>5 DEF Convert, Import, Show
  <2>3. /\ \A v : Gone(v)' <=> Gone(v)
        /\ \A v \in Removed : Gone(v)
    BY <1>5 DEF Convert, Import, Show, Gone, Removed, registry, decoding
  <2> QED
    BY <2>1, <2>2, <2>3 DEF InFlight
<1>6. CASE Snapshot
  <2>1. batch' = {} /\ ghost' = ghost /\ todo' = registered
    BY <1>6 DEF Snapshot, Visit, IInv, Calm
  <2>2. \A v : (Gone(v)' <=> Gone(v)) /\ (Gone(v) => v \notin registered)
    BY <1>6 DEF Snapshot, Visit, Gone, registry, decoding
  <2> QED
    BY <2>1, <2>2 DEF InFlight
<1>7. CASE \/ Stop \/ StopAll \/ LoopTest \/ ReadClock \/ EndLoop \/ UNCHANGED vars
           \/ \E f \in Frame : Expire(f)
  <2>1. UNCHANGED <<ghost, batch, todo>>
    BY <1>7 DEF Stop, StopAll, LoopTest, ReadClock, EndLoop, Expire, vars, batching
  <2>2. \A v : Gone(v) => Gone(v)'
    BY <1>7 DEF IInv, Quiet, Stop, StopAll, LoopTest, ReadClock, EndLoop, Expire, vars,
                Gone, registry, decoding
  <2> QED
    BY <2>1, <2>2 DEF InFlight
<1> QED
  BY <1>2, <1>3, <1>4, <1>5, <1>6, <1>7 DEF Next, Stopping, PipelineThread

\* At most one frame of a stream reaches the sink after remove_stream returned
\* (Pipeline.remove_stream, DynamicBatcher.assemble_batch), even when the
\* stream's join timed out.
THEOREM OneAfterRemoval == Spec => []OneGhost
<1>1. Init => InFlight
  BY DEF Init, InFlight
<1>2. IInv /\ InFlight => OneGhost
  <2> SUFFICES ASSUME InFlight, NEW w \in Worker
               PROVE  Cardinality({f \in ghost : f[1] = w}) <= 1
    BY DEF OneGhost
  <2> DEFINE G == {f \in ghost : f[1] = w}
  <2>1. CASE G = {}
    BY <2>1, FS_EmptySet
  <2>2. CASE G # {}
    <3>1. PICK f \in G : TRUE
      BY <2>2
    <3>2. G = {f}
      BY <3>1 DEF InFlight
    <3>3. Cardinality(G) = 1
      BY <3>2, FS_Singleton, Zenon
    <3> QED
      BY <3>3
  <2> QED
    BY <2>1, <2>2
<1> QED
  BY <1>1, <1>2, InFlightStep, Invariance, PTL DEF Spec

=============================================================================
