-------------------------- MODULE StreamMuxProofs --------------------------
(* Type correctness and safety of StreamMux, for every configuration; and,  *)
(* with a fixed set of pads, that StreamMux implements FrameChannel for     *)
(* every policy and every size, and that its end of stream is complete.     *)
(* MuxedPipeline uses the mux as StreamMux describes its callers, so that   *)
(* all this holds there; from it, the runner's promises to the sink and to  *)
(* wait(), and the order of stop().                                         *)
EXTENDS StreamMuxChannel, MuxedPipeline, FiniteSetTheorems, TLAPS

-----------------------------------------------------------------------------
(* The inductive invariant. *)

\* A thread inside push_frame holds the last frame it decoded.
Holding == \A s \in Source : pc[s] \in {"calling", "blocked", "failed"} => decoded[s] >= 1

\* A pad object is created once: it is in the dictionary, holds frames or is
\* waited on only after its add_pad.
Created ==
  /\ \A p \in pads : pc[p] # "new"
  /\ \A p \in Source : pc[p] = "new" => queue[p] = {}
  /\ \A s \in Source : pc[s] = "blocked" => pc[target[s]] # "new"

\* Nothing is queued, batched or closed before it is decoded.
Past == Queued \cup delivered \cup released \subseteq Decoded

-----------------------------------------------------------------------------
(* The operators on queues and orders. *)

\* What First, Last and Forget return.
LEMMA FirstSubset == \A S, R, n : First(S, R, n) \subseteq S
  BY DEF First

LEMMA OrderTypes ==
  ASSUME NEW S, NEW R \in SUBSET (S \X S), NEW T \in SUBSET S, NEW F, NEW x \in S
  PROVE  Forget(R, F) \in SUBSET (S \X S) /\ Last(R, T, x) \in SUBSET (S \X S)
  BY DEF Forget, Last

\* A batch consists of queued frames.
LEMMA PicksQueued == Picks \subseteq Queued
<1>1. Active \subseteq pads
  BY DEF Active
<1>2. LegacyPicks \subseteq Queued
  <2>1. CASE LiveSource
    <3>1. First({p \in Active : queue[p] # {}}, padOrder, BatchSize) \subseteq pads
      BY <1>1, FirstSubset
    <3> QED
      BY <2>1, <3>1, FirstSubset DEF LegacyPicks, Queued
  <2>2. CASE ~LiveSource
    <3>1. UNION {First(queue[p], earlier, CapPerSource) : p \in Active} \subseteq Queued
      BY <1>1, FirstSubset DEF Queued
    <3> QED
      BY <2>2, <3>1, FirstSubset DEF LegacyPicks
  <2> QED
    BY <2>1, <2>2
<1>3. NewPicks \subseteq Queued
  BY <1>1, FirstSubset DEF NewPicks, Offer, Queued
<1> QED
  BY <1>2, <1>3 DEF Picks

\* The frame in hand is a frame.
LEMMA InHandFrame ==
  ASSUME TypeOK, Holding, NEW s \in Source, pc[s] \in {"calling", "blocked", "failed"}
  PROVE  <<s, decoded[s]>> \in Frame
  BY MuxAssumption DEF TypeOK, Holding, Frame

LEMMA TimedFrames ==
  ASSUME TypeOK, Holding
  PROVE  Queued \subseteq Frame /\ Timed \subseteq Frame /\ InHand \subseteq Frame
<1>1. Queued \subseteq Frame
  BY DEF TypeOK, Queued
<1>2. \A s \in Source : Hand(s) \subseteq Frame
  BY InHandFrame DEF Hand
<1> QED
  BY <1>1, <1>2 DEF Timed, Calling, InHand

LEMMA MaxAgeNat == MaxAge \in Nat
  BY MuxAssumption DEF MaxAge

-----------------------------------------------------------------------------
LEMMA InitTyped == Init => TypeOK /\ Holding /\ Created
<1> SUFFICES ASSUME Init PROVE TypeOK /\ Holding /\ Created
  OBVIOUS
<1>1. pads \subseteq Source /\ padOrder \subseteq Source \X Source
  BY MuxAssumption DEF Init, Orders
<1>2. age \in [Frame -> 0 .. MaxAge] /\ sinceBatch \in -1 .. MaxAge /\ rr \in Nat \X Nat
  BY MaxAgeNat DEF Init, NoBatch
<1>3. pending \subseteq Kind \X Source /\ told \in [Source -> SUBSET Kind]
  BY MuxAssumption DEF Init, Kind
<1>4. decoded \in [Source -> 0 .. MaxFrames] /\ target \in [Source -> Source]
  BY MuxAssumption DEF Init
<1>5. pc \in [Source -> {"new", "idle"}] /\ \A p \in pads : pc[p] = "idle"
  BY MuxAssumption DEF Init
<1> QED
  BY <1>1, <1>2, <1>3, <1>4, <1>5 DEF Init, TypeOK, Holding, Created

LEMMA LeaveTyped ==
  ASSUME TypeOK, NEW F, Leave(F)
  PROVE  /\ ahead' \subseteq Frame \X Frame /\ earlier' \subseteq Frame \X Frame
         /\ age' \in [Frame -> 0 .. MaxAge]
  BY MaxAgeNat DEF TypeOK, Leave, Forget

\* The round-robin position stays a pair of naturals.
LEMMA AdvanceTyped ==
  ASSUME TypeOK, Advance(Picks)
  PROVE  rr' \in Nat \X Nat
<1>1. CASE UNCHANGED rr
  BY <1>1 DEF TypeOK
<1>2. ASSUME NEW last \in Active,
             rr' = <<(PriorityStart + GroupTurn(last)) % Cardinality(Groups),
                     (SourceStart(last) + SourceTurn(last) + 1) % Cardinality(Group(last))>>
      PROVE  rr' \in Nat \X Nat
  <2>1. last \in pads /\ pads \subseteq Source /\ IsFiniteSet(pads)
    BY MuxAssumption, FS_Subset DEF Active, TypeOK
  <2>2. Group(last) \subseteq pads /\ last \in Group(last)
    BY <2>1 DEF Group
  <2>3. Cardinality(Group(last)) \in Nat \ {0}
    BY <2>1, <2>2, FS_Subset, FS_EmptySet, FS_CardinalityType
  <2>4. IsFiniteSet(Groups) /\ Priority[last] \in Groups
    <3> DEFINE prio == [p \in pads |-> Priority[p]]
    <3>1. prio \in Surjection(pads, Groups)
      BY DEF Surjection, Groups
    <3>2. IsFiniteSet(Groups)
      BY <2>1, <3>1, FS_Surjection
    <3> QED
      BY <2>1, <3>2 DEF Groups
  <2>5. Cardinality(Groups) \in Nat \ {0}
    BY <2>4, FS_EmptySet, FS_CardinalityType
  <2>6. PriorityStart \in Nat
    BY <2>5 DEF PriorityStart, TypeOK
  <2>7. GroupTurn(last) \in Nat
    <3>1. Cardinality({g \in Groups : g < Priority[last]}) \in Nat
      BY <2>4, FS_Subset, FS_CardinalityType
    <3> QED
      BY <2>5, <2>6, <3>1 DEF GroupTurn
  <2>8. SourceStart(last) \in Nat
    BY <2>3 DEF SourceStart, TypeOK
  <2>9. SourceTurn(last) \in Nat
    <3>1. Cardinality({q \in Group(last) : <<q, last>> \in padOrder}) \in Nat
      BY <2>1, <2>2, FS_Subset, FS_CardinalityType
    <3> QED
      BY <2>3, <2>8, <3>1 DEF SourceTurn
  <2> QED
    BY <1>2, <2>3, <2>5, <2>6, <2>7, <2>8, <2>9
<1> QED
  BY <1>1, <1>2 DEF Advance

\* Appending the frame in hand to a pad that was created.
LEMMA EnqueueTyped ==
  ASSUME TypeOK, Holding, Created,
         NEW s \in Source, NEW p \in Source, NEW out \in SUBSET queue[p],
         <<s, decoded[s]>> \in Frame, pc[p] # "new", pc[s] # "new",
         Enqueue(s, p, out), UNCHANGED <<pads, decoded, target>>
  PROVE  /\ queue' \in [Source -> SUBSET Frame] /\ ahead' \subseteq Frame \X Frame
         /\ released' \subseteq Frame
         /\ pc' \in [Source -> {"new", "idle", "calling", "blocked", "failed", "done"}]
         /\ Created' /\ Holding'
<1>1. queue' \in [Source -> SUBSET Frame] /\ released' \subseteq Frame
  BY DEF Enqueue, TypeOK
<1>2. ahead' \subseteq Frame \X Frame
  BY DEF Enqueue, TypeOK, Forget, Last
<1>3. pc' = [pc EXCEPT ![s] = "idle"]
  BY DEF Enqueue
<1>4. \A q \in Source : q # p => queue'[q] = queue[q]
  BY DEF Enqueue, TypeOK
<1> QED
  BY <1>1, <1>2, <1>3, <1>4 DEF TypeOK, Created, Holding

LEMMA StepTyped ==
  ASSUME TypeOK, Holding, Created, [Next]_vars
  PROVE  TypeOK' /\ Holding' /\ Created'
<1> USE MaxAgeNat
<1>1. ASSUME NEW s \in Source, AddPad(s) PROVE TypeOK' /\ Holding' /\ Created'
  <2>1. padOrder' \subseteq Source \X Source /\ pending' \subseteq Kind \X Source
    BY <1>1 DEF AddPad, TypeOK, Last, Kind
  <2>2. pc' \in [Source -> {"new", "idle", "calling", "blocked", "failed", "done"}]
    BY <1>1 DEF AddPad, TypeOK
  <2>3. TypeOK'
    BY <1>1, <2>1, <2>2 DEF AddPad, TypeOK, order
  <2> QED
    BY <1>1, <2>3 DEF AddPad, TypeOK, Holding, Created
<1>2. ASSUME NEW s \in Source, RemovePad(s) PROVE TypeOK' /\ Holding' /\ Created'
  <2>1. ahead' \subseteq Frame \X Frame /\ earlier' \subseteq Frame \X Frame
          /\ age' \in [Frame -> 0 .. MaxAge]
    BY <1>2, LeaveTyped DEF RemovePad
  <2> QED
    BY <1>2, <2>1 DEF RemovePad, TypeOK, Holding, Created, Forget, threads, Kind
<1>3. ASSUME NEW s \in Source, Call(s) PROVE TypeOK' /\ Holding' /\ Created'
  <2>1. <<s, decoded'[s]>> \in Frame /\ decoded'[s] >= 1
    BY <1>3, MuxAssumption DEF Call, TypeOK, Frame
  <2>2. earlier' \subseteq Frame \X Frame
    BY <1>3, <2>1, TimedFrames DEF Call, TypeOK, Last
  <2>3. decoded' \in [Source -> 0 .. MaxFrames]
    BY <1>3, MuxAssumption DEF Call, TypeOK
  <2>4. TypeOK'
    BY <1>3, <2>2, <2>3 DEF Call, TypeOK, padState
  <2>5. Holding'
    BY <1>3, <2>1 DEF Call, TypeOK, Holding
  <2> QED
    BY <1>3, <2>4, <2>5 DEF Call, TypeOK, Created, padState
<1>4. ASSUME NEW s \in Source, Raise(s) PROVE TypeOK' /\ Holding' /\ Created'
  <2>1. ahead' \subseteq Frame \X Frame /\ earlier' \subseteq Frame \X Frame
          /\ age' \in [Frame -> 0 .. MaxAge]
    BY <1>4, LeaveTyped DEF Raise
  <2> QED
    BY <1>4, <2>1 DEF Raise, TypeOK, Holding, Created, padState
<1>5. ASSUME NEW s \in Source, PushRefused(s) PROVE TypeOK' /\ Holding' /\ Created'
  <2>1. ahead' \subseteq Frame \X Frame /\ earlier' \subseteq Frame \X Frame
          /\ age' \in [Frame -> 0 .. MaxAge]
    BY <1>5, LeaveTyped DEF PushRefused, Refuse
  <2>2. <<s, decoded[s]>> \in Frame
    BY <1>5, InHandFrame DEF PushRefused
  <2> QED
    BY <1>5, <2>1, <2>2 DEF PushRefused, Refuse, TypeOK, Holding, Created, padState
<1>6. ASSUME NEW s \in Source, Push(s) PROVE TypeOK' /\ Holding' /\ Created'
  <2> DEFINE f == <<s, decoded[s]>>
  <2>1. f \in Frame /\ pc[s] = "calling"
    BY <1>6, InHandFrame DEF Push
  <2>2. PICK p \in Lookup(IndexOf[s]) :
          /\ Announce(s, p)
          /\ \/ Enqueue(s, p, {}) /\ UNCHANGED <<earlier, age, target>>
             \/ /\ Enqueue(s, p, Overflow(p))
                /\ earlier' = Forget(earlier, Overflow(p))
                /\ age' = [g \in Frame |-> IF g \in Overflow(p) THEN 0 ELSE age[g]]
                /\ UNCHANGED target
             \/ /\ pc' = [pc EXCEPT ![s] = "blocked"]
                /\ target' = [target EXCEPT ![s] = p]
                /\ Leave({f})
                /\ UNCHANGED <<queue, released>>
             \/ Refuse(s) /\ UNCHANGED target
    BY <1>6 DEF Push
  <2>3. p \in pads /\ p \in Source /\ pc[p] # "new"
    BY <2>2 DEF Lookup, TypeOK, Created
  <2>4. Overflow(p) \subseteq queue[p] /\ queue[p] \subseteq Frame
    BY <2>3, FirstSubset DEF Overflow, TypeOK
  <2>5. sinceBatch' \in -1 .. MaxAge /\ pending' \subseteq Kind \X Source
    BY <2>1, <2>2, <2>3 DEF Announce, TypeOK, Kind
  <2>6. UNCHANGED <<padState, eosSent, stopping, rr, decoded, delivered, told>>
    BY <1>6 DEF Push
  <2>7. ASSUME NEW out \in SUBSET queue[p], Enqueue(s, p, out), UNCHANGED target,
               earlier' = Forget(earlier, out),
               age' = [g \in Frame |-> IF g \in out THEN 0 ELSE age[g]]
        PROVE  TypeOK' /\ Holding' /\ Created'
    <3>1. /\ queue' \in [Source -> SUBSET Frame] /\ ahead' \subseteq Frame \X Frame
          /\ released' \subseteq Frame /\ Created' /\ Holding'
          /\ pc' \in [Source -> {"new", "idle", "calling", "blocked", "failed", "done"}]
      BY <2>1, <2>3, <2>6, <2>7, EnqueueTyped DEF padState
    <3>2. age' \in [Frame -> 0 .. MaxAge] /\ earlier' \subseteq Frame \X Frame
      BY <2>7 DEF TypeOK, Forget
    <3>3. TypeOK'
      BY <2>5, <2>6, <2>7, <3>1, <3>2 DEF TypeOK, padState
    <3> QED
      BY <3>1, <3>3
  <2>8. CASE Enqueue(s, p, {}) /\ UNCHANGED <<earlier, age, target>>
    <3>1. earlier' = Forget(earlier, {})
      BY <2>8 DEF Forget, TypeOK
    <3>2. age' = [g \in Frame |-> IF g \in {} THEN 0 ELSE age[g]]
      BY <2>8 DEF TypeOK
    <3> QED
      BY <2>7, <2>8, <3>1, <3>2
  <2>9. ASSUME pc' = [pc EXCEPT ![s] = "blocked"], target' = [target EXCEPT ![s] = p],
               Leave({f}), UNCHANGED <<queue, released>>
        PROVE  TypeOK' /\ Holding' /\ Created'
    <3>1. TypeOK'
      BY <2>3, <2>5, <2>6, <2>9, LeaveTyped DEF TypeOK, padState
    <3>2. Holding'
      BY <2>1, <2>6, <2>9 DEF TypeOK, Holding
    <3> QED
      BY <2>1, <2>3, <2>6, <2>9, <3>1, <3>2 DEF TypeOK, Created, padState
  <2>10. ASSUME Refuse(s), UNCHANGED target
         PROVE  TypeOK' /\ Holding' /\ Created'
    BY <2>1, <2>5, <2>6, <2>10, LeaveTyped DEF Refuse, TypeOK, Holding, Created, padState
  <2> QED
    BY <2>2, <2>4, <2>7, <2>8, <2>9, <2>10
<1>7. ASSUME NEW s \in Source, Resume(s) PROVE TypeOK' /\ Holding' /\ Created'
  <2>1. <<s, decoded[s]>> \in Frame /\ target[s] \in Source /\ pc[target[s]] # "new"
    BY <1>7, InHandFrame DEF Resume, TypeOK, Created
  <2>2. UNCHANGED <<padState, pending, eosSent, stopping, sinceBatch, rr, decoded, target,
                    delivered, told>>
    BY <1>7 DEF Resume
  <2>3. CASE Refuse(s)
    BY <2>1, <2>2, <2>3, LeaveTyped DEF Refuse, TypeOK, Holding, Created, padState
  <2>4. ASSUME Enqueue(s, target[s], {}), UNCHANGED age,
               earlier' = Last(earlier, Timed, <<s, decoded[s]>>)
        PROVE  TypeOK' /\ Holding' /\ Created'
    <3>1. earlier' \subseteq Frame \X Frame
      BY <2>1, <2>4, TimedFrames DEF TypeOK, Last
    <3>2. /\ queue' \in [Source -> SUBSET Frame] /\ ahead' \subseteq Frame \X Frame
          /\ released' \subseteq Frame /\ Created' /\ Holding'
          /\ pc' \in [Source -> {"new", "idle", "calling", "blocked", "failed", "done"}]
      BY <1>7, <2>1, <2>2, <2>4, EnqueueTyped DEF padState, Resume
    <3>3. TypeOK'
      BY <2>2, <2>4, <3>1, <3>2 DEF TypeOK, padState
    <3> QED
      BY <3>2, <3>3
  <2> QED
    BY <1>7, <2>3, <2>4 DEF Resume
<1>8. ASSUME NEW s \in Source, PushEos(s) PROVE TypeOK' /\ Holding' /\ Created'
  BY <1>8 DEF PushEos, TypeOK, Holding, Created, order
<1>9. CASE Poll
  <2>1. PICK batch \in SUBSET Queued : Emit(batch)
    BY <1>9, PicksQueued DEF Poll
  <2>2. rr' \in Nat \X Nat
    BY <1>9, AdvanceTyped DEF Poll
  <2>3. batch \subseteq Frame
    BY TimedFrames
  <2>4. \A p \in Source : Flushed(p, batch) \subseteq Kind
    BY DEF Flushed, Kind
  <2>5. TypeOK'
    <3>1. queue' \in [Source -> SUBSET Frame] /\ delivered' \subseteq Frame
      BY <2>1, <2>3 DEF Emit, TypeOK
    <3>2. /\ ahead' \subseteq Frame \X Frame /\ earlier' \subseteq Frame \X Frame
          /\ age' \in [Frame -> 0 .. MaxAge]
      BY <2>1, LeaveTyped DEF Emit
    <3>3. /\ eos' \in [Source -> BOOLEAN] /\ eosPending' \in [Source -> BOOLEAN]
          /\ eosSent' \in BOOLEAN
      BY <2>1 DEF Emit, TypeOK, Drained, AllEos
    <3>4. /\ told' \in [Source -> SUBSET Kind] /\ pending' \subseteq Kind \X Source
          /\ sinceBatch' \in -1 .. MaxAge
      BY <2>1, <2>4 DEF Emit, TypeOK
    <3> QED
      BY <1>9, <2>2, <3>1, <3>2, <3>3, <3>4 DEF Poll, TypeOK, threads
  <2>6. \A p \in Source : queue'[p] \subseteq queue[p]
    BY <2>1 DEF Emit
  <2> QED
    BY <1>9, <2>5, <2>6 DEF Poll, TypeOK, Holding, Created, threads
<1>10. CASE Tick
  BY <1>10 DEF Tick, TypeOK, Holding, Created, padState, threads
<1>11. CASE Stop
  BY <1>11 DEF Stop, TypeOK, Holding, Created, padState, order, threads
<1>12. CASE Start
  BY <1>12 DEF Start, TypeOK, Holding, Created, padState, order, threads
<1>13. CASE UNCHANGED vars
  BY <1>13 DEF vars, TypeOK, Holding, Created
<1> QED
  BY <1>1, <1>2, <1>3, <1>4, <1>5, <1>6, <1>7, <1>8, <1>9, <1>10, <1>11, <1>12, <1>13
  DEF Next

\* Every variable keeps its type: ages and timers stay within their cap, the
\* round-robin positions are natural, frames stay frames.
THEOREM Typed == Spec => []TypeOK
<1>1. Init => TypeOK /\ Holding /\ Created
  BY InitTyped
<1>2. TypeOK /\ Holding /\ Created /\ [Next]_vars => TypeOK' /\ Holding' /\ Created'
  BY StepTyped
<1> QED
  BY <1>1, <1>2, PTL DEF Spec

-----------------------------------------------------------------------------
(* Ownership of frames. *)

\* What a step of one thread does to the frames in hand.
LEMMA HandOf ==
  ASSUME TypeOK, NEW s \in Source, NEW to, pc' = [pc EXCEPT ![s] = to], UNCHANGED decoded
  PROVE  InHand' = IF to \in {"calling", "blocked", "failed"}
                   THEN InHand \cup {<<s, decoded[s]>>} ELSE InHand \ {<<s, decoded[s]>>}
<1>1. \A t \in Source : t # s => Hand(t)' = Hand(t)
  BY DEF TypeOK, Hand
<1>2. \A t \in Source : t # s => <<s, decoded[s]>> \notin Hand(t)
  BY DEF Hand
<1>3. Hand(s)' = IF to \in {"calling", "blocked", "failed"} THEN {<<s, decoded[s]>>} ELSE {}
  BY DEF TypeOK, Hand
<1>4. Hand(s) \subseteq {<<s, decoded[s]>>}
  BY DEF Hand
<1> QED
  BY <1>1, <1>2, <1>3, <1>4 DEF InHand

LEMMA HandIn ==
  ASSUME NEW s \in Source, pc[s] \in {"calling", "blocked", "failed"}
  PROVE  <<s, decoded[s]>> \in InHand
  BY DEF InHand, Hand

\* Every frame with an owner has been decoded.
LEMMA OwnedDecoded ==
  ASSUME TypeOK, Holding
  PROVE  InHand \subseteq Decoded /\ \A s \in Source : <<s, decoded[s] + 1>> \notin Decoded
<1>1. \A s \in Source : pc[s] \in {"calling", "blocked", "failed"}
                          => <<s, decoded[s]>> \in Decoded
  BY InHandFrame DEF Decoded, TypeOK
<1>2. InHand \subseteq Decoded
  BY <1>1 DEF InHand, Hand
<1>3. \A s \in Source : <<s, decoded[s] + 1>> \notin Decoded
  BY DEF Decoded, TypeOK
<1> QED
  BY <1>2, <1>3

\* Appending the frame in hand to a pad, and closing those it drops.
LEMMA EnqueueOwned ==
  ASSUME TypeOK, Holding, Past, OneOwner,
         NEW s \in Source, NEW p \in Source, NEW out \in SUBSET queue[p],
         p \in pads \/ out = {},
         pc[s] \in {"calling", "blocked"},
         Enqueue(s, p, out), UNCHANGED <<pads, decoded, delivered>>
  PROVE  /\ Past' /\ OneOwner'
         /\ InHand' = InHand \ {<<s, decoded[s]>>}
         /\ released' = released \cup out
         /\ Queued' = IF p \in pads THEN (Queued \ out) \cup {<<s, decoded[s]>>} ELSE Queued
<1> DEFINE f == <<s, decoded[s]>>
<1>1. queue' = [queue EXCEPT ![p] = (@ \ out) \cup {f}] /\ released' = released \cup out
  BY DEF Enqueue
<1>2. f \in InHand /\ f \in Decoded
  BY HandIn, OwnedDecoded
<1>3. InHand' = InHand \ {f}
  BY HandOf DEF Enqueue
<1>4. \A q \in pads : queue'[q] = IF q = p THEN (queue[p] \ out) \cup {f} ELSE queue[q]
  BY <1>1 DEF TypeOK
<1>5. \A q \in pads : q # p => queue[q] \cap out = {}
  BY DEF OneOwner
<1>6. Queued' = IF p \in pads THEN (Queued \ out) \cup {f} ELSE Queued
  BY <1>4, <1>5 DEF Queued
<1>7. out \subseteq Queued
  BY DEF Queued
<1>8. Decoded' = Decoded
  BY DEF Decoded
<1>9. Past'
  BY <1>1, <1>2, <1>6, <1>7, <1>8 DEF Past
<1>10. \A q, r \in pads : q # r => queue'[q] \cap queue'[r] = {}
  BY <1>2, <1>4 DEF OneOwner, Queued
<1>11. OneOwner'
  BY <1>1, <1>2, <1>3, <1>6, <1>7, <1>10 DEF OneOwner
<1> QED
  BY <1>1, <1>3, <1>6, <1>9, <1>11

\* Closing the frame in hand.
LEMMA RefuseOwned ==
  ASSUME TypeOK, Holding, Past, OneOwner,
         NEW s \in Source, pc[s] \in {"calling", "blocked"},
         Refuse(s), UNCHANGED <<pads, decoded, delivered>>
  PROVE  /\ Past' /\ OneOwner'
         /\ InHand' = InHand \ {<<s, decoded[s]>>}
         /\ released' = released \cup {<<s, decoded[s]>>}
         /\ Queued' = Queued
<1>1. InHand' = InHand \ {<<s, decoded[s]>>} /\ <<s, decoded[s]>> \in InHand
  BY HandOf, HandIn DEF Refuse
<1>2. Queued' = Queued /\ released' = released \cup {<<s, decoded[s]>>} /\ UNCHANGED queue
  BY DEF Refuse, Queued
<1>3. Past'
  BY <1>1, <1>2, OwnedDecoded DEF Past, Decoded
<1> QED
  BY <1>1, <1>2, <1>3 DEF OneOwner

\* The alternatives of push_frame, and of the end of its wait.
LEMMA PushCases ==
  ASSUME TypeOK, NEW s \in Source, Push(s)
  PROVE  \E p \in Lookup(IndexOf[s]) :
           /\ p \in pads /\ p \in Source
           /\ \/ \E out \in SUBSET queue[p] :
                   /\ Enqueue(s, p, out) /\ UNCHANGED target
                   /\ earlier' = Forget(earlier, out)
              \/ /\ pc' = [pc EXCEPT ![s] = "blocked"]
                 /\ target' = [target EXCEPT ![s] = p]
                 /\ Leave({<<s, decoded[s]>>})
                 /\ UNCHANGED <<queue, released>>
              \/ Refuse(s) /\ UNCHANGED target
<1>1. PICK p \in Lookup(IndexOf[s]) :
        \/ Enqueue(s, p, {}) /\ UNCHANGED <<earlier, age, target>>
        \/ /\ Enqueue(s, p, Overflow(p))
           /\ earlier' = Forget(earlier, Overflow(p))
           /\ UNCHANGED target
        \/ /\ pc' = [pc EXCEPT ![s] = "blocked"]
           /\ target' = [target EXCEPT ![s] = p]
           /\ Leave({<<s, decoded[s]>>})
           /\ UNCHANGED <<queue, released>>
        \/ Refuse(s) /\ UNCHANGED target
  BY DEF Push
<1>2. p \in pads /\ p \in Source /\ Overflow(p) \subseteq queue[p]
  BY FirstSubset DEF Lookup, TypeOK, Overflow
<1>3. earlier = Forget(earlier, {})
  BY DEF TypeOK, Forget
<1> QED
  BY <1>1, <1>2, <1>3

LEMMA CallOwned ==
  ASSUME TypeOK, Holding, Past, OneOwner, NEW s \in Source, Call(s)
  PROVE  /\ Past' /\ OneOwner'
         /\ InHand' = InHand \cup {<<s, decoded[s] + 1>>} /\ Queued' = Queued
         /\ Decoded' = Decoded \cup {<<s, decoded[s] + 1>>}
<1> DEFINE f == <<s, decoded[s] + 1>>
<1>1. decoded' = [decoded EXCEPT ![s] = @ + 1] /\ pc' = [pc EXCEPT ![s] = "calling"]
        /\ pc[s] = "idle" /\ decoded[s] < MaxFrames /\ UNCHANGED <<pads, queue, delivered, released>>
  BY DEF Call, padState
<1>2. Queued' = Queued
  BY <1>1 DEF Queued
<1>3. Decoded' = Decoded \cup {f} /\ f \in Frame
  BY <1>1, MuxAssumption DEF Decoded, TypeOK, Frame
<1>4. InHand' = InHand \cup {f}
  <2>1. \A t \in Source : t # s => Hand(t)' = Hand(t)
    BY <1>1 DEF TypeOK, Hand
  <2>2. Hand(s)' = {f} /\ Hand(s) = {}
    BY <1>1 DEF TypeOK, Hand
  <2> QED
    BY <2>1, <2>2 DEF InHand
<1>5. f \notin InHand \cup Queued \cup delivered \cup released
  BY OwnedDecoded DEF Past
<1>6. Past'
  BY <1>1, <1>2, <1>3 DEF Past
<1>7. OneOwner'
  BY <1>1, <1>2, <1>4, <1>5 DEF OneOwner
<1> QED
  BY <1>2, <1>3, <1>4, <1>6, <1>7

LEMMA RemoveOwned ==
  ASSUME Past, OneOwner, NEW s \in Source, RemovePad(s)
  PROVE  /\ Past' /\ OneOwner'
         /\ InHand' = InHand /\ Queued' = Queued \ queue[s] /\ Decoded' = Decoded
<1>1. pads' = pads \ {s} /\ s \in pads /\ released' = released \cup queue[s]
        /\ UNCHANGED <<queue, pc, decoded, delivered>>
  BY DEF RemovePad, threads
<1>2. InHand' = InHand /\ Decoded' = Decoded
  BY <1>1 DEF InHand, Hand, Decoded
<1>3. Queued' = Queued \ queue[s] /\ queue[s] \subseteq Queued
  BY <1>1 DEF Queued, OneOwner
<1> QED
  BY <1>1, <1>2, <1>3 DEF Past, OneOwner

LEMMA PollOwned ==
  ASSUME TypeOK, Past, OneOwner, Poll
  PROVE  /\ Past' /\ OneOwner'
         /\ InHand' = InHand /\ Decoded' = Decoded /\ released' = released
         /\ \E batch \in {{}, Picks} : /\ Queued' = Queued \ batch
                                       /\ delivered' = delivered \cup batch
                                       /\ Emit(batch)
<1>1. PICK batch \in {{}, Picks} : Emit(batch)
  BY DEF Poll
<1>2. batch \subseteq Queued
  BY PicksQueued
<1>3. /\ delivered' = delivered \cup batch
      /\ \A p \in pads : queue'[p] = queue[p] \ batch
      /\ UNCHANGED <<pads, pc, decoded, released>>
  BY <1>1 DEF Poll, Emit, threads, TypeOK
<1>4. InHand' = InHand /\ Decoded' = Decoded
  BY <1>3 DEF InHand, Hand, Decoded
<1>5. Queued' = Queued \ batch
  BY <1>3 DEF Queued
<1>6. Past' /\ OneOwner'
  BY <1>2, <1>3, <1>4, <1>5 DEF Past, OneOwner
<1> QED
  BY <1>1, <1>3, <1>4, <1>5, <1>6

\* The steps that move no frame.
LEMMA StillOwned ==
  ASSUME TypeOK, Created, Past, OneOwner,
         \/ \E s \in Source : AddPad(s) \/ Raise(s) \/ PushEos(s)
         \/ Tick \/ Stop \/ Start \/ UNCHANGED vars
  PROVE  /\ Past' /\ OneOwner' /\ InHand' = InHand /\ Queued' = Queued
         /\ Decoded' = Decoded /\ UNCHANGED <<queue, decoded, delivered, released>>
<1>1. UNCHANGED <<queue, decoded, delivered, released>>
  <2>1. ASSUME NEW s \in Source, AddPad(s) \/ Raise(s) \/ PushEos(s)
        PROVE  UNCHANGED <<queue, decoded, delivered, released>>
    BY <2>1 DEF AddPad, Raise, PushEos
  <2>2. CASE Tick \/ Stop \/ Start \/ UNCHANGED vars
    BY <2>2 DEF Tick, Stop, Start, vars, threads
  <2> QED
    BY <2>1, <2>2
<1>2. Decoded' = Decoded
  BY <1>1 DEF Decoded
<1>3. ASSUME NEW s \in Source, AddPad(s)
      PROVE  InHand' = InHand /\ Queued' = Queued /\ \A p \in pads' : p = s \/ p \in pads
  <2>1. \A t \in Source : Hand(t)' = Hand(t)
    BY <1>1, <1>3 DEF AddPad, Hand, TypeOK
  <2>2. queue[s] = {}
    BY <1>3 DEF AddPad, Created
  <2> QED
    BY <1>1, <1>3, <2>1, <2>2 DEF InHand, Queued, AddPad
<1>4. ASSUME NEW s \in Source, AddPad(s) PROVE OneOwner'
  <2>1. queue[s] = {}
    BY <1>4 DEF AddPad, Created
  <2> QED
    BY <1>1, <1>3, <1>4, <2>1 DEF OneOwner
<1>5. ASSUME \/ \E s \in Source : Raise(s) \/ PushEos(s)
             \/ Tick \/ Stop \/ Start \/ UNCHANGED vars
      PROVE  InHand' = InHand /\ UNCHANGED pads
  <2>1. UNCHANGED pads
    BY <1>5 DEF Raise, PushEos, Tick, Stop, Start, vars, threads, padState
  <2>2. \A t \in Source : Hand(t)' = Hand(t)
    BY <1>1, <1>5 DEF Raise, PushEos, Tick, Stop, Start, vars, threads, padState, Hand, TypeOK
  <2> QED
    BY <2>1, <2>2 DEF InHand
<1>6. CASE \E s \in Source : AddPad(s)
  BY <1>1, <1>2, <1>3, <1>4, <1>6 DEF Past
<1>7. CASE \/ \E s \in Source : Raise(s) \/ PushEos(s)
           \/ Tick \/ Stop \/ Start \/ UNCHANGED vars
  <2>1. Queued' = Queued
    BY <1>1, <1>5, <1>7 DEF Queued
  <2> QED
    BY <1>1, <1>2, <1>5, <1>7, <2>1 DEF Past, OneOwner
<1> QED
  BY <1>6, <1>7

LEMMA StepOwned ==
  ASSUME TypeOK, Holding, Created, Past, OneOwner, [Next]_vars
  PROVE  Past' /\ OneOwner'
<1>1. ASSUME NEW s \in Source, RemovePad(s) PROVE Past' /\ OneOwner'
  BY <1>1, RemoveOwned
<1>2. ASSUME NEW s \in Source, Call(s) PROVE Past' /\ OneOwner'
  BY <1>2, CallOwned
<1>3. ASSUME NEW s \in Source, PushRefused(s) PROVE Past' /\ OneOwner'
  BY <1>3, RefuseOwned DEF PushRefused, padState
<1>4. ASSUME NEW s \in Source, Push(s) PROVE Past' /\ OneOwner'
  <2>1. pc[s] = "calling" /\ UNCHANGED <<pads, decoded, delivered>>
    BY <1>4 DEF Push, padState
  <2>2. PICK p \in Lookup(IndexOf[s]) :
          /\ p \in pads /\ p \in Source
          /\ \/ \E out \in SUBSET queue[p] : Enqueue(s, p, out)
             \/ pc' = [pc EXCEPT ![s] = "blocked"] /\ UNCHANGED <<queue, released>>
             \/ Refuse(s)
    BY <1>4, PushCases
  <2>3. CASE \E out \in SUBSET queue[p] : Enqueue(s, p, out)
    BY <2>1, <2>2, <2>3, EnqueueOwned
  <2>4. CASE pc' = [pc EXCEPT ![s] = "blocked"] /\ UNCHANGED <<queue, released>>
    <3>1. InHand' = InHand
      BY <2>1, <2>4, HandOf, HandIn
    <3>2. Queued' = Queued /\ Decoded' = Decoded
      BY <2>1, <2>4 DEF Queued, Decoded
    <3> QED
      BY <2>1, <2>4, <3>1, <3>2 DEF Past, OneOwner
  <2>5. CASE Refuse(s)
    BY <2>1, <2>5, RefuseOwned
  <2> QED
    BY <2>2, <2>3, <2>4, <2>5
<1>5. ASSUME NEW s \in Source, Resume(s) PROVE Past' /\ OneOwner'
  <2>1. /\ pc[s] = "blocked" /\ target[s] \in Source
        /\ UNCHANGED <<pads, decoded, delivered>>
        /\ Refuse(s) \/ Enqueue(s, target[s], {})
    BY <1>5 DEF Resume, padState, TypeOK
  <2> QED
    BY <2>1, RefuseOwned, EnqueueOwned
<1>6. CASE Poll
  BY <1>6, PollOwned
<1>7. CASE \/ \E s \in Source : AddPad(s) \/ Raise(s) \/ PushEos(s)
           \/ Tick \/ Stop \/ Start \/ UNCHANGED vars
  BY <1>7, StillOwned
<1> QED
  BY <1>1, <1>2, <1>3, <1>4, <1>5, <1>6, <1>7 DEF Next

LEMMA InitOwned == Init => Past /\ OneOwner
<1> SUFFICES ASSUME Init PROVE Past /\ OneOwner
  OBVIOUS
<1>1. Queued = {} /\ InHand = {}
  BY MuxAssumption DEF Init, Queued, InHand, Hand
<1> QED
  BY <1>1, MuxAssumption DEF Init, Past, OneOwner

Base == TypeOK /\ Holding /\ Created /\ Past /\ OneOwner

LEMMA BaseHolds == Spec => []Base
<1>1. Init => Base
  BY InitTyped, InitOwned DEF Base
<1>2. Base /\ [Next]_vars => Base'
  BY StepTyped, StepOwned DEF Base
<1> QED
  BY <1>1, <1>2, PTL DEF Spec

\* No frame ever has two owners, however pads are added and removed and
\* whatever the policy: no payload is closed twice or closed while queued or
\* with the consumer.
THEOREM SingleOwner == Spec => []OneOwner
<1>1. Base => OneOwner
  BY DEF Base
<1> QED
  BY <1>1, BaseHolds, PTL

-----------------------------------------------------------------------------
(* No frame is lost. *)

\* A pad index is never used again for another pad object.
IndexNotReused == \A p, q \in Source : IndexOf[p] = IndexOf[q] => p = q

\* Nobody waits for room.
Unblocked == \A s \in Source : pc[s] # "blocked"

LEMMA StepUnblocked ==
  ASSUME ~BlockWhenFull, TypeOK, Unblocked, [Next]_vars
  PROVE  Unblocked'
<1>1. ASSUME NEW s \in Source, AddPad(s) \/ Call(s) \/ Raise(s) \/ PushEos(s) PROVE Unblocked'
  BY <1>1 DEF AddPad, Call, Raise, PushEos, TypeOK, Unblocked
<1>2. ASSUME NEW s \in Source, PushRefused(s) \/ Push(s) PROVE Unblocked'
  BY <1>2 DEF PushRefused, Push, Refuse, Enqueue, TypeOK, Unblocked
<1>3. \A s \in Source : ~Resume(s)
  BY DEF Resume, Unblocked
<1>4. CASE (\E s \in Source : RemovePad(s)) \/ Poll \/ Tick \/ Stop \/ Start \/ UNCHANGED vars
  BY <1>4 DEF RemovePad, Poll, Tick, Stop, Start, vars, threads, Unblocked
<1> QED
  BY <1>1, <1>2, <1>3, <1>4 DEF Next

LEMMA StepKeepsFrames ==
  ASSUME IndexNotReused \/ Unblocked, Base, NoFrameLost, [Next]_vars
  PROVE  NoFrameLost'
<1> USE DEF NoFrameLost, Present, Base
<1>1. ASSUME NEW s \in Source, RemovePad(s) PROVE NoFrameLost'
  <2>1. released' = released \cup queue[s] /\ UNCHANGED delivered
    BY <1>1 DEF RemovePad
  <2> QED
    BY <1>1, <2>1, RemoveOwned
<1>2. ASSUME NEW s \in Source, Call(s) PROVE NoFrameLost'
  <2>1. UNCHANGED <<delivered, released>>
    BY <1>2 DEF Call
  <2> QED
    BY <1>2, <2>1, CallOwned
<1>3. ASSUME NEW s \in Source, PushRefused(s) PROVE NoFrameLost'
  <2>1. pc[s] = "calling" /\ UNCHANGED <<pads, decoded, delivered>> /\ Decoded' = Decoded
    BY <1>3 DEF PushRefused, padState, Decoded
  <2> QED
    BY <1>3, <2>1, RefuseOwned DEF PushRefused
<1>4. ASSUME NEW s \in Source, Push(s) PROVE NoFrameLost'
  <2>1. pc[s] = "calling" /\ UNCHANGED <<pads, decoded, delivered>> /\ Decoded' = Decoded
    BY <1>4 DEF Push, padState, Decoded
  <2>2. PICK p \in Lookup(IndexOf[s]) :
          /\ p \in pads /\ p \in Source
          /\ \/ \E out \in SUBSET queue[p] : Enqueue(s, p, out)
             \/ pc' = [pc EXCEPT ![s] = "blocked"] /\ UNCHANGED <<queue, released>>
             \/ Refuse(s)
    BY <1>4, PushCases
  <2>3. ASSUME NEW out \in SUBSET queue[p], Enqueue(s, p, out) PROVE NoFrameLost'
    BY <2>1, <2>2, <2>3, EnqueueOwned
  <2>4. CASE pc' = [pc EXCEPT ![s] = "blocked"] /\ UNCHANGED <<queue, released>>
    <3>1. InHand' = InHand
      BY <2>1, <2>4, HandOf, HandIn
    <3>2. Queued' = Queued
      BY <2>1, <2>4 DEF Queued
    <3> QED
      BY <2>1, <2>4, <3>1, <3>2
  <2>5. CASE Refuse(s)
    BY <2>1, <2>5, RefuseOwned
  <2> QED
    BY <2>2, <2>3, <2>4, <2>5
<1>5. ASSUME NEW s \in Source, Resume(s) PROVE NoFrameLost'
  <2>1. /\ pc[s] = "blocked" /\ target[s] \in Source
        /\ UNCHANGED <<pads, decoded, delivered>> /\ Decoded' = Decoded
        /\ \/ Refuse(s)
           \/ Enqueue(s, target[s], {}) /\ Lookup(IndexOf[target[s]]) # {}
    BY <1>5 DEF Resume, padState, TypeOK, Decoded
  <2>2. CASE Refuse(s)
    BY <2>1, <2>2, RefuseOwned
  <2>3. CASE Enqueue(s, target[s], {}) /\ Lookup(IndexOf[target[s]]) # {}
    <3>1. IndexNotReused
      BY <2>1 DEF Unblocked
    <3>2. target[s] \in pads
      BY <2>1, <2>3, <3>1 DEF Lookup, IndexNotReused, TypeOK
    <3> QED
      BY <2>1, <2>3, <3>2, EnqueueOwned
  <2> QED
    BY <2>1, <2>2, <2>3
<1>6. CASE Poll
  BY <1>6, PollOwned
<1>7. CASE \/ \E s \in Source : AddPad(s) \/ Raise(s) \/ PushEos(s)
           \/ Tick \/ Stop \/ Start \/ UNCHANGED vars
  BY <1>7, StillOwned
<1> QED
  BY <1>1, <1>2, <1>3, <1>4, <1>5, <1>6, <1>7 DEF Next

\* Where an index is used for one pad object only, or no producer waits for room,
\* every decoded frame still has an owner, was batched or was closed, with pads
\* added and removed and the mux stopped at any time.
THEOREM NothingLost == (IndexNotReused \/ ~BlockWhenFull) /\ Spec => []NoFrameLost
<1>1. Init => NoFrameLost /\ Unblocked
  BY MuxAssumption DEF Init, NoFrameLost, Decoded, Frame, Unblocked
<1>2. ASSUME IndexNotReused PROVE Spec => []NoFrameLost
  <2>1. Base /\ NoFrameLost /\ [Next]_vars => NoFrameLost'
    BY <1>2, StepKeepsFrames
  <2> QED
    BY <1>1, <2>1, BaseHolds, PTL DEF Spec
<1>3. ASSUME ~BlockWhenFull PROVE Spec => []NoFrameLost
  <2>1. Base /\ NoFrameLost /\ Unblocked /\ [Next]_vars => NoFrameLost' /\ Unblocked'
    BY <1>3, StepKeepsFrames, StepUnblocked DEF Base
  <2> QED
    BY <1>1, <2>1, BaseHolds, PTL DEF Spec
<1> QED
  BY <1>2, <1>3

-----------------------------------------------------------------------------
(* Frames of one source stay in order. *)

\* The frames of a source are only queued on a pad with the source's index,
\* and no two pads have one index.
Routed ==
  /\ \A p, q \in pads : IndexOf[p] = IndexOf[q] => p = q
  /\ \A p \in Source : \A f \in queue[p] : IndexOf[f[1]] = IndexOf[p]
  /\ \A s \in Source : pc[s] = "blocked" => IndexOf[target[s]] = IndexOf[s]

\* R orders S, and the frames of each source as they were decoded.
Fifo(R, S) ==
  /\ \A f, g \in S : f[1] = g[1] /\ f[2] < g[2] => <<f, g>> \in R
  /\ \A f, g, h \in S : <<f, g>> \in R /\ <<g, h>> \in R => <<f, h>> \in R

\* The deques and the clock readings are in decoding order.
Ordered == (\A p \in pads : Fifo(ahead, queue[p])) /\ Fifo(earlier, Timed)

\* The part of an order that a step leaves alone.
LEMMA FifoKept ==
  ASSUME NEW R, NEW S, NEW Q, NEW T \in SUBSET S, Fifo(R, S),
         \A f, g \in T : <<f, g>> \in Q <=> <<f, g>> \in R
  PROVE  Fifo(Q, T)
  BY DEF Fifo

\* Frames that are not in F keep their order when F is forgotten.
LEMMA ForgetKeeps ==
  ASSUME NEW R, NEW S, NEW F, NEW T \in SUBSET (S \ F), Fifo(R, S)
  PROVE  Fifo(Forget(R, F), T)
<1>1. \A f, g \in T : <<f, g>> \in Forget(R, F) <=> <<f, g>> \in R
  BY DEF Forget
<1> QED
  BY <1>1, FifoKept

\* A frame that is the newest of its source may come last.
LEMMA LastKeeps ==
  ASSUME NEW R, NEW S \in SUBSET Frame, NEW x \in Frame, Fifo(R, S),
         \A f \in S : f # x /\ f[1] = x[1] => f[2] < x[2]
  PROVE  Fifo(Last(R, S, x), S \cup {x})
<1> DEFINE L == Last(R, S, x)
<1>1. \A f, g \in S \cup {x} : /\ g = x => (<<f, g>> \in L <=> f # x)
                               /\ g # x => (<<f, g>> \in L <=> f # x /\ <<f, g>> \in R)
  BY DEF Last
<1>2. \A f, g \in S \cup {x} : f[1] = g[1] /\ f[2] < g[2] => <<f, g>> \in L
  <2> SUFFICES ASSUME NEW f \in S \cup {x}, NEW g \in S \cup {x}, f[1] = g[1], f[2] < g[2]
               PROVE  <<f, g>> \in L
    OBVIOUS
  <2>1. f[2] \in Int /\ g[2] \in Int /\ f # g
    BY DEF Frame
  <2>2. CASE g = x
    BY <1>1, <2>1, <2>2
  <2>3. CASE g # x
    <3>1. g \in S /\ g[2] \in Int /\ x[2] \in Int
      BY <2>3 DEF Frame
    <3>2. f # x
      BY <2>1, <2>3, <3>1
    <3> QED
      BY <1>1, <2>3, <3>1, <3>2 DEF Fifo
  <2> QED
    BY <2>2, <2>3
<1>3. \A f, g, h \in S \cup {x} : <<f, g>> \in L /\ <<g, h>> \in L => <<f, h>> \in L
  BY <1>1 DEF Fifo
<1> QED
  BY <1>2, <1>3 DEF Fifo

LEMMA FramesFinite ==
  ASSUME NEW F \in SUBSET Frame
  PROVE  IsFiniteSet(F) /\ Cardinality(F) \in Nat
<1>1. IsFiniteSet(Source) /\ IsFiniteSet(1 .. MaxFrames)
  BY MuxAssumption, FS_Interval
<1>2. IsFiniteSet(Frame)
  BY <1>1, FS_Product DEF Frame
<1> QED
  BY <1>2, FS_Subset, FS_CardinalityType

\* First takes a prefix: with a frame it takes the older ones of the source.
LEMMA FirstPrefix ==
  ASSUME NEW R, NEW S \in SUBSET Frame, NEW n \in Int, Fifo(R, S),
         NEW f \in First(S, R, n), NEW g \in S, f[1] = g[1], g[2] < f[2]
  PROVE  g \in First(S, R, n)
<1> DEFINE Ahead(x) == {y \in S : <<y, x>> \in R}
<1>1. IsFiniteSet(S)
  BY FramesFinite
<1>2. <<g, f>> \in R /\ f \in S
  BY DEF Fifo, First
<1>3. Ahead(g) \subseteq Ahead(f)
  BY <1>2 DEF Fifo
<1>4. Cardinality(Ahead(f)) < n
  BY DEF First
<1>5. IsFiniteSet(Ahead(f))
  BY <1>1, FS_Subset
<1>6. Cardinality(Ahead(g)) <= Cardinality(Ahead(f))
        /\ Cardinality(Ahead(f)) \in Int /\ Cardinality(Ahead(g)) \in Int
  <2> HIDE DEF Ahead
  <2>1. IsFiniteSet(Ahead(g)) /\ Cardinality(Ahead(g)) <= Cardinality(Ahead(f))
    BY <1>3, <1>5, FS_Subset
  <2> QED
    BY <1>5, <2>1, FS_CardinalityType
<1>7. Cardinality(Ahead(g)) < n
  BY <1>4, <1>6
<1> QED
  BY <1>7 DEF First

\* All the queued frames of a source are on one pad.
LEMMA OnePad ==
  ASSUME TypeOK, Routed, NEW p \in pads, NEW q \in pads,
         NEW f \in queue[p], NEW g \in queue[q], f[1] = g[1]
  PROVE  p = q
<1>1. p \in Source /\ q \in Source
  BY DEF TypeOK
<1>2. IndexOf[p] = IndexOf[f[1]] /\ IndexOf[q] = IndexOf[g[1]]
  BY <1>1 DEF Routed
<1> QED
  BY <1>2 DEF Routed

\* A batch takes a prefix of what is queued of each source.
LEMMA PicksPrefix ==
  ASSUME TypeOK, Holding, Routed, Ordered,
         NEW f \in Picks, NEW g \in Queued, f[1] = g[1], g[2] < f[2]
  PROVE  g \in Picks
<1>1. PICK q \in pads : g \in queue[q]
  BY DEF Queued
<1>2. \A p \in pads : f \in queue[p] => p = q
  BY <1>1, OnePad
<1>3. Active \subseteq pads /\ pads \subseteq Source
  BY DEF Active, TypeOK
<1>4. queue[q] \subseteq Frame /\ Queued \subseteq Frame /\ Queued \subseteq Timed
  BY <1>3, TimedFrames DEF TypeOK, Timed
<1>5. Fifo(ahead, queue[q]) /\ Fifo(earlier, Queued) /\ Fifo(earlier, queue[q])
  <2>1. queue[q] \subseteq Queued
    BY DEF Queued
  <2> QED
    BY <1>4, <2>1, FifoKept DEF Ordered
<1>6. ASSUME LiveSource, NEW p \in pads, f \in First(queue[p], ahead, 1)
      PROVE  g \in First(queue[p], ahead, 1)
  <2>1. p = q
    BY <1>2, <1>6, FirstSubset
  <2> QED
    BY <1>1, <1>4, <1>5, <1>6, <2>1, FirstPrefix
<1>7. CASE Policy = "legacy" /\ LiveSource
  <2> DEFINE heads == First({p \in Active : queue[p] # {}}, padOrder, BatchSize)
  <2>1. heads \subseteq pads
    BY <1>3, FirstSubset
  <2>2. Picks = UNION {First(queue[p], ahead, 1) : p \in heads}
    BY <1>7 DEF Picks, LegacyPicks
  <2> HIDE DEF heads
  <2>3. PICK p \in heads : f \in First(queue[p], ahead, 1)
    BY <2>2
  <2> QED
    BY <1>6, <1>7, <2>1, <2>2, <2>3
<1>8. CASE Policy = "legacy" /\ ~LiveSource
  <2> DEFINE of(p) == First(queue[p], earlier, CapPerSource)
             some == UNION {of(p) : p \in Active}
  <2>1. Picks = First(some, earlier, BatchSize)
    BY <1>8 DEF Picks, LegacyPicks
  <2>2. some \subseteq Queued
    BY <1>3, FirstSubset DEF Queued
  <2>3. f \in some
    BY <2>1, FirstSubset
  <2>4. PICK p \in Active : f \in of(p)
    BY <2>3
  <2>5. p = q
    BY <1>2, <1>3, <2>4, FirstSubset
  <2>6. CapPerSource \in Int /\ BatchSize \in Int
    BY MuxAssumption DEF CapPerSource
  <2>7. g \in of(q)
    BY <1>1, <1>4, <1>5, <2>4, <2>5, <2>6, FirstPrefix
  <2>8. g \in some
    BY <2>4, <2>5, <2>7
  <2>9. some \subseteq Frame /\ Fifo(earlier, some)
    BY <1>4, <1>5, <2>2, FifoKept
  <2> HIDE DEF some
  <2> QED
    BY <2>1, <2>6, <2>8, <2>9, FirstPrefix
<1>9. CASE Policy = "new"
  <2> DEFINE room(p) == NewBatchSize - Cardinality(OfferedBefore(p))
  <2>1. Picks = UNION {First(Offer(p), ahead, room(p)) : p \in Active}
    BY <1>9 DEF Picks, NewPicks
  <2>2. PICK p \in Active : f \in First(Offer(p), ahead, room(p))
    BY <2>1
  <2>3. p = q
    BY <1>2, <1>3, <2>2, FirstSubset DEF Offer
  <2>4. NewBatchSize \in Int /\ AllowedRepeats \in Int
    <3>1. Cardinality(Active) \in Int
      BY <1>3, MuxAssumption, FS_Subset, FS_CardinalityType
    <3> QED
      BY <3>1, MuxAssumption DEF NewBatchSize, AllowedRepeats
  <2>5. room(q) \in Int
    <3>1. \A p2 \in Active : Offer(p2) \subseteq Frame
      BY <1>3, FirstSubset DEF Offer, TypeOK
    <3>2. OfferedBefore(q) \subseteq Frame
      BY <3>1 DEF OfferedBefore
    <3>3. Cardinality(OfferedBefore(q)) \in Nat
      BY <3>2, FramesFinite
    <3> QED
      BY <2>4, <3>3
  <2>6. f \in Offer(q) /\ Offer(q) \subseteq queue[q]
    BY <2>2, <2>3, FirstSubset DEF Offer
  <2>7. g \in Offer(q)
    BY <1>1, <1>4, <1>5, <2>4, <2>6, FirstPrefix DEF Offer
  <2>8. Fifo(ahead, Offer(q)) /\ Offer(q) \subseteq Frame
    BY <1>4, <1>5, <2>6, FifoKept
  <2> HIDE DEF room
  <2>9. g \in First(Offer(q), ahead, room(q))
    BY <2>2, <2>3, <2>5, <2>7, <2>8, FirstPrefix
  <2> QED
    BY <2>1, <2>2, <2>3, <2>9
<1> QED
  BY <1>7, <1>8, <1>9, MuxAssumption DEF Picks

-----------------------------------------------------------------------------
(* The orders are kept by every step. *)

Order == Routed /\ Ordered

LEMMA CallingIn == Calling \subseteq InHand
  BY DEF Calling, InHand

LEMMA CallingKept ==
  ASSUME UNCHANGED decoded, \A t \in Source : pc'[t] = "calling" => pc[t] = "calling"
  PROVE  Calling' \subseteq Calling
<1>1. \A t \in Source : pc'[t] = "calling" => Hand(t)' = Hand(t)
  BY DEF Hand
<1> QED
  BY <1>1 DEF Calling

\* The frame of a thread that stops calling is not among the others.
LEMMA CallingLeft ==
  ASSUME UNCHANGED decoded, NEW s \in Source, pc'[s] # "calling",
         \A t \in Source : pc'[t] = "calling" => pc[t] = "calling"
  PROVE  Calling' \subseteq Calling \ {<<s, decoded[s]>>}
<1>1. Calling' \subseteq Calling
  BY CallingKept
<1>2. \A t \in Source : pc'[t] = "calling" => <<s, decoded[s]>> \notin Hand(t)'
  BY DEF Hand
<1>3. <<s, decoded[s]>> \notin Calling'
  BY <1>2 DEF Calling
<1> QED
  BY <1>1, <1>3

\* Frames F leave the mux and nothing enters it.
LEMMA LeaveOrdered ==
  ASSUME Ordered, NEW F, Leave(F), pads' \subseteq pads,
         \A p \in pads' : queue'[p] \subseteq queue[p] \ F,
         Calling' \subseteq Calling \ F
  PROVE  Ordered'
<1>1. ahead' = Forget(ahead, F) /\ earlier' = Forget(earlier, F)
  BY DEF Leave
<1>2. \A p \in pads' : Fifo(ahead', queue'[p])
  BY <1>1, ForgetKeeps DEF Ordered
<1>3. Queued' \subseteq Queued \ F
  BY DEF Queued
<1>4. Timed' \subseteq Timed \ F
  BY <1>3 DEF Timed
<1>5. Fifo(earlier', Timed')
  BY <1>1, <1>4, ForgetKeeps DEF Ordered
<1> QED
  BY <1>2, <1>5 DEF Ordered

LEMMA RoutedKept ==
  ASSUME Routed, pads' \subseteq pads, \A p \in Source : queue'[p] \subseteq queue[p],
         \A t \in Source : pc'[t] = "blocked" => IndexOf[target'[t]] = IndexOf[t]
  PROVE  Routed'
  BY DEF Routed

\* A frame in hand is newer than the queued frames of its source.
LEMMA HandNewest ==
  ASSUME Base, NEW s \in Source, pc[s] \in {"calling", "blocked", "failed"}
  PROVE  /\ <<s, decoded[s]>> \in Frame /\ <<s, decoded[s]>> \in InHand \ Queued
         /\ \A g \in Timed : g # <<s, decoded[s]>> /\ g[1] = s => g[2] < decoded[s]
<1> DEFINE f == <<s, decoded[s]>>
<1>1. f \in Frame /\ f \in InHand /\ f \notin Queued
  BY InHandFrame, HandIn DEF Base, OneOwner
<1>2. \A g \in Queued : g # f /\ g[1] = s => g[2] < decoded[s]
  <2> SUFFICES ASSUME NEW g \in Queued, g # f, g[1] = s PROVE g[2] < decoded[s]
    OBVIOUS
  <2>1. g \in Frame /\ g[2] <= decoded[s]
    BY DEF Base, Past, Decoded
  <2>2. g = <<s, g[2]>> /\ g[2] \in Int
    BY <2>1 DEF Frame
  <2>3. g[2] # decoded[s] /\ decoded[s] \in Int
    BY <2>2 DEF Base, TypeOK
  <2> QED
    BY <2>1, <2>2, <2>3
<1>3. \A g \in Calling : g[1] = s => g = f
  BY DEF Calling, Hand
<1> QED
  BY <1>1, <1>2, <1>3 DEF Timed

\* Appending the frame in hand to a pad of the source's index.
LEMMA EnqueueOrdered ==
  ASSUME Base, Order, NEW s \in Source, NEW p \in Source, NEW out \in SUBSET queue[p],
         p \in pads \/ out = {}, pc[s] \in {"calling", "blocked"},
         IndexOf[p] = IndexOf[s], Enqueue(s, p, out),
         \/ earlier' = Forget(earlier, out) /\ pc[s] = "calling"
         \/ earlier' = Last(earlier, Timed, <<s, decoded[s]>>) /\ out = {},
         UNCHANGED <<pads, decoded, delivered, target>>
  PROVE  Order'
<1> DEFINE f == <<s, decoded[s]>>
<1> USE DEF Base, Order
<1>1. /\ queue' = [queue EXCEPT ![p] = (@ \ out) \cup {f}]
      /\ ahead' = Last(Forget(ahead, out), queue[p] \ out, f)
      /\ pc' = [pc EXCEPT ![s] = "idle"]
  BY DEF Enqueue
<1>2. f \in Frame /\ f \in InHand \ Queued /\ \A g \in Timed : g # f /\ g[1] = s => g[2] < decoded[s]
  BY HandNewest
<1>3. Queued \subseteq Timed /\ Timed \subseteq Frame /\ Queued \subseteq Frame
  BY TimedFrames DEF Timed
<1>4. \A q \in pads : Fifo(ahead', queue'[q])
  <2>1. ASSUME p \in pads PROVE Fifo(ahead', queue'[p])
    <3>1. queue[p] \ out \in SUBSET Frame /\ queue[p] \subseteq Queued
      BY <1>3, <2>1 DEF Queued
    <3>2. Fifo(Forget(ahead, out), queue[p] \ out)
      BY <2>1, ForgetKeeps DEF Ordered
    <3>3. \A g \in queue[p] \ out : g # f /\ g[1] = f[1] => g[2] < f[2]
      BY <1>2, <1>3, <3>1
    <3>4. Fifo(ahead', (queue[p] \ out) \cup {f})
      BY <1>1, <1>2, <3>1, <3>2, <3>3, LastKeeps
    <3> QED
      BY <1>1, <3>4 DEF TypeOK
  <2>2. ASSUME NEW q \in pads, q # p PROVE Fifo(ahead', queue'[q])
    <3>1. queue'[q] = queue[q] /\ f \notin queue[q] /\ queue[q] \cap out = {}
      BY <1>1, <1>2, <2>2 DEF TypeOK, Queued, OneOwner
    <3>2. \A g, h \in queue[q] : <<g, h>> \in ahead' <=> <<g, h>> \in ahead
      BY <1>1, <3>1 DEF Last, Forget
    <3> QED
      BY <3>1, <3>2, FifoKept DEF Ordered
  <2> QED
    BY <2>1, <2>2
<1>5. Fifo(earlier', Timed')
  <2>1. Calling' \subseteq Calling \ {f} /\ Calling \cap Queued = {} /\ Calling \subseteq InHand
    <3>1. pc'[s] # "calling" /\ \A t \in Source : pc'[t] = "calling" => pc[t] = "calling"
      BY <1>1 DEF TypeOK
    <3>2. Calling' \subseteq Calling \ {f}
      BY <3>1, CallingLeft
    <3> QED
      BY <3>2, CallingIn DEF OneOwner
  <2>2. Queued' \subseteq (Queued \ out) \cup {f} /\ (out = {} \/ out \subseteq Queued)
    BY EnqueueOwned DEF Queued
  <2>3. CASE earlier' = Forget(earlier, out) /\ pc[s] = "calling"
    <3>1. f \in Timed /\ f \notin out
      BY <1>2, <2>2, <2>3 DEF Timed, Calling, Hand
    <3>2. Timed' \subseteq Timed \ out
      BY <2>1, <2>2, <3>1 DEF Timed
    <3> QED
      BY <2>3, <3>2, ForgetKeeps DEF Ordered
  <2>4. CASE earlier' = Last(earlier, Timed, f) /\ out = {}
    <3>1. Fifo(Last(earlier, Timed, f), Timed \cup {f})
      BY <1>2, <1>3, LastKeeps DEF Ordered
    <3>2. Timed' \subseteq Timed \cup {f}
      BY <2>1, <2>2 DEF Timed
    <3> QED
      BY <2>4, <3>1, <3>2, FifoKept
  <2> QED
    BY <2>3, <2>4
<1>6. Routed'
  <2>1. \A q \in Source : \A g \in queue'[q] : g \in queue[q] \/ (q = p /\ g = f)
    BY <1>1 DEF TypeOK
  <2>2. \A t \in Source : pc'[t] = "blocked" => pc[t] = "blocked"
    BY <1>1 DEF TypeOK
  <2> QED
    BY <2>1, <2>2 DEF Routed
<1> QED
  BY <1>4, <1>5, <1>6 DEF Ordered

\* The frame in hand leaves, or starts to wait.
LEMMA HandOrdered ==
  ASSUME Base, Order, NEW s \in Source, pc[s] \in {"calling", "blocked"},
         NEW to \in {"idle", "blocked", "failed"}, pc' = [pc EXCEPT ![s] = to],
         Leave({<<s, decoded[s]>>}), UNCHANGED <<pads, queue, decoded>>,
         \A t \in Source : pc'[t] = "blocked" => IndexOf[target'[t]] = IndexOf[t]
  PROVE  Order'
<1>1. \A p \in pads : queue'[p] \subseteq queue[p] \ {<<s, decoded[s]>>}
  BY HandNewest DEF Queued
<1>2. Calling' \subseteq Calling \ {<<s, decoded[s]>>}
  <2>1. pc'[s] # "calling" /\ \A t \in Source : pc'[t] = "calling" => pc[t] = "calling"
    BY DEF Base, TypeOK
  <2> QED
    BY <2>1, CallingLeft
<1> QED
  BY <1>1, <1>2, LeaveOrdered, RoutedKept DEF Order

LEMMA StepOrdered ==
  ASSUME Base, Order, [Next]_vars
  PROVE  Order'
<1> USE DEF Base, Order
<1>1. ASSUME NEW s \in Source, AddPad(s) PROVE Order'
  <2>1. /\ pads' = pads \cup {s} /\ pc' = [pc EXCEPT ![s] = "idle"]
        /\ UNCHANGED <<queue, ahead, earlier, decoded, target>>
    BY <1>1 DEF AddPad, order
  <2>2. queue[s] = {} /\ \A p \in pads : IndexOf[p] # IndexOf[s]
    BY <1>1 DEF AddPad, Created, Lookup
  <2>3. Routed'
    BY <2>1, <2>2 DEF Routed, TypeOK
  <2>4. \A p \in pads' : Fifo(ahead', queue'[p])
    BY <2>1, <2>2 DEF Ordered, Fifo
  <2>5. Queued' = Queued
    BY <2>1, <2>2 DEF Queued
  <2>6. Calling' \subseteq Calling
    <3>1. \A t \in Source : pc'[t] = "calling" => pc[t] = "calling"
      BY <2>1 DEF TypeOK
    <3> QED
      BY <2>1, <3>1, CallingKept
  <2>7. Timed' \subseteq Timed
    BY <2>5, <2>6 DEF Timed
  <2>8. Fifo(earlier', Timed')
    BY <2>1, <2>7, FifoKept DEF Ordered
  <2> QED
    BY <2>3, <2>4, <2>8 DEF Ordered
<1>2. ASSUME NEW s \in Source, RemovePad(s) PROVE Order'
  <2>1. /\ s \in pads /\ pads' = pads \ {s} /\ Leave(queue[s])
        /\ UNCHANGED <<queue, pc, decoded, target>>
    BY <1>2 DEF RemovePad, threads
  <2>2. \A p \in pads' : queue'[p] \subseteq queue[p] \ queue[s]
    BY <2>1 DEF OneOwner
  <2>3. Calling' = Calling /\ Calling \subseteq InHand
    BY <2>1 DEF Calling, Hand, InHand
  <2>4. Calling' \subseteq Calling \ queue[s]
    BY <2>1, <2>3 DEF OneOwner, Queued
  <2>5. Ordered'
    BY <2>1, <2>2, <2>4, LeaveOrdered
  <2>6. Routed'
    BY <2>1, RoutedKept DEF Routed
  <2> QED
    BY <2>5, <2>6
<1>3. ASSUME NEW s \in Source, Call(s) PROVE Order'
  <2> DEFINE f == <<s, decoded[s] + 1>>
  <2>1. /\ earlier' = Last(earlier, Timed, f) /\ pc' = [pc EXCEPT ![s] = "calling"]
        /\ decoded' = [decoded EXCEPT ![s] = @ + 1]
        /\ pc[s] = "idle" /\ decoded[s] < MaxFrames
        /\ UNCHANGED <<pads, queue, ahead, target>>
    BY <1>3 DEF Call, padState, TypeOK
  <2>2. f \in Frame
    BY <2>1, MuxAssumption DEF Frame, TypeOK
  <2>3. Timed \subseteq Frame /\ \A g \in Timed : g[1] = s => g[2] < f[2]
    <3>1. Timed \subseteq Decoded
      BY OwnedDecoded DEF Timed, Calling, InHand, Past
    <3> QED
      BY <3>1 DEF Decoded, TypeOK, Frame
  <2>4. Fifo(earlier', Timed \cup {f})
    BY <2>1, <2>2, <2>3, LastKeeps DEF Ordered
  <2>5. Calling' \subseteq Calling \cup {f}
    <3>1. \A t \in Source : t # s => Hand(t)' = Hand(t)
      BY <2>1 DEF TypeOK, Hand
    <3>2. Hand(s)' = {f}
      BY <2>1 DEF TypeOK, Hand
    <3>3. \A t \in Source : pc'[t] = "calling" => t = s \/ pc[t] = "calling"
      BY <2>1 DEF TypeOK
    <3> QED
      BY <3>1, <3>2, <3>3 DEF Calling
  <2>6. Queued' = Queued
    BY <2>1 DEF Queued
  <2>7. Timed' \subseteq Timed \cup {f}
    BY <2>5, <2>6 DEF Timed
  <2>8. Fifo(earlier', Timed')
    BY <2>4, <2>7, FifoKept
  <2>9. Routed'
    BY <2>1, RoutedKept DEF Routed, TypeOK
  <2> QED
    BY <2>1, <2>8, <2>9 DEF Ordered
<1>4. ASSUME NEW s \in Source, Raise(s) \/ PushRefused(s) PROVE Order'
  <2>1. /\ pc[s] = "calling" /\ Leave({<<s, decoded[s]>>})
        /\ UNCHANGED <<pads, queue, decoded, target>>
        /\ \E to \in {"idle", "failed"} : pc' = [pc EXCEPT ![s] = to]
    BY <1>4 DEF Raise, PushRefused, Refuse, padState
  <2>2. \A t \in Source : pc'[t] = "blocked" => IndexOf[target'[t]] = IndexOf[t]
    BY <2>1 DEF Routed, TypeOK
  <2> QED
    BY <2>1, <2>2, HandOrdered
<1>5. ASSUME NEW s \in Source, Push(s) PROVE Order'
  <2>1. pc[s] = "calling" /\ UNCHANGED <<pads, decoded, delivered>>
    BY <1>5 DEF Push, padState
  <2>2. PICK p \in Lookup(IndexOf[s]) :
          /\ p \in pads /\ p \in Source
          /\ \/ \E out \in SUBSET queue[p] :
                  /\ Enqueue(s, p, out) /\ UNCHANGED target
                  /\ earlier' = Forget(earlier, out)
             \/ /\ pc' = [pc EXCEPT ![s] = "blocked"]
                /\ target' = [target EXCEPT ![s] = p]
                /\ Leave({<<s, decoded[s]>>})
                /\ UNCHANGED <<queue, released>>
             \/ Refuse(s) /\ UNCHANGED target
    BY <1>5, PushCases
  <2>3. IndexOf[p] = IndexOf[s]
    BY DEF Lookup
  <2>4. ASSUME NEW out \in SUBSET queue[p], Enqueue(s, p, out), UNCHANGED target,
               earlier' = Forget(earlier, out)
        PROVE  Order'
    BY <2>1, <2>2, <2>3, <2>4, EnqueueOrdered
  <2>5. ASSUME pc' = [pc EXCEPT ![s] = "blocked"], target' = [target EXCEPT ![s] = p],
               Leave({<<s, decoded[s]>>}), UNCHANGED queue
        PROVE  Order'
    <3>1. \A t \in Source : pc'[t] = "blocked" => IndexOf[target'[t]] = IndexOf[t]
      BY <2>2, <2>3, <2>5 DEF Routed, TypeOK
    <3> QED
      BY <2>1, <2>5, <3>1, HandOrdered
  <2>6. ASSUME Refuse(s), UNCHANGED target PROVE Order'
    <3>1. \A t \in Source : pc'[t] = "blocked" => IndexOf[target'[t]] = IndexOf[t]
      BY <2>6 DEF Routed, TypeOK, Refuse
    <3> QED
      BY <2>1, <2>6, <3>1, HandOrdered DEF Refuse
  <2> QED
    BY <2>2, <2>4, <2>5, <2>6
<1>6. ASSUME NEW s \in Source, Resume(s) PROVE Order'
  <2>1. /\ pc[s] = "blocked" /\ target[s] \in Source
        /\ UNCHANGED <<pads, decoded, delivered, target>>
        /\ \/ Refuse(s)
           \/ /\ Enqueue(s, target[s], {})
              /\ earlier' = Last(earlier, Timed, <<s, decoded[s]>>)
    BY <1>6 DEF Resume, padState, TypeOK
  <2>2. IndexOf[target[s]] = IndexOf[s]
    BY <2>1 DEF Routed
  <2>3. CASE Refuse(s)
    <3>1. \A t \in Source : pc'[t] = "blocked" => IndexOf[target'[t]] = IndexOf[t]
      BY <2>1, <2>3 DEF Routed, TypeOK, Refuse
    <3> QED
      BY <2>1, <2>3, <3>1, HandOrdered DEF Refuse
  <2>4. CASE /\ Enqueue(s, target[s], {})
             /\ earlier' = Last(earlier, Timed, <<s, decoded[s]>>)
    BY <2>1, <2>2, <2>4, EnqueueOrdered
  <2> QED
    BY <2>1, <2>3, <2>4
<1>7. ASSUME NEW s \in Source, PushEos(s) PROVE Order'
  <2>1. /\ pc' = [pc EXCEPT ![s] = "done"]
        /\ UNCHANGED <<pads, queue, ahead, earlier, decoded, target>>
    BY <1>7 DEF PushEos, order
  <2>2. Timed' \subseteq Timed
    <3>1. \A t \in Source : pc'[t] = "calling" => pc[t] = "calling"
      BY <2>1 DEF TypeOK
    <3>2. Calling' \subseteq Calling
      BY <2>1, <3>1, CallingKept
    <3> QED
      BY <2>1, <3>2 DEF Timed, Queued
  <2>3. Fifo(earlier', Timed')
    BY <2>1, <2>2, FifoKept DEF Ordered
  <2> QED
    BY <2>1, <2>3 DEF Ordered, Routed, TypeOK
<1>8. CASE Poll
  <2>1. PICK batch \in {{}, Picks} : Emit(batch)
    BY <1>8, PollOwned
  <2>2. /\ Leave(batch) /\ UNCHANGED <<pads, pc, decoded, target>>
        /\ \A p \in pads : queue'[p] = queue[p] \ batch
        /\ \A p \in Source : queue'[p] \subseteq queue[p]
    BY <1>8, <2>1 DEF Poll, Emit, threads, TypeOK
  <2>3. Calling' = Calling /\ Calling \subseteq InHand
    BY <2>2 DEF Calling, Hand, InHand
  <2>4. batch \subseteq Queued
    BY PicksQueued
  <2>5. Calling' \subseteq Calling \ batch
    BY <2>3, <2>4 DEF OneOwner
  <2>6. Ordered'
    BY <2>2, <2>5, LeaveOrdered
  <2> QED
    BY <2>2, <2>6, RoutedKept DEF Routed
<1>9. CASE Tick \/ Stop \/ Start \/ UNCHANGED vars
  <2>1. UNCHANGED <<pads, queue, ahead, earlier, pc, decoded, target>>
    BY <1>9 DEF Tick, Stop, Start, vars, padState, order, threads
  <2> QED
    BY <2>1 DEF Ordered, Routed, Timed, Queued, Calling, Hand
<1> QED
  BY <1>1, <1>2, <1>3, <1>4, <1>5, <1>6, <1>7, <1>8, <1>9 DEF Next

LEMMA InitOrdered == Init => Order
<1> SUFFICES ASSUME Init PROVE Order
  OBVIOUS
<1>1. Queued = {} /\ Calling = {}
  BY MuxAssumption DEF Init, Queued, Calling, Hand
<1>2. Routed
  BY MuxAssumption DEF Init, Routed
<1>3. Ordered
  BY <1>1, MuxAssumption DEF Init, Ordered, Timed, Fifo
<1> QED
  BY <1>2, <1>3 DEF Order

\* A batch is older than all that stays, source by source.
LEMMA BatchOldest ==
  ASSUME Base, Order, NEW batch \in {{}, Picks}, NEW f \in batch,
         NEW g \in Present \ batch, f[1] = g[1]
  PROVE  f[2] < g[2]
<1> USE DEF Base
<1>1. f \in Queued
  BY PicksQueued
<1>2. CASE g \in InHand
  <2>1. PICK s \in Source : g \in Hand(s)
    BY <1>2 DEF InHand
  <2>2. g = <<s, decoded[s]>> /\ pc[s] \in {"calling", "blocked", "failed"}
    BY <2>1 DEF Hand
  <2>3. f \in Timed /\ f # g
    BY <1>1, <1>2 DEF Timed, OneOwner
  <2> QED
    BY <2>2, <2>3, HandNewest
<1>3. CASE g \in Queued
  <2>1. f \in Frame /\ g \in Frame /\ f # g
    BY <1>1, <1>3, TimedFrames
  <2>2. f[2] # g[2] /\ f[2] \in Int /\ g[2] \in Int
    BY <2>1 DEF Frame
  <2>3. ~(g[2] < f[2])
    BY <1>3, PicksPrefix DEF Order
  <2> QED
    BY <2>2, <2>3
<1> QED
  BY <1>2, <1>3 DEF Present

LEMMA StepInOrder ==
  ASSUME Base, Order, InOrder, [Next]_vars
  PROVE  InOrder'
<1> USE DEF Base
<1>1. ASSUME delivered' = delivered, Present' \subseteq Present PROVE InOrder'
  BY <1>1 DEF InOrder
<1>2. ASSUME NEW s \in Source, RemovePad(s) PROVE InOrder'
  <2>1. delivered' = delivered
    BY <1>2 DEF RemovePad
  <2> QED
    BY <1>1, <1>2, <2>1, RemoveOwned DEF Present
<1>3. ASSUME NEW s \in Source, Call(s) PROVE InOrder'
  <2>1. delivered' = delivered
    BY <1>3 DEF Call
  <2>2. Present' = Present \cup {<<s, decoded[s] + 1>>}
    BY <1>3, CallOwned DEF Present
  <2>3. \A f \in delivered : f[1] = s => f[2] < decoded[s] + 1
    BY DEF Past, Decoded, TypeOK, Frame
  <2> QED
    BY <2>1, <2>2, <2>3 DEF InOrder
<1>4. ASSUME NEW s \in Source, PushRefused(s) PROVE InOrder'
  <2>1. pc[s] = "calling" /\ UNCHANGED <<pads, decoded, delivered>>
    BY <1>4 DEF PushRefused, padState
  <2> QED
    BY <1>1, <1>4, <2>1, RefuseOwned DEF PushRefused, Present
<1>5. ASSUME NEW s \in Source, Push(s) PROVE InOrder'
  <2>1. /\ pc[s] = "calling" /\ UNCHANGED <<pads, decoded, delivered>>
        /\ <<s, decoded[s]>> \in InHand
    BY <1>5, HandIn DEF Push, padState
  <2>2. PICK p \in Lookup(IndexOf[s]) :
          /\ p \in pads /\ p \in Source
          /\ \/ \E out \in SUBSET queue[p] : Enqueue(s, p, out)
             \/ pc' = [pc EXCEPT ![s] = "blocked"] /\ UNCHANGED <<queue, released>>
             \/ Refuse(s)
    BY <1>5, PushCases
  <2>3. ASSUME NEW out \in SUBSET queue[p], Enqueue(s, p, out) PROVE InOrder'
    <3>1. Present' \subseteq Present
      BY <2>1, <2>2, <2>3, EnqueueOwned DEF Present
    <3> QED
      BY <1>1, <2>1, <3>1
  <2>4. CASE pc' = [pc EXCEPT ![s] = "blocked"] /\ UNCHANGED <<queue, released>>
    <3>1. InHand' = InHand /\ Queued' = Queued
      BY <2>1, <2>4, HandOf DEF Queued
    <3> QED
      BY <1>1, <2>1, <3>1 DEF Present
  <2>5. CASE Refuse(s)
    BY <1>1, <2>1, <2>5, RefuseOwned DEF Present
  <2> QED
    BY <2>2, <2>3, <2>4, <2>5
<1>6. ASSUME NEW s \in Source, Resume(s) PROVE InOrder'
  <2>1. /\ pc[s] = "blocked" /\ target[s] \in Source /\ <<s, decoded[s]>> \in InHand
        /\ UNCHANGED <<pads, decoded, delivered>>
        /\ Refuse(s) \/ Enqueue(s, target[s], {})
    BY <1>6, HandIn DEF Resume, padState, TypeOK
  <2>2. CASE Refuse(s)
    BY <1>1, <2>1, <2>2, RefuseOwned DEF Present
  <2>3. CASE Enqueue(s, target[s], {})
    <3>1. Present' \subseteq Present
      BY <2>1, <2>3, EnqueueOwned DEF Present
    <3> QED
      BY <1>1, <2>1, <3>1
  <2> QED
    BY <2>1, <2>2, <2>3
<1>7. CASE Poll
  <2>1. PICK batch \in {{}, Picks} : Queued' = Queued \ batch /\ delivered' = delivered \cup batch
    BY <1>7, PollOwned
  <2>2. InHand' = InHand /\ batch \subseteq Queued
    BY <1>7, PollOwned, PicksQueued
  <2> QED
    BY <2>1, <2>2, BatchOldest DEF InOrder, Present, OneOwner
<1>8. CASE \/ \E s \in Source : AddPad(s) \/ Raise(s) \/ PushEos(s)
           \/ Tick \/ Stop \/ Start \/ UNCHANGED vars
  BY <1>1, <1>8, StillOwned DEF Present
<1> QED
  BY <1>2, <1>3, <1>4, <1>5, <1>6, <1>7, <1>8 DEF Next

\* The batches never reorder the frames of one source: what the consumer has
\* is older than all that is queued or on its way, for both policies, with
\* live and with file sources, and across a wait for room.
THEOREM InOrderAlways == Spec => []InOrder
<1>1. Init => Order /\ InOrder
  BY InitOrdered DEF Init, InOrder
<1>2. Base /\ Order /\ InOrder /\ [Next]_vars => Order' /\ InOrder'
  BY StepOrdered, StepInOrder
<1> QED
  BY <1>1, <1>2, BaseHolds, PTL DEF Spec

-----------------------------------------------------------------------------
(* End of stream. *)

\* A pad gets its EOS from the thread of its source, which has ended then; the
\* EOS is passed on when the pad is drained, and only then told.
Ending ==
  /\ \A s \in Source : eosPending[s] \/ eos[s] => pc[s] = "done"
  /\ \A s \in Source : eos[s] => queue[s] = {}
  /\ \A s \in Source : "stream-eos" \in told[s] <=> eos[s]
  /\ \A s \in Source : <<"stream-eos", s>> \notin pending

LEMMA EnqueueEnding ==
  ASSUME IndexNotReused, TypeOK, Ending, NEW s \in Source, NEW p \in Source, NEW out,
         IndexOf[p] = IndexOf[s], pc[s] \in {"calling", "blocked"}, Enqueue(s, p, out),
         UNCHANGED <<eosPending, eos, told>>, <<"stream-eos", s>> \notin pending',
         \A t \in Source \ {s} : <<"stream-eos", t>> \in pending' => <<"stream-eos", t>> \in pending
  PROVE  Ending'
<1>1. p = s
  BY DEF IndexNotReused
<1>2. ~eos[s] /\ ~eosPending[s]
  BY DEF Ending
<1>3. \A t \in Source : t # s => pc'[t] = pc[t] /\ queue'[t] = queue[t]
  BY <1>1 DEF Enqueue, TypeOK
<1> QED
  BY <1>2, <1>3 DEF Ending

LEMMA StepEnding ==
  ASSUME IndexNotReused, Base, Order, Ending, [Next]_vars
  PROVE  Ending'
<1> USE DEF Base, Order
<1>1. ASSUME NEW s \in Source, AddPad(s) \/ RemovePad(s) PROVE Ending'
  <2>1. /\ \A t \in Source : pc'[t] = "done" <=> pc[t] = "done"
        /\ UNCHANGED <<queue, eosPending, eos, told>>
    BY <1>1 DEF AddPad, RemovePad, threads, TypeOK
  <2>2. \E k \in {"pad-added", "pad-deleted"} : pending' = pending \cup {<<k, s>>}
    BY <1>1 DEF AddPad, RemovePad
  <2> QED
    BY <2>1, <2>2 DEF Ending
<1>2. ASSUME NEW s \in Source, Call(s) \/ Raise(s) \/ PushRefused(s) PROVE Ending'
  <2>1. /\ pc[s] # "done" /\ \A t \in Source : t # s => pc'[t] = pc[t]
        /\ UNCHANGED <<queue, eosPending, eos, pending, told>>
    BY <1>2 DEF Call, Raise, PushRefused, Refuse, padState, TypeOK
  <2> QED
    BY <2>1 DEF Ending
<1>3. ASSUME NEW s \in Source, Push(s) PROVE Ending'
  <2>1. /\ pc[s] = "calling" /\ UNCHANGED <<eosPending, eos, told>>
        /\ \A t \in Source : <<"stream-eos", t>> \notin pending'
    BY <1>3 DEF Push, padState, Announce, Ending
  <2>2. PICK p \in Lookup(IndexOf[s]) :
          /\ p \in Source
          /\ \/ \E out \in SUBSET queue[p] : Enqueue(s, p, out)
             \/ pc' = [pc EXCEPT ![s] = "blocked"] /\ UNCHANGED queue
             \/ Refuse(s)
    BY <1>3, PushCases
  <2>3. CASE \E out \in SUBSET queue[p] : Enqueue(s, p, out)
    BY <2>1, <2>2, <2>3, EnqueueEnding DEF Lookup
  <2>4. ASSUME UNCHANGED queue, \A t \in Source : t # s => pc'[t] = pc[t] PROVE Ending'
    BY <2>1, <2>4 DEF Ending
  <2>5. CASE pc' = [pc EXCEPT ![s] = "blocked"] /\ UNCHANGED queue
    BY <2>4, <2>5 DEF TypeOK
  <2>6. CASE Refuse(s)
    BY <2>4, <2>6 DEF Refuse, TypeOK
  <2> QED
    BY <2>2, <2>3, <2>5, <2>6
<1>4. ASSUME NEW s \in Source, Resume(s) PROVE Ending'
  <2>1. /\ pc[s] = "blocked" /\ target[s] \in Source
        /\ UNCHANGED <<eosPending, eos, told, pending>>
        /\ Refuse(s) \/ Enqueue(s, target[s], {})
    BY <1>4 DEF Resume, padState, TypeOK
  <2>2. CASE Refuse(s)
    <3>1. UNCHANGED queue /\ \A t \in Source : t # s => pc'[t] = pc[t]
      BY <2>2 DEF Refuse, TypeOK
    <3> QED
      BY <2>1, <3>1 DEF Ending
  <2>3. CASE Enqueue(s, target[s], {})
    <3>1. IndexOf[target[s]] = IndexOf[s]
      BY <2>1 DEF Routed
    <3>2. \A t \in Source : <<"stream-eos", t>> \notin pending'
      BY <2>1 DEF Ending
    <3> QED
      BY <2>1, <2>3, <3>1, <3>2, EnqueueEnding
  <2> QED
    BY <2>1, <2>2, <2>3
<1>5. ASSUME NEW s \in Source, PushEos(s) PROVE Ending'
  <2>1. \A p \in Lookup(IndexOf[s]) : p = s
    BY DEF Lookup, IndexNotReused, TypeOK
  <2>2. /\ \A t \in Source : eosPending'[t] => t = s \/ eosPending[t]
        /\ \A t \in Source : pc'[t] = IF t = s THEN "done" ELSE pc[t]
        /\ UNCHANGED <<queue, eos, told, pending>>
    BY <1>5, <2>1 DEF PushEos, TypeOK
  <2> QED
    BY <2>2 DEF Ending
<1>6. CASE Poll
  <2>1. PICK batch \in {{}, Picks} : Emit(batch)
    BY <1>6, PollOwned
  <2>2. \A p \in Source :
          /\ eos'[p] = (eos[p] \/ Drained(p, batch))
          /\ eosPending'[p] => eosPending[p]
          /\ queue'[p] \subseteq queue[p] /\ (p \in pads => queue'[p] = queue[p] \ batch)
          /\ told'[p] = told[p] \cup Flushed(p, batch)
          /\ pc'[p] = pc[p]
    BY <1>6, <2>1 DEF Poll, Emit, threads, TypeOK
  <2>3. \A p \in Source : Drained(p, batch)
                            => p \in pads /\ eosPending[p] /\ queue[p] \ batch = {}
    BY DEF Drained
  <2>4. \A p \in Source : "stream-eos" \in Flushed(p, batch) <=> Drained(p, batch)
    BY DEF Flushed, Ending
  <2>5. pending' = {}
    BY <2>1 DEF Emit
  <2> QED
    BY <2>2, <2>3, <2>4, <2>5 DEF Ending
<1>7. CASE Tick \/ Stop \/ Start \/ UNCHANGED vars
  <2>1. UNCHANGED <<queue, eosPending, eos, told, pending, pc>>
    BY <1>7 DEF Tick, Stop, Start, vars, padState, threads
  <2> QED
    BY <2>1 DEF Ending
<1> QED
  BY <1>1, <1>2, <1>3, <1>4, <1>5, <1>6, <1>7 DEF Next

LEMMA OrderHolds == Spec => []Order
<1>1. Base /\ Order /\ [Next]_vars => Order'
  BY StepOrdered
<1> QED
  BY <1>1, InitOrdered, BaseHolds, PTL DEF Spec

LEMMA EndingHolds == IndexNotReused /\ Spec => []Ending
<1> SUFFICES ASSUME IndexNotReused PROVE Spec => []Ending
  OBVIOUS
<1>1. Init => Ending
  BY MuxAssumption DEF Init, Ending
<1>2. Base /\ Order /\ Ending /\ [Next]_vars => Ending'
  BY StepEnding
<1> QED
  BY <1>1, <1>2, BaseHolds, OrderHolds, PTL DEF Spec

\* A source that reached its end has nothing left in the mux.
LEMMA EndedIsEmpty ==
  ASSUME IndexNotReused, Base, Order, Ending, NEW s \in Source, eos[s]
  PROVE  \A f \in Present : f[1] # s
<1> USE DEF Base, Order
<1>1. pc[s] = "done" /\ queue[s] = {}
  BY DEF Ending
<1>2. \A f \in InHand : f[1] # s
  BY <1>1 DEF InHand, Hand
<1>3. \A f \in Queued : f[1] # s
  <2> SUFFICES ASSUME NEW p \in pads, NEW f \in queue[p], f[1] = s PROVE FALSE
    BY DEF Queued
  <2>1. IndexOf[p] = IndexOf[s] /\ p \in Source
    BY DEF Routed, TypeOK
  <2> QED
    BY <1>1, <2>1 DEF IndexNotReused
<1> QED
  BY <1>2, <1>3 DEF Present

\* stream-eos is the last the consumer hears of a source: no frame of it is in
\* the mux or on its way when it is told, or ever after.
THEOREM EosIsLast == IndexNotReused /\ Spec => []EosLast
<1> SUFFICES ASSUME IndexNotReused PROVE Spec => []EosLast
  OBVIOUS
<1>1. Base /\ Order /\ Ending => EosLast
  BY EndedIsEmpty DEF EosLast, Ending
<1> QED
  BY <1>1, BaseHolds, OrderHolds, EndingHolds, PTL

-----------------------------------------------------------------------------
(* Overflow drops the oldest. *)

\* What makes room on a pad is older than the rest of its source there.
LEMMA OverflowOldest ==
  ASSUME TypeOK, Ordered, NEW p \in pads, NEW f \in Overflow(p),
         NEW g \in queue[p] \ Overflow(p), f[1] = g[1]
  PROVE  f[2] < g[2]
<1>1. queue[p] \subseteq Frame /\ Fifo(ahead, queue[p]) /\ f \in queue[p]
  BY FirstSubset DEF TypeOK, Ordered, Overflow
<1>2. ~(g[2] < f[2])
  BY <1>1, FirstPrefix DEF Overflow
<1>3. f[2] \in Int /\ g[2] \in Int /\ f[2] # g[2]
  BY <1>1 DEF Frame
<1> QED
  BY <1>2, <1>3

\* The frame in hand comes after all that was closed of its source.
LEMMA HandAfterReleased ==
  ASSUME Base, NEW s \in Source, pc[s] \in {"calling", "blocked", "failed"},
         NEW f \in released, f[1] = s
  PROVE  f[2] < decoded[s]
<1>1. f \in Frame /\ f[2] <= decoded[s] /\ f # <<s, decoded[s]>>
  BY HandIn DEF Base, Past, Decoded, OneOwner
<1>2. f = <<s, f[2]>> /\ f[2] \in Int /\ decoded[s] \in Int
  BY <1>1 DEF Frame, Base, TypeOK
<1> QED
  BY <1>1, <1>2

\* A push that drops the frames out, none or those that make room.
LEMMA EnqueueFresh ==
  ASSUME Base, Order, FreshestKept, NEW s \in Source, pc[s] = "calling",
         NEW p \in pads, NEW out \in {{}, Overflow(p)},
         Enqueue(s, p, out), UNCHANGED <<pads, decoded, delivered>>
  PROVE  FreshestKept'
<1> DEFINE x == <<s, decoded[s]>>
<1> USE DEF Base, Order
<1>1. p \in Source /\ out \in SUBSET queue[p]
  BY FirstSubset DEF TypeOK, Overflow
<1>2. released' = released \cup out /\ Queued' = (Queued \ out) \cup {x}
  BY <1>1, EnqueueOwned
<1>3. \A f \in released : f[1] = s => f[2] < decoded[s]
  BY HandAfterReleased
<1>4. \A f \in out : f[1] = s => f[2] < decoded[s]
  <2>1. out \subseteq Timed /\ x \notin out
    BY <1>1, HandNewest DEF Timed, Queued
  <2> QED
    BY <2>1, HandNewest
<1>5. ASSUME NEW f \in out, NEW g \in Queued \ out, f[1] = g[1] PROVE f[2] < g[2]
  <2>1. PICK q \in pads : g \in queue[q]
    BY <1>5 DEF Queued
  <2>2. q = p
    BY <1>1, <1>5, <2>1, OnePad
  <2> QED
    BY <1>5, <2>1, <2>2, OverflowOldest
<1> QED
  BY <1>2, <1>3, <1>4, <1>5 DEF FreshestKept

LEMMA StepFresh ==
  ASSUME IndexNotReused, ~BlockWhenFull, Base, Order, Ending, Unblocked, FreshestKept,
         [Next]_vars
  PROVE  FreshestKept'
<1> USE DEF Base, Order
<1>1. ASSUME Queued' \subseteq Queued, released' = released PROVE FreshestKept'
  BY <1>1 DEF FreshestKept
<1>2. ASSUME NEW s \in Source, RemovePad(s) PROVE FreshestKept'
  <2>1. s \in pads /\ released' = released \cup queue[s] /\ Queued' = Queued \ queue[s]
    BY <1>2, RemoveOwned DEF RemovePad
  <2>2. \A f \in queue[s], g \in Queued : f[1] = g[1] => g \in queue[s]
    BY <2>1, OnePad DEF Queued
  <2> QED
    BY <2>1, <2>2 DEF FreshestKept
<1>3. ASSUME NEW s \in Source, Call(s) PROVE FreshestKept'
  BY <1>1, <1>3, CallOwned DEF Call
<1>4. \A s \in Source : ~PushRefused(s)
  <2> SUFFICES ASSUME NEW s \in Source, PushRefused(s) PROVE FALSE
    OBVIOUS
  <2>1. pc[s] = "calling" /\ (eosPending[s] \/ eos[s])
    BY DEF PushRefused, Lookup, IndexNotReused, TypeOK
  <2> QED
    BY <2>1 DEF Ending
<1>5. ASSUME NEW s \in Source, Push(s) PROVE FreshestKept'
  <2>1. pc[s] = "calling" /\ UNCHANGED <<pads, decoded, delivered>>
    BY <1>5 DEF Push, padState
  <2>2. PICK p \in Lookup(IndexOf[s]) : Enqueue(s, p, {}) \/ Enqueue(s, p, Overflow(p))
    BY <1>5 DEF Push
  <2> QED
    BY <2>1, <2>2, EnqueueFresh DEF Lookup
<1>6. \A s \in Source : ~Resume(s)
  BY DEF Resume, Unblocked
<1>7. CASE Poll
  BY <1>1, <1>7, PollOwned
<1>8. CASE \/ \E s \in Source : AddPad(s) \/ Raise(s) \/ PushEos(s)
           \/ Tick \/ Stop \/ Start \/ UNCHANGED vars
  BY <1>1, <1>8, StillOwned
<1> QED
  BY <1>2, <1>3, <1>4, <1>5, <1>6, <1>7, <1>8 DEF Next

\* Without blocking pushes, and where an index is used for one pad object only,
\* every frame that was closed is older than all that is queued of its source:
\* a full queue gives up its oldest frame and a pad closes all of them.
THEOREM FreshestIsKept == IndexNotReused /\ ~BlockWhenFull /\ Spec => []FreshestKept
<1> SUFFICES ASSUME IndexNotReused, ~BlockWhenFull PROVE Spec => []FreshestKept
  OBVIOUS
<1>1. Init => Unblocked /\ FreshestKept
  BY MuxAssumption DEF Init, Unblocked, FreshestKept
<1>2. Base /\ Order /\ Ending /\ Unblocked /\ FreshestKept /\ [Next]_vars
        => Unblocked' /\ FreshestKept'
  BY StepUnblocked, StepFresh DEF Base
<1> QED
  BY <1>1, <1>2, BaseHolds, OrderHolds, EndingHolds, PTL DEF Spec

-----------------------------------------------------------------------------
(* The slots of a batch: places in a linear order. *)

\* R is a strict linear order of S.
Linear(R, S) ==
  /\ \A x \in S : <<x, x>> \notin R
  /\ \A x, y \in S : x = y \/ <<x, y>> \in R \/ <<y, x>> \in R
  /\ \A x, y, z \in S : <<x, y>> \in R /\ <<y, z>> \in R => <<x, z>> \in R

LEMMA LinearKept ==
  ASSUME NEW R, NEW S, NEW Q, NEW T \in SUBSET S, Linear(R, S),
         \A x, y \in T : <<x, y>> \in Q <=> <<x, y>> \in R
  PROVE  Linear(Q, T)
  BY DEF Linear

LEMMA ForgetLinear ==
  ASSUME NEW R, NEW S, NEW F, NEW T \in SUBSET (S \ F), Linear(R, S)
  PROVE  Linear(Forget(R, F), T)
<1>1. \A x, y \in T : <<x, y>> \in Forget(R, F) <=> <<x, y>> \in R
  BY DEF Forget
<1> QED
  BY <1>1, LinearKept

LEMMA LastLinear ==
  ASSUME NEW R, NEW S, NEW x, Linear(R, S)
  PROVE  Linear(Last(R, S, x), S \cup {x})
<1> DEFINE L == Last(R, S, x)
<1>1. \A y, z \in S \cup {x} : /\ z = x => (<<y, z>> \in L <=> y # x)
                               /\ z # x => (<<y, z>> \in L <=> y # x /\ <<y, z>> \in R)
  BY DEF Last
<1> HIDE DEF L
<1>2. \A y \in S \cup {x} : <<y, y>> \notin L
  BY <1>1 DEF Linear
<1>3. \A y, z \in S \cup {x} : y = z \/ <<y, z>> \in L \/ <<z, y>> \in L
  BY <1>1 DEF Linear
<1>4. \A w, y, z \in S \cup {x} : <<w, y>> \in L /\ <<y, z>> \in L => <<w, z>> \in L
  BY <1>1 DEF Linear
<1> QED
  BY <1>2, <1>3, <1>4 DEF L, Linear

\* The place of an element: how many come before it.
Place(R, S, x) == Cardinality({y \in S : <<y, x>> \in R})

LEMMA PlaceRange ==
  ASSUME NEW R, NEW S, IsFiniteSet(S), Linear(R, S), NEW x \in S
  PROVE  Cardinality(S) \in Nat /\ Place(R, S, x) \in 0 .. Cardinality(S) - 1
<1> DEFINE T == {y \in S : <<y, x>> \in R}
<1>1. T \in SUBSET S /\ T # S
  BY DEF Linear
<1> HIDE DEF T
<1>2. IsFiniteSet(T) /\ Cardinality(T) <= Cardinality(S) /\ Cardinality(T) # Cardinality(S)
  BY <1>1, FS_Subset
<1>3. Cardinality(T) \in Nat /\ Cardinality(S) \in Nat
  BY <1>2, FS_CardinalityType
<1>4. Cardinality(T) \in 0 .. Cardinality(S) - 1
  BY <1>2, <1>3
<1> QED
  BY <1>3, <1>4 DEF T, Place

LEMMA PlacesOrdered ==
  ASSUME NEW R, NEW S, IsFiniteSet(S), Linear(R, S), NEW x \in S, NEW z \in S, <<x, z>> \in R
  PROVE  Place(R, S, x) < Place(R, S, z)
<1> DEFINE T == {y \in S : <<y, x>> \in R}
           U == {y \in S : <<y, z>> \in R}
<1>1. T \in SUBSET U /\ T # U
  BY DEF Linear
<1>2. U \in SUBSET S
  OBVIOUS
<1> HIDE DEF T, U
<1>3. IsFiniteSet(U)
  BY <1>2, FS_Subset
<1>4. IsFiniteSet(T) /\ Cardinality(T) <= Cardinality(U) /\ Cardinality(T) # Cardinality(U)
  BY <1>1, <1>3, FS_Subset
<1>5. Cardinality(T) \in Nat /\ Cardinality(U) \in Nat
  BY <1>3, <1>4, FS_CardinalityType
<1>6. Cardinality(T) < Cardinality(U)
  BY <1>4, <1>5
<1> QED
  BY <1>6 DEF T, U, Place

LEMMA PlacesDiffer ==
  ASSUME NEW R, NEW S, IsFiniteSet(S), Linear(R, S), NEW x \in S, NEW z \in S, x # z
  PROVE  Place(R, S, x) # Place(R, S, z)
<1>1. Place(R, S, x) \in Int /\ Place(R, S, z) \in Int
  BY PlaceRange
<1>2. <<x, z>> \in R \/ <<z, x>> \in R
  BY DEF Linear
<1>3. Place(R, S, x) < Place(R, S, z) \/ Place(R, S, z) < Place(R, S, x)
  BY <1>2, PlacesOrdered
<1> QED
  BY <1>1, <1>3

\* First takes n elements, or all there are.
LEMMA FirstSize ==
  ASSUME NEW R, NEW S, IsFiniteSet(S), Linear(R, S), NEW n \in Nat
  PROVE  /\ Cardinality(First(S, R, n)) \in Nat /\ Cardinality(First(S, R, n)) <= n
         /\ Cardinality(First(S, R, n)) < n => First(S, R, n) = S
<1> DEFINE F == First(S, R, n)
           m == Cardinality(S)
           f == [x \in S |-> Place(R, S, x)]
           g == [x \in F |-> Place(R, S, x)]
<1>1. F = {x \in S : Place(R, S, x) < n}
  BY DEF First, Place
<1>2. m \in Nat /\ \A x \in S : Place(R, S, x) \in 0 .. m - 1
  BY PlaceRange, FS_CardinalityType
<1>3. \A x, z \in S : x # z => Place(R, S, x) # Place(R, S, z)
  BY PlacesDiffer
<1>4. IsFiniteSet(F) /\ Cardinality(F) \in Nat
  BY <1>1, FS_Subset, FS_CardinalityType
<1>5. f \in Injection(S, 0 .. m - 1)
  BY <1>2, <1>3 DEF Injection, IsInjective
<1>6. g \in Injection(F, 0 .. n - 1)
  BY <1>1, <1>2, <1>3 DEF Injection, IsInjective
<1>7. /\ IsFiniteSet(0 .. m - 1) /\ Cardinality(0 .. m - 1) = m
      /\ IsFiniteSet(0 .. n - 1) /\ Cardinality(0 .. n - 1) = n
  <2> HIDE DEF m
  <2>1. 0 \in Int /\ m - 1 \in Int /\ n - 1 \in Int
    BY <1>2
  <2>2. /\ IsFiniteSet(0 .. m - 1)
        /\ Cardinality(0 .. m - 1) = IF 0 > m - 1 THEN 0 ELSE m - 1 - 0 + 1
        /\ IsFiniteSet(0 .. n - 1)
        /\ Cardinality(0 .. n - 1) = IF 0 > n - 1 THEN 0 ELSE n - 1 - 0 + 1
    BY <2>1, FS_Interval
  <2> QED
    BY <1>2, <2>2
<1>8. f \in Surjection(S, 0 .. m - 1)
  BY <1>5, <1>7, FS_Injection
<1> HIDE DEF F, m, f, g
<1>9. Cardinality(F) <= n /\ (Cardinality(F) = n <=> g \in Surjection(F, 0 .. n - 1))
  BY <1>6, <1>7, FS_Injection
<1>10. ASSUME F # S PROVE Cardinality(F) = n
  <2>1. PICK z \in S : ~(Place(R, S, z) < n)
    BY <1>1, <1>10
  <2>2. n <= m
    BY <1>2, <2>1
  <2>3. \A k \in 0 .. n - 1 : \E x \in F : g[x] = k
    <3> SUFFICES ASSUME NEW k \in 0 .. n - 1 PROVE \E x \in F : g[x] = k
      OBVIOUS
    <3>1. k \in 0 .. m - 1
      BY <1>2, <2>2
    <3>2. PICK x \in S : f[x] = k
      BY <1>8, <3>1 DEF Surjection
    <3>3. Place(R, S, x) = k /\ x \in F
      BY <1>1, <3>2 DEF f
    <3> QED
      BY <3>3 DEF g
  <2>4. g \in Surjection(F, 0 .. n - 1)
    BY <1>6, <2>3 DEF Surjection, Injection
  <2> QED
    BY <1>9, <2>4
<1> QED
  BY <1>4, <1>9, <1>10 DEF F

-----------------------------------------------------------------------------
(* The deques and the dictionary of pads are linear orders. *)

Lined == (\A p \in pads : Linear(ahead, queue[p])) /\ Linear(padOrder, pads)

\* Frames F leave the mux and nothing enters it.
LEMMA LeaveLined ==
  ASSUME Lined, NEW F, Leave(F), pads' \subseteq pads,
         \A p \in pads' : queue'[p] \subseteq queue[p] \ F, Linear(padOrder', pads')
  PROVE  Lined'
<1>1. ahead' = Forget(ahead, F)
  BY DEF Leave
<1>2. \A p \in pads' : Linear(ahead', queue'[p])
  BY <1>1, ForgetLinear DEF Lined
<1> QED
  BY <1>2 DEF Lined

\* The frame in hand is appended to a pad.
LEMMA EnqueueLined ==
  ASSUME Base, Lined, NEW s \in Source, NEW p \in Source, NEW out \in SUBSET queue[p],
         p \in pads \/ out = {}, pc[s] \in {"calling", "blocked"}, Enqueue(s, p, out),
         UNCHANGED <<pads, padOrder>>
  PROVE  Lined'
<1> DEFINE f == <<s, decoded[s]>>
<1>1. /\ queue' = [queue EXCEPT ![p] = (@ \ out) \cup {f}]
      /\ ahead' = Last(Forget(ahead, out), queue[p] \ out, f)
  BY DEF Enqueue
<1>2. f \notin Queued
  BY HandNewest
<1>3. ASSUME p \in pads PROVE Linear(ahead', queue'[p])
  <2>1. Linear(Forget(ahead, out), queue[p] \ out)
    BY <1>3, ForgetLinear DEF Lined
  <2>2. queue'[p] = (queue[p] \ out) \cup {f}
    BY <1>1 DEF Base, TypeOK
  <2> QED
    BY <1>1, <2>1, <2>2, LastLinear
<1>4. ASSUME NEW q \in pads, q # p PROVE Linear(ahead', queue'[q])
  <2>1. queue'[q] = queue[q] /\ f \notin queue[q]
    BY <1>1, <1>2, <1>4 DEF Base, TypeOK, Queued
  <2>2. queue[q] \cap out = {}
    BY <1>4 DEF Base, OneOwner
  <2>3. \A x, y \in queue[q] : <<x, y>> \in ahead' <=> <<x, y>> \in ahead
    BY <1>1, <2>1, <2>2 DEF Last, Forget
  <2> QED
    BY <2>1, <2>3, LinearKept DEF Lined
<1> QED
  BY <1>3, <1>4 DEF Lined

\* The frame in hand leaves the mux.
LEMMA HandLined ==
  ASSUME Base, Lined, NEW s \in Source, pc[s] \in {"calling", "blocked"},
         Leave({<<s, decoded[s]>>}), UNCHANGED <<pads, padOrder, queue>>
  PROVE  Lined'
<1>1. <<s, decoded[s]>> \notin Queued
  BY HandNewest
<1>2. \A p \in pads' : queue'[p] \subseteq queue[p] \ {<<s, decoded[s]>>}
  BY <1>1 DEF Queued
<1> QED
  BY <1>2, LeaveLined DEF Lined

LEMMA StepLined ==
  ASSUME Base, Lined, [Next]_vars
  PROVE  Lined'
<1>1. ASSUME NEW s \in Source, AddPad(s) PROVE Lined'
  <2>1. /\ pads' = pads \cup {s} /\ padOrder' = Last(padOrder, pads, s)
        /\ UNCHANGED <<queue, ahead>> /\ queue[s] = {}
    BY <1>1 DEF AddPad, order, Base, Created
  <2>2. Linear(padOrder', pads')
    BY <2>1, LastLinear DEF Lined
  <2>3. \A p \in pads' : Linear(ahead', queue'[p])
    BY <2>1 DEF Lined, Linear
  <2> QED
    BY <2>2, <2>3 DEF Lined
<1>2. ASSUME NEW s \in Source, RemovePad(s) PROVE Lined'
  <2>1. /\ s \in pads /\ pads' = pads \ {s} /\ padOrder' = Forget(padOrder, {s})
        /\ Leave(queue[s]) /\ UNCHANGED queue
    BY <1>2 DEF RemovePad
  <2>2. \A p \in pads' : queue'[p] \subseteq queue[p] \ queue[s]
    BY <2>1 DEF Base, OneOwner
  <2>3. Linear(padOrder', pads')
    BY <2>1, ForgetLinear DEF Lined
  <2> QED
    BY <2>1, <2>2, <2>3, LeaveLined
<1>3. ASSUME NEW s \in Source, Call(s) \/ PushEos(s) PROVE Lined'
  <2>1. UNCHANGED <<pads, padOrder, queue, ahead>>
    BY <1>3 DEF Call, PushEos, padState, order
  <2> QED
    BY <2>1 DEF Lined
<1>4. ASSUME NEW s \in Source, Raise(s) \/ PushRefused(s) PROVE Lined'
  <2>1. /\ pc[s] = "calling" /\ Leave({<<s, decoded[s]>>})
        /\ UNCHANGED <<pads, padOrder, queue>>
    BY <1>4 DEF Raise, PushRefused, Refuse, padState
  <2> QED
    BY <2>1, HandLined
<1>5. ASSUME NEW s \in Source, Push(s) PROVE Lined'
  <2>1. pc[s] = "calling" /\ UNCHANGED <<pads, padOrder>>
    BY <1>5 DEF Push, padState
  <2>2. PICK p \in Lookup(IndexOf[s]) :
          /\ p \in pads /\ p \in Source
          /\ \/ \E out \in SUBSET queue[p] : Enqueue(s, p, out)
             \/ Leave({<<s, decoded[s]>>}) /\ UNCHANGED queue
             \/ Refuse(s)
    BY <1>5, PushCases DEF Base
  <2>3. Refuse(s) => Leave({<<s, decoded[s]>>}) /\ UNCHANGED queue
    BY DEF Refuse
  <2> QED
    BY <2>1, <2>2, <2>3, EnqueueLined, HandLined
<1>6. ASSUME NEW s \in Source, Resume(s) PROVE Lined'
  <2>1. /\ pc[s] = "blocked" /\ target[s] \in Source /\ UNCHANGED <<pads, padOrder>>
        /\ \/ Leave({<<s, decoded[s]>>}) /\ UNCHANGED queue
           \/ Enqueue(s, target[s], {})
    BY <1>6 DEF Resume, Refuse, padState, Base, TypeOK
  <2> QED
    BY <2>1, EnqueueLined, HandLined
<1>7. CASE Poll
  <2>1. PICK batch \in {{}, Picks} : Emit(batch)
    BY <1>7, PollOwned DEF Base
  <2>2. /\ Leave(batch) /\ UNCHANGED <<pads, padOrder>>
        /\ \A p \in pads : queue'[p] = queue[p] \ batch
    BY <1>7, <2>1 DEF Poll, Emit, Base, TypeOK
  <2> QED
    BY <2>2, LeaveLined DEF Lined
<1>8. CASE Tick \/ Stop \/ Start \/ UNCHANGED vars
  <2>1. UNCHANGED <<pads, padOrder, queue, ahead>>
    BY <1>8 DEF Tick, Stop, Start, vars, padState, order
  <2> QED
    BY <2>1 DEF Lined
<1> QED
  BY <1>1, <1>2, <1>3, <1>4, <1>5, <1>6, <1>7, <1>8 DEF Next

LEMMA InitLined == Init => Lined
<1> SUFFICES ASSUME Init PROVE Lined
  OBVIOUS
<1>1. padOrder \in Orders(pads) /\ \A p \in pads : queue[p] = {}
  BY MuxAssumption DEF Init
<1>2. \A R \in Orders(pads) : Linear(R, pads)
  BY DEF Orders, Linear
<1> QED
  BY <1>1, <1>2 DEF Lined, Linear

LEMMA LinedHolds == Spec => []Lined
  BY BaseHolds, InitLined, StepLined, PTL DEF Spec

-----------------------------------------------------------------------------
(* The scan of the new policy. *)

LEMMA ModRange ==
  ASSUME NEW n \in Nat \ {0}, NEW x \in Int
  PROVE  x % n \in 0 .. n - 1
  BY Z3

LEMMA ModOfSmall ==
  ASSUME NEW n \in Nat \ {0}, NEW x \in 0 .. n - 1
  PROVE  x % n = x
  BY Z3

\* The distance from s to x, counted round.
LEMMA ModOfDifference ==
  ASSUME NEW n \in Nat \ {0}, NEW x \in 0 .. n - 1, NEW s \in 0 .. n - 1
  PROVE  (x - s) % n = IF s <= x THEN x - s ELSE x - s + n
<1>1. CASE s <= x
  <2>1. x - s \in 0 .. n - 1
    BY <1>1
  <2> QED
    BY <1>1, <2>1, ModOfSmall
<1>2. CASE ~(s <= x)
  BY <1>2, Z3
<1> QED
  BY <1>1, <1>2

LEMMA ModDistance ==
  ASSUME NEW n \in Nat \ {0}, NEW x \in 0 .. n - 1, NEW y \in 0 .. n - 1, NEW s \in 0 .. n - 1,
         (x - s) % n = (y - s) % n
  PROVE  x = y
<1>1. (x - s) % n = IF s <= x THEN x - s ELSE x - s + n
  BY ModOfDifference
<1>2. (y - s) % n = IF s <= y THEN y - s ELSE y - s + n
  BY ModOfDifference
<1>3. (IF s <= x THEN x - s ELSE x - s + n) = (IF s <= y THEN y - s ELSE y - s + n)
  BY <1>1, <1>2
<1> QED
  BY <1>3

\* The pads are finitely many, so are their groups.
LEMMA PadsFinite ==
  ASSUME TypeOK
  PROVE  /\ IsFiniteSet(pads) /\ IsFiniteSet(Active) /\ IsFiniteSet(Groups)
         /\ Groups \subseteq Nat
         /\ \A p \in pads : IsFiniteSet(Group(p)) /\ p \in Group(p)
<1>1. IsFiniteSet(Source) /\ pads \subseteq Source /\ Priority \in [Source -> Nat]
  BY MuxAssumption DEF TypeOK
<1>2. IsFiniteSet(pads) /\ Active \subseteq pads
  BY <1>1, FS_Subset DEF Active
<1>3. IsFiniteSet(Active)
  BY <1>2, FS_Subset
<1>4. IsFiniteSet(Groups)
  <2> DEFINE f == [p \in pads |-> Priority[p]]
  <2>1. f \in Surjection(pads, Groups)
    BY DEF Surjection, Groups
  <2> QED
    BY <1>2, <2>1, FS_Surjection
<1>5. \A p \in pads : Group(p) \in SUBSET pads /\ p \in Group(p)
  BY DEF Group
<1>6. \A p \in pads : IsFiniteSet(Group(p))
  BY <1>2, <1>5, FS_Subset
<1> QED
  BY <1>1, <1>2, <1>3, <1>4, <1>5, <1>6 DEF Groups

\* The rank of a group, and the place of a pad in its group.
Rank(p) == Cardinality({g \in Groups : g < Priority[p]})
Position(p) == Cardinality({q \in Group(p) : <<q, p>> \in padOrder})

LEMMA Ranks ==
  ASSUME TypeOK, NEW p \in pads
  PROVE  /\ Cardinality(Groups) \in Nat \ {0} /\ Rank(p) \in 0 .. Cardinality(Groups) - 1
         /\ \A q \in pads : Rank(q) = Rank(p) => Priority[q] = Priority[p]
<1> DEFINE R == {w \in Groups \X Groups : w[1] < w[2]}
<1>1. IsFiniteSet(Groups) /\ Groups \subseteq Nat
  BY PadsFinite
<1>2. \A g, h \in Groups : <<g, h>> \in R <=> g < h
  OBVIOUS
<1> HIDE DEF R
<1>3. Linear(R, Groups)
  BY <1>1, <1>2 DEF Linear
<1>4. \A q \in pads : Priority[q] \in Groups
  BY DEF Groups
<1>5. \A q \in pads : Rank(q) = Place(R, Groups, Priority[q])
  <2> SUFFICES ASSUME NEW q \in pads PROVE Rank(q) = Place(R, Groups, Priority[q])
    OBVIOUS
  <2>1. {g \in Groups : g < Priority[q]} = {g \in Groups : <<g, Priority[q]>> \in R}
    BY <1>2, <1>4
  <2> QED
    BY <2>1 DEF Rank, Place
<1>6. Cardinality(Groups) \in Nat /\ Rank(p) \in 0 .. Cardinality(Groups) - 1
  BY <1>1, <1>3, <1>4, <1>5, PlaceRange
<1>7. \A q \in pads : Rank(q) = Rank(p) => Priority[q] = Priority[p]
  BY <1>1, <1>3, <1>4, <1>5, PlacesDiffer
<1> QED
  BY <1>6, <1>7

LEMMA Positions ==
  ASSUME TypeOK, Lined, NEW p \in pads
  PROVE  /\ Cardinality(Group(p)) \in Nat \ {0}
         /\ Position(p) \in 0 .. Cardinality(Group(p)) - 1
         /\ \A q \in Group(p) : q # p => Position(q) # Position(p)
<1>1. IsFiniteSet(Group(p)) /\ p \in Group(p) /\ Group(p) \in SUBSET pads
  BY PadsFinite DEF Group
<1>2. Linear(padOrder, Group(p))
  BY <1>1, LinearKept DEF Lined
<1>3. \A q \in Group(p) : Group(q) = Group(p) /\ Position(q) = Place(padOrder, Group(p), q)
  BY DEF Group, Position, Place
<1>4. Cardinality(Group(p)) \in Nat /\ Position(p) \in 0 .. Cardinality(Group(p)) - 1
  BY <1>1, <1>2, <1>3, PlaceRange
<1>5. \A q \in Group(p) : q # p => Position(q) # Position(p)
  BY <1>1, <1>2, <1>3, PlacesDiffer
<1> QED
  BY <1>4, <1>5

\* When the scan comes to a pad.
LEMMA Turns ==
  ASSUME TypeOK, Lined, NEW p \in pads
  PROVE  /\ PriorityStart \in 0 .. Cardinality(Groups) - 1
         /\ GroupTurn(p) = (Rank(p) - PriorityStart) % Cardinality(Groups)
         /\ GroupTurn(p) \in Nat
         /\ SourceStart(p) \in 0 .. Cardinality(Group(p)) - 1
         /\ SourceTurn(p) = (Position(p) - SourceStart(p)) % Cardinality(Group(p))
         /\ SourceTurn(p) \in Nat
<1>1. /\ Cardinality(Groups) \in Nat \ {0} /\ Rank(p) \in Int
      /\ Cardinality(Group(p)) \in Nat \ {0} /\ Position(p) \in Int
  BY Ranks, Positions
<1>2. rr[1] \in Int /\ rr[2] \in Int
  BY DEF TypeOK
<1>3. PriorityStart \in 0 .. Cardinality(Groups) - 1
  <2>1. rr[1] % Cardinality(Groups) \in 0 .. Cardinality(Groups) - 1
    BY <1>1, <1>2, ModRange
  <2>2. 0 \in 0 .. Cardinality(Groups) - 1
    BY <1>1
  <2> QED
    BY <2>1, <2>2 DEF PriorityStart
<1>4. SourceStart(p) \in 0 .. Cardinality(Group(p)) - 1
  <2>1. rr[2] % Cardinality(Group(p)) \in 0 .. Cardinality(Group(p)) - 1
    BY <1>1, <1>2, ModRange
  <2>2. 0 \in 0 .. Cardinality(Group(p)) - 1
    BY <1>1
  <2> QED
    BY <2>1, <2>2 DEF SourceStart
<1>5. GroupTurn(p) = (Rank(p) - PriorityStart) % Cardinality(Groups)
  BY DEF GroupTurn, Rank
<1>6. SourceTurn(p) = (Position(p) - SourceStart(p)) % Cardinality(Group(p))
  BY DEF SourceTurn, Position
<1>7. GroupTurn(p) \in Nat
  BY <1>1, <1>3, <1>5, ModRange
<1>8. SourceTurn(p) \in Nat
  BY <1>1, <1>4, <1>6, ModRange
<1> QED
  BY <1>3, <1>4, <1>5, <1>6, <1>7, <1>8

\* No two pads have one turn.
LEMMA TurnsDiffer ==
  ASSUME TypeOK, Lined, NEW p \in pads, NEW q \in pads,
         GroupTurn(p) = GroupTurn(q), SourceTurn(p) = SourceTurn(q)
  PROVE  p = q
<1> DEFINE G == Cardinality(Groups)
           n == Cardinality(Group(p))
<1>1. /\ G \in Nat \ {0} /\ PriorityStart \in 0 .. G - 1
      /\ Rank(p) \in 0 .. G - 1 /\ Rank(q) \in 0 .. G - 1
      /\ (Rank(p) - PriorityStart) % G = (Rank(q) - PriorityStart) % G
  BY Ranks, Turns
<1> HIDE DEF G
<1>2. Rank(p) = Rank(q)
  BY <1>1, ModDistance
<1>3. Priority[q] = Priority[p]
  BY <1>2, Ranks
<1>4. Group(q) = Group(p) /\ q \in Group(p) /\ SourceStart(q) = SourceStart(p)
  BY <1>3 DEF Group, SourceStart
<1>5. /\ n \in Nat \ {0} /\ SourceStart(p) \in 0 .. n - 1
      /\ Position(p) \in 0 .. n - 1 /\ Position(q) \in 0 .. n - 1
      /\ (Position(p) - SourceStart(p)) % n = (Position(q) - SourceStart(p)) % n
  BY <1>4, Positions, Turns
<1> HIDE DEF n
<1>6. Position(p) = Position(q)
  BY <1>5, ModDistance
<1> QED
  BY <1>4, <1>6, Positions

\* The scan is a linear order of the pads.
LEMMA ScanLinear ==
  ASSUME TypeOK, Lined
  PROVE  /\ \A p \in pads : ~ScanBefore(p, p)
         /\ \A p, q \in pads : p = q \/ ScanBefore(p, q) \/ ScanBefore(q, p)
         /\ \A p, q, r \in pads : ScanBefore(p, q) /\ ScanBefore(q, r) => ScanBefore(p, r)
<1>1. \A p \in pads : GroupTurn(p) \in Nat /\ SourceTurn(p) \in Nat
  BY Turns
<1>2. \A p, q \in pads : GroupTurn(p) = GroupTurn(q) /\ SourceTurn(p) = SourceTurn(q) => p = q
  BY TurnsDiffer
<1>3. \A p, q \in pads : p = q \/ ScanBefore(p, q) \/ ScanBefore(q, p)
  BY <1>1, <1>2 DEF ScanBefore
<1>4. \A p, q, r \in pads : ScanBefore(p, q) /\ ScanBefore(q, r) => ScanBefore(p, r)
  BY <1>1 DEF ScanBefore
<1>5. \A p \in pads : ~ScanBefore(p, p)
  BY <1>1 DEF ScanBefore
<1> QED
  BY <1>3, <1>4, <1>5

\* What the scan may take, in the order it comes to it.
Offered == UNION {Offer(p) : p \in Active}
Scanned ==
  {w \in Offered \X Offered :
     \E p, q \in Active :
       /\ w[1] \in Offer(p) /\ w[2] \in Offer(q)
       /\ ScanBefore(p, q) \/ (p = q /\ w \in ahead)}

LEMMA Offers ==
  ASSUME Base
  PROVE  /\ Active \subseteq pads /\ NewBatchSize \in Nat
         /\ \A p \in Active : Offer(p) \subseteq queue[p] /\ Offer(p) \subseteq Frame
         /\ \A p, q \in pads, f \in Frame : f \in queue[p] /\ f \in queue[q] => p = q
<1>1. Active \subseteq pads /\ pads \subseteq Source
  BY DEF Active, Base, TypeOK
<1>2. \A p \in Active : Offer(p) \subseteq queue[p] /\ Offer(p) \subseteq Frame
  BY <1>1, FirstSubset DEF Offer, Base, TypeOK
<1>3. NewBatchSize \in Nat
  BY MuxAssumption, PadsFinite, FS_CardinalityType DEF NewBatchSize, Base
<1>4. \A p, q \in pads, f \in Frame : f \in queue[p] /\ f \in queue[q] => p = q
  BY DEF Base, OneOwner
<1> QED
  BY <1>1, <1>2, <1>3, <1>4

LEMMA ScannedLinear ==
  ASSUME Base, Lined
  PROVE  Linear(Scanned, Offered)
<1>1. \A f \in Offered : \E p \in Active : f \in Offer(p)
  BY DEF Offered
<1>2. \A p, q \in Active, f \in Offered : f \in Offer(p) /\ f \in Offer(q) => p = q
  BY Offers DEF Offered
<1>3. \A p, q \in Active, f, g \in Offered :
        f \in Offer(p) /\ g \in Offer(q) =>
          (<<f, g>> \in Scanned <=> ScanBefore(p, q) \/ (p = q /\ <<f, g>> \in ahead))
  BY <1>2 DEF Scanned
<1>4. \A p \in Active : Linear(ahead, Offer(p))
  BY Offers, LinearKept DEF Lined
<1>5. /\ \A p \in Active : ~ScanBefore(p, p)
      /\ \A p, q \in Active : p = q \/ ScanBefore(p, q) \/ ScanBefore(q, p)
      /\ \A p, q, r \in Active : ScanBefore(p, q) /\ ScanBefore(q, r) => ScanBefore(p, r)
  BY Offers, ScanLinear DEF Base
<1>6. ASSUME NEW f \in Offered PROVE <<f, f>> \notin Scanned
  <2>1. PICK p \in Active : f \in Offer(p)
    BY <1>1
  <2> QED
    BY <1>3, <1>4, <1>5, <2>1 DEF Linear
<1>7. ASSUME NEW f \in Offered, NEW g \in Offered
      PROVE  f = g \/ <<f, g>> \in Scanned \/ <<g, f>> \in Scanned
  <2>1. PICK p \in Active : f \in Offer(p)
    BY <1>1
  <2>2. PICK q \in Active : g \in Offer(q)
    BY <1>1
  <2>3. CASE p = q
    <3>1. f = g \/ <<f, g>> \in ahead \/ <<g, f>> \in ahead
      BY <1>4, <2>1, <2>2, <2>3 DEF Linear
    <3> QED
      BY <1>3, <2>1, <2>2, <2>3, <3>1
  <2>4. CASE p # q
    <3>1. ScanBefore(p, q) \/ ScanBefore(q, p)
      BY <1>5, <2>4
    <3> QED
      BY <1>3, <2>1, <2>2, <3>1
  <2> QED
    BY <2>3, <2>4
<1>8. ASSUME NEW f \in Offered, NEW g \in Offered, NEW h \in Offered,
             <<f, g>> \in Scanned, <<g, h>> \in Scanned
      PROVE  <<f, h>> \in Scanned
  <2>1. PICK p \in Active : f \in Offer(p)
    BY <1>1
  <2>2. PICK q \in Active : g \in Offer(q)
    BY <1>1
  <2>3. PICK r \in Active : h \in Offer(r)
    BY <1>1
  <2>4. /\ ScanBefore(p, q) \/ (p = q /\ <<f, g>> \in ahead)
        /\ ScanBefore(q, r) \/ (q = r /\ <<g, h>> \in ahead)
    BY <1>3, <1>8, <2>1, <2>2, <2>3
  <2>5. CASE p = q /\ q = r
    <3>1. <<f, g>> \in ahead /\ <<g, h>> \in ahead
      BY <1>5, <2>4, <2>5
    <3>2. <<f, h>> \in ahead
      BY <1>4, <2>1, <2>2, <2>3, <2>5, <3>1 DEF Linear
    <3> QED
      BY <1>3, <2>1, <2>3, <2>5, <3>2
  <2>6. CASE ~(p = q /\ q = r)
    <3>1. ScanBefore(p, r)
      BY <1>5, <2>4, <2>6
    <3> QED
      BY <1>3, <2>1, <2>3, <3>1
  <2> QED
    BY <2>5, <2>6
<1> QED
  BY <1>6, <1>7, <1>8 DEF Linear

\* The slots that the pads before p leave.
Room(p) == NewBatchSize - Cardinality(OfferedBefore(p))

LEMMA RoomInt ==
  ASSUME Base, NEW p \in Active
  PROVE  /\ OfferedBefore(p) \subseteq Frame /\ IsFiniteSet(OfferedBefore(p))
         /\ Cardinality(OfferedBefore(p)) \in Nat /\ Room(p) \in Int
<1>1. OfferedBefore(p) \subseteq Frame
  BY Offers DEF OfferedBefore
<1>2. IsFiniteSet(OfferedBefore(p)) /\ Cardinality(OfferedBefore(p)) \in Nat
  BY <1>1, FramesFinite
<1> QED
  BY <1>1, <1>2, Offers DEF Room

\* The scan takes the first frames of all that is offered.
LEMMA NewPicksFirst ==
  ASSUME Base, Lined
  PROVE  NewPicks = First(Offered, Scanned, NewBatchSize)
<1>1. \A p, q \in Active, f \in Offered : f \in Offer(p) /\ f \in Offer(q) => p = q
  BY Offers DEF Offered
<1>2. ASSUME NEW p \in Active, NEW f \in Offer(p)
      PROVE  f \in First(Offer(p), ahead, Room(p)) <=> f \in First(Offered, Scanned, NewBatchSize)
  <2> DEFINE own == {g \in Offer(p) : <<g, f>> \in ahead}
             all == {g \in Offered : <<g, f>> \in Scanned}
  <2>1. f \in Offered
    BY DEF Offered
  <2>2. all = OfferedBefore(p) \cup own
    <3>1. ASSUME NEW g \in all PROVE g \in OfferedBefore(p) \cup own
      <4>1. PICK r, q \in Active : /\ g \in Offer(r) /\ f \in Offer(q)
                                   /\ ScanBefore(r, q) \/ (r = q /\ <<g, f>> \in ahead)
        BY DEF Scanned
      <4>2. q = p
        BY <1>1, <2>1, <4>1
      <4> QED
        BY <4>1, <4>2 DEF OfferedBefore
    <3>2. ASSUME NEW g \in OfferedBefore(p) PROVE g \in all
      <4>1. PICK r \in Active : ScanBefore(r, p) /\ g \in Offer(r)
        BY DEF OfferedBefore
      <4> QED
        BY <2>1, <4>1 DEF Scanned, Offered
    <3>3. ASSUME NEW g \in own PROVE g \in all
      BY <2>1, <3>3 DEF Scanned, Offered
    <3> QED
      BY <3>1, <3>2, <3>3
  <2>3. OfferedBefore(p) \cap own = {}
    <3>1. ~ScanBefore(p, p)
      BY Offers, ScanLinear DEF Base
    <3>2. \A r \in Active : ScanBefore(r, p) => Offer(r) \cap Offer(p) = {}
      BY <1>1, <3>1 DEF Offered
    <3> QED
      BY <3>2 DEF OfferedBefore
  <2>4. own \subseteq Frame
    BY Offers
  <2> HIDE DEF own, all
  <2>5. IsFiniteSet(own) /\ Cardinality(own) \in Nat
    BY <2>4, FramesFinite
  <2>6. Cardinality(all) = Cardinality(OfferedBefore(p)) + Cardinality(own)
    <3>1. /\ IsFiniteSet(OfferedBefore(p)) /\ Cardinality(OfferedBefore(p)) \in Nat
      BY RoomInt
    <3>2. Cardinality(OfferedBefore(p) \cup own)
            = Cardinality(OfferedBefore(p)) + Cardinality(own) - Cardinality({})
      BY <2>3, <2>5, <3>1, FS_Union
    <3> QED
      BY <2>2, <2>5, <3>1, <3>2, FS_EmptySet
  <2>7. Cardinality(own) < Room(p) <=> Cardinality(all) < NewBatchSize
    BY <2>5, <2>6, RoomInt, Offers DEF Room
  <2> QED
    BY <2>1, <2>7 DEF First, own, all
<1>3. NewPicks = UNION {First(Offer(p), ahead, Room(p)) : p \in Active}
  BY DEF NewPicks, Room
<1>4. ASSUME NEW f PROVE f \in NewPicks <=> f \in First(Offered, Scanned, NewBatchSize)
  <2>1. ASSUME f \in NewPicks PROVE f \in First(Offered, Scanned, NewBatchSize)
    <3>1. PICK p \in Active : f \in First(Offer(p), ahead, Room(p))
      BY <1>3, <2>1
    <3> QED
      BY <1>2, <3>1, FirstSubset
  <2>2. ASSUME f \in First(Offered, Scanned, NewBatchSize) PROVE f \in NewPicks
    <3>1. PICK p \in Active : f \in Offer(p)
      BY <2>2, FirstSubset DEF Offered
    <3> QED
      BY <1>2, <1>3, <2>2, <3>1
  <2> QED
    BY <2>1, <2>2
<1> QED
  BY <1>4

\* At most as many as there are slots, and all that is offered if some are left.
LEMMA SlotsFilled ==
  ASSUME Base, Lined
  PROVE  /\ Cardinality(NewPicks) \in Nat /\ Cardinality(NewPicks) <= NewBatchSize
         /\ Cardinality(NewPicks) < NewBatchSize => NewPicks = Offered
<1>1. Offered \subseteq Frame
  BY Offers DEF Offered
<1>2. IsFiniteSet(Offered)
  BY <1>1, FramesFinite
<1> QED
  BY <1>2, NewPicksFirst, ScannedLinear, FirstSize, Offers

\* What a step delivers: nothing, or the picks of a poll that was ready.
LEMMA Delivers ==
  ASSUME Base, [Next]_vars
  PROVE  \/ NewlyDelivered = {}
         \/ /\ Poll /\ Ready(Picks) /\ Emit(Picks) /\ NewlyDelivered = Picks
<1>1. ASSUME ~Poll PROVE delivered' = delivered
  BY <1>1 DEF Next, vars, AddPad, RemovePad, Call, Raise, PushRefused, Push, Resume, PushEos,
              Tick, Stop, Start
<1>2. ASSUME Poll, ~Ready(Picks) PROVE delivered' = delivered
  BY <1>2 DEF Poll, Emit
<1>3. ASSUME Poll, Ready(Picks) PROVE Emit(Picks) /\ NewlyDelivered = Picks
  <2>1. Emit(Picks) /\ delivered' = delivered \cup Picks
    BY <1>3 DEF Poll, Emit
  <2>2. Picks \cap delivered = {}
    BY PicksQueued DEF Base, OneOwner
  <2> QED
    BY <2>1, <2>2 DEF NewlyDelivered
<1> QED
  BY <1>1, <1>2, <1>3 DEF NewlyDelivered

\* _form_new: under the new policy a batch never has more frames than slots, and
\* one that is pushed with free slots took all that the scan offers, for any
\* priorities, caps and positions of the scan.
THEOREM SlotsAreUsed == Policy = "new" /\ Spec => SlotsUsed
<1> SUFFICES ASSUME Policy = "new" PROVE Spec => SlotsUsed
  OBVIOUS
<1> DEFINE Used == /\ Cardinality(NewlyDelivered) <= NewBatchSize
                   /\ NewlyDelivered # {} /\ Cardinality(NewlyDelivered) < NewBatchSize
                        => \A p \in Active : Offer(p) \subseteq NewlyDelivered
<1>1. Base /\ Lined /\ [Next]_vars => Used
  <2> SUFFICES ASSUME Base, Lined, [Next]_vars PROVE Used
    OBVIOUS
  <2>1. CASE NewlyDelivered = {}
    BY <2>1, Offers, FS_EmptySet
  <2>2. CASE NewlyDelivered = Picks
    <3>1. NewlyDelivered = NewPicks
      BY <2>2 DEF Picks
    <3>2. \A p \in Active : Offer(p) \subseteq Offered
      BY DEF Offered
    <3> QED
      BY <3>1, <3>2, SlotsFilled
  <2> QED
    BY <2>1, <2>2, Delivers
<1> HIDE DEF Used
<1>2. Spec => [][Used]_vars
  BY <1>1, BaseHolds, LinedHolds, PTL DEF Spec
<1> QED
  BY <1>2 DEF SlotsUsed, Used

-----------------------------------------------------------------------------
(* Round robin. *)

\* A pad contributed, and a pad that offers something had no slot left.
LEMMA TakenHasRoom ==
  ASSUME Base, NEW p \in Active, queue[p] \cap NewPicks # {}
  PROVE  Room(p) > 0
<1>1. PICK f \in queue[p] : f \in NewPicks
  OBVIOUS
<1>2. PICK q \in Active : f \in First(Offer(q), ahead, Room(q))
  BY <1>1 DEF NewPicks, Room
<1>3. f \in Offer(q)
  BY <1>2, FirstSubset
<1>4. q = p
  BY <1>1, <1>3, Offers
<1> DEFINE own == {g \in Offer(p) : <<g, f>> \in ahead}
<1>5. Cardinality(own) < Room(p)
  BY <1>2, <1>4 DEF First
<1>6. own \subseteq Frame
  BY Offers
<1> HIDE DEF own
<1>7. Cardinality(own) \in Nat
  BY <1>6, FramesFinite
<1> QED
  BY <1>5, <1>7, RoomInt

LEMMA PassedHasNone ==
  ASSUME Base, Lined, NEW p \in Active, Offer(p) # {}, queue[p] \cap NewPicks = {}
  PROVE  Room(p) <= 0
<1> SUFFICES ASSUME Room(p) >= 1 PROVE FALSE
  BY RoomInt
<1>1. Offer(p) \subseteq Frame /\ Offer(p) \subseteq queue[p] /\ Linear(ahead, Offer(p))
  BY Offers, LinearKept DEF Lined
<1>2. IsFiniteSet(Offer(p))
  BY <1>1, FramesFinite
<1>3. First(Offer(p), ahead, 1) # {}
  <2>1. Cardinality(First(Offer(p), ahead, 1)) < 1 => First(Offer(p), ahead, 1) = Offer(p)
    BY <1>1, <1>2, FirstSize
  <2> QED
    BY <2>1, FS_EmptySet
<1>4. PICK f \in First(Offer(p), ahead, 1) : TRUE
  BY <1>3
<1> DEFINE own == {g \in Offer(p) : <<g, f>> \in ahead}
<1>5. f \in Offer(p) /\ Cardinality(own) < 1
  BY <1>4 DEF First
<1>6. own \subseteq Frame
  BY <1>1
<1> HIDE DEF own
<1>7. Cardinality(own) \in Nat
  BY <1>6, FramesFinite
<1>8. Cardinality(own) < Room(p)
  BY <1>5, <1>7, RoomInt
<1>9. f \in First(Offer(p), ahead, Room(p))
  BY <1>5, <1>8 DEF First, own
<1>10. f \in NewPicks
  BY <1>9 DEF NewPicks, Room
<1> QED
  BY <1>1, <1>5, <1>10

\* So the scan comes to the first before it comes to the second.
LEMMA TakenBeforePassed ==
  ASSUME Base, Lined, NEW p \in Active, queue[p] \cap NewPicks # {},
         NEW q \in Active, Offer(q) # {}, queue[q] \cap NewPicks = {}
  PROVE  ScanBefore(p, q)
<1>1. Room(p) > 0 /\ Room(q) <= 0
  BY TakenHasRoom, PassedHasNone
<1>2. ASSUME ScanBefore(q, p) PROVE FALSE
  <2>1. \A r \in Active : ScanBefore(r, q) => ScanBefore(r, p)
    BY <1>2, Offers, ScanLinear DEF Base
  <2>2. OfferedBefore(q) \in SUBSET OfferedBefore(p)
    BY <2>1 DEF OfferedBefore
  <2>3. Cardinality(OfferedBefore(q)) <= Cardinality(OfferedBefore(p))
    BY <2>2, RoomInt, FS_Subset
  <2> QED
    BY <1>1, <2>3, RoomInt, Offers DEF Room
<1>3. p # q
  OBVIOUS
<1> QED
  BY <1>2, <1>3, Offers, ScanLinear DEF Base

\* Going round: a and c are counted from s, with a not after b and c after it; from
\* the place after b, c comes before a.
LEMMA GoingRound ==
  ASSUME NEW n \in Nat \ {0}, NEW s \in 0 .. n - 1,
         NEW a \in 0 .. n - 1, NEW b \in 0 .. n - 1, NEW c \in 0 .. n - 1,
         (a - s) % n <= (b - s) % n, (b - s) % n < (c - s) % n
  PROVE  LET t == ((s + ((b - s) % n) + 1) % n) % n
         IN  (c - t) % n < (a - t) % n
<1> DEFINE t == IF b + 1 < n THEN b + 1 ELSE 0
<1>1. t \in 0 .. n - 1
  OBVIOUS
<1>2. /\ (a - s) % n = IF s <= a THEN a - s ELSE a - s + n
      /\ (b - s) % n = IF s <= b THEN b - s ELSE b - s + n
      /\ (c - s) % n = IF s <= c THEN c - s ELSE c - s + n
  BY ModOfDifference
<1>3. (s + ((b - s) % n) + 1) % n = t
  <2>1. s + ((b - s) % n) + 1 = IF s <= b THEN b + 1 ELSE b + 1 + n
    <3>1. s + (IF s <= b THEN b - s ELSE b - s + n) + 1 = IF s <= b THEN b + 1 ELSE b + 1 + n
      OBVIOUS
    <3> QED
      BY <1>2, <3>1
  <2>2. CASE b + 1 < n
    <3>1. (b + 1) % n = b + 1
      BY <2>2, ModOfSmall
    <3>2. (b + 1 + n) % n = b + 1
      BY <2>2, Z3
    <3> QED
      BY <2>1, <2>2, <3>1, <3>2
  <2>3. CASE b + 1 = n
    <3>1. n % n = 0
      BY Z3
    <3>2. (n + n) % n = 0
      BY Z3
    <3> QED
      BY <2>1, <2>3, <3>1, <3>2
  <2> QED
    BY <2>2, <2>3
<1>4. t % n = t
  BY <1>1, ModOfSmall
<1>5. /\ (a - t) % n = IF t <= a THEN a - t ELSE a - t + n
      /\ (c - t) % n = IF t <= c THEN c - t ELSE c - t + n
  BY <1>1, ModOfDifference
<1>6. (c - t) % n < (a - t) % n
  BY <1>1, <1>2, <1>5
<1> QED
  BY <1>3, <1>4, <1>6

\* The position after a scan that filled the batch.
LEMMA ScanMoves ==
  ASSUME Base, Lined, RoundRobin, NEW last \in pads, UNCHANGED <<pads, padOrder>>,
         rr' = <<(PriorityStart + GroupTurn(last)) % Cardinality(Groups),
                 (SourceStart(last) + SourceTurn(last) + 1) % Cardinality(Group(last))>>,
         NEW p \in pads, Priority[p] = Priority[last]
  PROVE  /\ GroupTurn(p)' = 0
         /\ LET n == Cardinality(Group(last))
                s == SourceStart(last)
                t == ((s + ((Position(last) - s) % n) + 1) % n) % n
            IN  SourceTurn(p)' = (Position(p) - t) % n
<1> DEFINE G == Cardinality(Groups)
           n == Cardinality(Group(last))
           s == SourceStart(last)
           t == ((s + ((Position(last) - s) % n) + 1) % n) % n
<1>1. /\ G \in Nat \ {0} /\ PriorityStart \in 0 .. G - 1 /\ Rank(last) \in 0 .. G - 1
      /\ GroupTurn(last) = (Rank(last) - PriorityStart) % G
      /\ SourceTurn(last) = (Position(last) - s) % n
  BY Ranks, Turns DEF Base
<1>2. Groups' = Groups /\ \A q \in pads : Group(q)' = Group(q)
  BY DEF Groups, Group
<1>3. Rank(p)' = Rank(last) /\ Position(p)' = Position(p) /\ Group(p) = Group(last)
  BY <1>2 DEF Rank, Position, Group
<1>4. (PriorityStart + GroupTurn(last)) % G = Rank(last)
  <2> HIDE DEF G
  <2>1. GroupTurn(last) = IF PriorityStart <= Rank(last) THEN Rank(last) - PriorityStart
                                                        ELSE Rank(last) - PriorityStart + G
    BY <1>1, ModOfDifference
  <2>2. Rank(last) % G = Rank(last)
    BY <1>1, ModOfSmall
  <2>3. (Rank(last) + G) % G = Rank(last)
    BY <1>1, Z3
  <2>4. PriorityStart + GroupTurn(last) \in {Rank(last), Rank(last) + G}
    BY <1>1, <2>1
  <2> QED
    BY <2>2, <2>3, <2>4
<1>5. PriorityStart' = Rank(last)
  <2>1. PriorityStart' = rr'[1] % G
    BY <1>2 DEF PriorityStart
  <2>2. rr'[1] = Rank(last)
    BY <1>4
  <2> QED
    BY <1>1, <2>1, <2>2, ModOfSmall
<1>6. GroupTurn(p)' = 0
  <2>1. GroupTurn(p)' = (Rank(p)' - PriorityStart') % G
    BY <1>2 DEF GroupTurn, Rank
  <2>2. Rank(p)' - PriorityStart' = 0
    BY <1>1, <1>3, <1>5
  <2> HIDE DEF G
  <2>3. 0 % G = 0
    BY <1>1, ModOfSmall
  <2> QED
    BY <2>1, <2>2, <2>3
<1>7. SourceStart(p)' = t
  <2>1. SourceStart(p)' = rr'[2] % n
    BY <1>2, <1>3, <1>6 DEF SourceStart
  <2>2. rr'[2] = (s + SourceTurn(last) + 1) % n
    OBVIOUS
  <2> QED
    BY <1>1, <2>1, <2>2
<1>8. SourceTurn(p)' = (Position(p)' - SourceStart(p)') % n
  BY <1>2, <1>3 DEF SourceTurn, Position
<1> QED
  BY <1>3, <1>6, <1>7, <1>8

\* A source that a full batch passed over comes first in the next scan.
LEMMA PassedIsNext ==
  ASSUME Base, Lined, RoundRobin, Policy = "new", UNCHANGED <<pads, padOrder>>,
         NewPicks # {}, NewFull(NewPicks), Advance(NewPicks),
         NEW p \in Active, NEW q \in Active, Priority[p] = Priority[q],
         queue[p] \cap NewPicks # {}, Offer(q) # {}, queue[q] \cap NewPicks = {}
  PROVE  ScanBefore(q, p)'
<1>1. PICK last \in Active :
        /\ queue[last] \cap NewPicks # {}
        /\ \A r \in Active : queue[r] \cap NewPicks # {} => ~ScanBefore(last, r)
        /\ rr' = <<(PriorityStart + GroupTurn(last)) % Cardinality(Groups),
                   (SourceStart(last) + SourceTurn(last) + 1) % Cardinality(Group(last))>>
  BY DEF Advance
<1>2. p \in pads /\ q \in pads /\ last \in pads
  BY Offers
<1>3. ScanBefore(last, q) /\ ~ScanBefore(last, p)
  BY <1>1, TakenBeforePassed
<1>4. p = last \/ ScanBefore(p, last)
  BY <1>2, <1>3, ScanLinear DEF Base
<1>5. GroupTurn(p) = GroupTurn(q)
  BY DEF GroupTurn
<1>6. /\ \A r \in {p, q, last} : GroupTurn(r) \in Nat /\ SourceTurn(r) \in Nat
  BY <1>2, Turns DEF Base
<1>7. /\ GroupTurn(last) = GroupTurn(p)
      /\ SourceTurn(p) <= SourceTurn(last) /\ SourceTurn(last) < SourceTurn(q)
  BY <1>3, <1>4, <1>5, <1>6 DEF ScanBefore
<1>8. Priority[last] = Priority[p]
  <2> DEFINE G == Cardinality(Groups)
  <2>1. /\ G \in Nat \ {0} /\ PriorityStart \in 0 .. G - 1
        /\ Rank(p) \in 0 .. G - 1 /\ Rank(last) \in 0 .. G - 1
        /\ (Rank(p) - PriorityStart) % G = (Rank(last) - PriorityStart) % G
    BY <1>2, <1>7, Ranks, Turns DEF Base
  <2> HIDE DEF G
  <2>2. Rank(last) = Rank(p)
    BY <2>1, ModDistance
  <2> QED
    BY <1>2, <2>2, Ranks DEF Base
<1> DEFINE n == Cardinality(Group(last))
           s == SourceStart(last)
           t == ((s + ((Position(last) - s) % n) + 1) % n) % n
<1>9. /\ Group(p) = Group(last) /\ Group(q) = Group(last)
      /\ SourceStart(p) = s /\ SourceStart(q) = s
  BY <1>5, <1>7, <1>8 DEF Group, SourceStart
<1>10. /\ n \in Nat \ {0} /\ s \in 0 .. n - 1
       /\ Position(p) \in 0 .. n - 1 /\ Position(q) \in 0 .. n - 1 /\ Position(last) \in 0 .. n - 1
       /\ SourceTurn(p) = (Position(p) - s) % n /\ SourceTurn(q) = (Position(q) - s) % n
       /\ SourceTurn(last) = (Position(last) - s) % n
  BY <1>2, <1>9, Positions, Turns DEF Base
<1>11. /\ GroupTurn(p)' = 0 /\ GroupTurn(q)' = 0
       /\ SourceTurn(p)' = (Position(p) - t) % n /\ SourceTurn(q)' = (Position(q) - t) % n
  BY <1>1, <1>2, <1>8, ScanMoves
<1> HIDE DEF n, s
<1>12. (Position(q) - t) % n < (Position(p) - t) % n
  BY <1>7, <1>10, GoingRound
<1> QED
  BY <1>11, <1>12 DEF ScanBefore

\* _form_new: by round robin, a source that offered a frame and got no slot of a
\* batch in which another of its priority had one is scanned before that other
\* next time, wherever pads that came and went have left the position.
THEOREM TurnsAreTaken == Policy = "new" /\ RoundRobin /\ Spec => TakesTurns
<1> SUFFICES ASSUME Policy = "new", RoundRobin PROVE Spec => TakesTurns
  OBVIOUS
<1> DEFINE Turn ==
      \A p, q \in Active :
        /\ Priority[p] = Priority[q]
        /\ queue[p] \cap NewlyDelivered # {}
        /\ Offer(q) # {} /\ queue[q] \cap NewlyDelivered = {}
        => ScanBefore(q, p)'
<1>1. Base /\ Lined /\ [Next]_vars => Turn
  <2> SUFFICES ASSUME Base, Lined, [Next]_vars,
                      NEW p \in Active, NEW q \in Active, Priority[p] = Priority[q],
                      queue[p] \cap NewlyDelivered # {},
                      Offer(q) # {}, queue[q] \cap NewlyDelivered = {}
               PROVE  ScanBefore(q, p)'
    OBVIOUS
  <2>1. Poll /\ Ready(Picks) /\ NewlyDelivered = Picks
    BY Delivers
  <2>2. Picks = NewPicks
    BY DEF Picks
  <2>3. UNCHANGED <<pads, padOrder>> /\ Advance(NewPicks)
    BY <2>1, <2>2 DEF Poll
  <2>4. NewFull(NewPicks)
    <3>1. Offer(q) \subseteq Offered /\ Offer(q) \subseteq queue[q]
      BY Offers DEF Offered
    <3>2. NewPicks # Offered
      BY <2>1, <2>2, <3>1
    <3>3. Cardinality(NewPicks) >= NewBatchSize
      BY <3>2, SlotsFilled, Offers
    <3> QED
      BY <3>3 DEF NewFull
  <2> QED
    BY <2>1, <2>2, <2>3, <2>4, PassedIsNext
<1> HIDE DEF Turn
<1>2. Spec => [][Turn]_vars
  BY <1>1, BaseHolds, LinedHolds, PTL DEF Spec
<1> QED
  BY <1>2 DEF TakesTurns, Turn

-----------------------------------------------------------------------------
(* A fixed set of pads. *)

\* MuxedPipeline adds every source before it starts and removes none.
Static ==
  /\ IndexNotReused
  /\ InitialPads = Source /\ Removable = {}

\* The pads stay, and the pipeline EOS is the EOS of every pad.
Settled ==
  /\ pads = Source
  /\ eosSent <=> \A s \in Source : eos[s]

LEMMA StepSettled ==
  ASSUME Static, Base, Settled, [Next]_vars
  PROVE  Settled'
<1> USE DEF Base
<1>1. ASSUME NEW s \in Source, AddPad(s) PROVE FALSE
  BY <1>1 DEF AddPad, Settled, Lookup
<1>2. ASSUME NEW s \in Source, RemovePad(s) PROVE FALSE
  BY <1>2 DEF RemovePad, Static
<1>3. CASE UNCHANGED <<pads, eosSent, eos>>
  BY <1>3 DEF Settled
<1>4. ASSUME NEW s \in Source,
             Call(s) \/ Raise(s) \/ PushRefused(s) \/ Push(s) \/ Resume(s) \/ PushEos(s)
      PROVE  UNCHANGED <<pads, eosSent, eos>>
  BY <1>4 DEF Call, Raise, PushRefused, Push, Resume, PushEos, padState
<1>5. CASE Poll
  <2>1. PICK batch \in {{}, Picks} : Emit(batch)
    BY <1>5, PollOwned
  <2>2. /\ \A p \in Source : eos'[p] = (eos[p] \/ Drained(p, batch))
        /\ eosSent' = (eosSent \/ AllEos(batch)) /\ UNCHANGED pads
    BY <1>5, <2>1 DEF Poll, Emit
  <2>3. AllEos(batch) <=> \A p \in Source : eos[p] \/ Drained(p, batch)
    BY MuxAssumption DEF AllEos, Settled
  <2> QED
    BY <2>2, <2>3 DEF Settled
<1>6. CASE Tick \/ Stop \/ Start \/ UNCHANGED vars
  BY <1>3, <1>6 DEF Tick, Stop, Start, vars, padState
<1> QED
  BY <1>1, <1>2, <1>3, <1>4, <1>5, <1>6 DEF Next

LEMMA SettledHolds == Static /\ Spec => []Settled
<1> SUFFICES ASSUME Static PROVE Spec => []Settled
  OBVIOUS
<1>1. Init => Settled
  BY MuxAssumption DEF Init, Settled, Static
<1>2. Base /\ Settled /\ [Next]_vars => Settled'
  BY StepSettled
<1> QED
  BY <1>1, <1>2, BaseHolds, PTL DEF Spec

\* When the pipeline EOS is sent, every decoded frame has been batched or
\* closed: nothing is left in a deque or in a thread.
THEOREM EosIsComplete == Static /\ Spec => []EosComplete
<1> SUFFICES ASSUME Static PROVE Spec => []EosComplete
  OBVIOUS
<1>1. IndexNotReused
  BY DEF Static
<1>2. Base /\ Order /\ Ending /\ Settled /\ NoFrameLost => EosComplete
  <2> SUFFICES ASSUME Base, Order, Ending, Settled, NoFrameLost, eosSent,
                      NEW f \in Decoded
               PROVE  f \in delivered \cup released
    BY DEF EosComplete
  <2>1. f[1] \in Source /\ eos[f[1]]
    BY DEF Decoded, Frame, Settled
  <2>2. f \notin Present
    BY <1>1, <2>1, EndedIsEmpty
  <2> QED
    BY <2>2 DEF NoFrameLost
<1> QED
  BY <1>1, <1>2, BaseHolds, OrderHolds, EndingHolds, NothingLost, SettledHolds, PTL

-----------------------------------------------------------------------------
(* The refinement. *)

\* A step that takes the frames F away, and hands nothing out.
LEMMA DropMaps ==
  ASSUME ~Lossless, NEW F, Present' = Present \ F,
         UNCHANGED <<decoded, delivered, told, eosSent>>
  PROVE  [Channel!Next]_(Channel!vars)
<1>1. Ended' = Ended
  BY DEF Ended
<1>2. CASE Present' = Present
  BY <1>1, <1>2 DEF Channel!vars
<1>3. CASE Present' # Present
  <2>1. Present \cap F \in (SUBSET Present) \ {{}} /\ Present' = Present \ (Present \cap F)
    BY <1>3
  <2>2. Channel!Drop
    BY <1>1, <2>1 DEF Channel!Drop
  <2> QED
    BY <2>2 DEF Channel!Next
<1> QED
  BY <1>2, <1>3

LEMMA StepMaps ==
  ASSUME Static, ~Lossless, Base, Order, Ending, Settled, [Next]_vars
  PROVE  [Channel!Next]_(Channel!vars)
<1> USE DEF Base
<1>1. ASSUME NEW s \in Source, AddPad(s) \/ RemovePad(s) PROVE FALSE
  BY <1>1 DEF AddPad, RemovePad, Settled, Static, Lookup
<1>2. ASSUME NEW s \in Source, Call(s) PROVE Channel!Offer(s)
  <2>1. /\ pc[s] = "idle" /\ decoded[s] < MaxFrames
        /\ decoded' = [decoded EXCEPT ![s] = @ + 1]
        /\ UNCHANGED <<delivered, told, eosSent>>
    BY <1>2 DEF Call
  <2>2. s \notin Ended /\ Ended' = Ended
    BY <2>1 DEF Ended, Ending
  <2>3. Present' = Present \cup {<<s, decoded'[s]>>}
    BY <1>2, <2>1, CallOwned DEF Present, TypeOK
  <2> QED
    BY <2>1, <2>2, <2>3 DEF Channel!Offer
<1>3. ASSUME NEW s \in Source, PushRefused(s) PROVE [Channel!Next]_(Channel!vars)
  <2>1. pc[s] = "calling" /\ UNCHANGED <<pads, decoded, delivered, told, eosSent>> /\ Refuse(s)
    BY <1>3 DEF PushRefused, padState
  <2>2. Present' = Present \ {<<s, decoded[s]>>}
    BY <2>1, RefuseOwned, HandIn DEF Present, OneOwner
  <2> QED
    BY <2>1, <2>2, DropMaps
<1>4. ASSUME NEW s \in Source, Push(s) PROVE [Channel!Next]_(Channel!vars)
  <2>1. /\ pc[s] = "calling" /\ UNCHANGED <<pads, decoded, delivered, told, eosSent>>
        /\ <<s, decoded[s]>> \in InHand
    BY <1>4, HandIn DEF Push, padState
  <2>2. PICK p \in Lookup(IndexOf[s]) :
          /\ p \in pads /\ p \in Source
          /\ \/ \E out \in SUBSET queue[p] : Enqueue(s, p, out)
             \/ pc' = [pc EXCEPT ![s] = "blocked"] /\ UNCHANGED <<queue, released>>
             \/ Refuse(s)
    BY <1>4, PushCases
  <2>3. ASSUME NEW out \in SUBSET queue[p], Enqueue(s, p, out)
        PROVE  [Channel!Next]_(Channel!vars)
    <3>1. /\ InHand' = InHand \ {<<s, decoded[s]>>}
          /\ Queued' = (Queued \ out) \cup {<<s, decoded[s]>>}
      BY <2>1, <2>2, <2>3, EnqueueOwned
    <3>2. InHand \cap out = {}
      BY <2>2 DEF OneOwner, Queued
    <3>3. Present' = Present \ out
      BY <2>1, <3>1, <3>2 DEF Present
    <3> QED
      BY <2>1, <3>3, DropMaps
  <2>4. CASE pc' = [pc EXCEPT ![s] = "blocked"] /\ UNCHANGED <<queue, released>>
    <3>1. InHand' = InHand /\ Queued' = Queued
      BY <2>1, <2>4, HandOf DEF Queued
    <3>2. Present' = Present \ {}
      BY <3>1 DEF Present
    <3> QED
      BY <2>1, <3>2, DropMaps
  <2>5. CASE Refuse(s)
    <3>1. Present' = Present \ {<<s, decoded[s]>>}
      BY <2>1, <2>5, RefuseOwned DEF Present, OneOwner
    <3> QED
      BY <2>1, <3>1, DropMaps
  <2> QED
    BY <2>2, <2>3, <2>4, <2>5
<1>5. ASSUME NEW s \in Source, Resume(s) PROVE [Channel!Next]_(Channel!vars)
  <2>1. /\ pc[s] = "blocked" /\ target[s] \in Source /\ <<s, decoded[s]>> \in InHand
        /\ UNCHANGED <<pads, decoded, delivered, told, eosSent>>
        /\ Refuse(s) \/ Enqueue(s, target[s], {})
    BY <1>5, HandIn DEF Resume, padState, TypeOK
  <2>2. CASE Refuse(s)
    <3>1. Present' = Present \ {<<s, decoded[s]>>}
      BY <2>1, <2>2, RefuseOwned DEF Present, OneOwner
    <3> QED
      BY <2>1, <3>1, DropMaps
  <2>3. CASE Enqueue(s, target[s], {})
    <3>1. /\ InHand' = InHand \ {<<s, decoded[s]>>}
          /\ Queued' = Queued \cup {<<s, decoded[s]>>}
      BY <2>1, <2>3, EnqueueOwned DEF Settled
    <3>2. Present' = Present \ {}
      BY <2>1, <3>1 DEF Present
    <3> QED
      BY <2>1, <3>2, DropMaps
  <2> QED
    BY <2>1, <2>2, <2>3
<1>6. CASE Poll
  <2>1. PICK batch \in {{}, Picks} :
          Queued' = Queued \ batch /\ delivered' = delivered \cup batch /\ Emit(batch)
    BY <1>6, PollOwned
  <2>2. InHand' = InHand /\ batch \subseteq Queued /\ UNCHANGED decoded
    BY <1>6, PollOwned, PicksQueued DEF Poll, threads
  <2>3. Present' = Present \ batch /\ batch \subseteq Present
    BY <2>1, <2>2 DEF Present, OneOwner
  <2> DEFINE E == {s \in Source : Drained(s, batch)}
  <2>4. \A f \in batch, g \in Present \ batch : f[1] = g[1] => f[2] < g[2]
    BY <2>1, <2>2, BatchOldest DEF Present
  <2>5. \A g \in Present \ batch : g[1] \notin E
    <3> SUFFICES ASSUME NEW s \in Source, Drained(s, batch), NEW g \in Present \ batch, g[1] = s
                 PROVE  FALSE
      OBVIOUS
    <3>1. pc[s] = "done" /\ queue[s] \subseteq batch
      BY DEF Drained, Ending
    <3>2. g \notin InHand
      BY <3>1 DEF InHand, Hand
    <3>3. PICK p \in pads : g \in queue[p]
      BY <3>2 DEF Present, Queued
    <3>4. p = s
      BY <3>3 DEF Order, Routed, Static, IndexNotReused, TypeOK
    <3> QED
      BY <3>1, <3>3, <3>4
  <2>6. Ended' = Ended \cup E
    <3>1. \A s \in Source : told'[s] = told[s] \cup Flushed(s, batch)
      BY <2>1 DEF Emit
    <3>2. \A s \in Source : "stream-eos" \in Flushed(s, batch) <=> Drained(s, batch)
      BY DEF Flushed, Ending, Kind
    <3> QED
      BY <3>1, <3>2 DEF Ended
  <2>7. eosSent' = (eosSent \/ Ended' = Source)
    <3>1. eosSent' = (eosSent \/ AllEos(batch))
      BY <2>1 DEF Emit
    <3>2. \A s \in Source : s \in Ended <=> eos[s]
      BY DEF Ended, Ending
    <3>3. AllEos(batch) <=> \A s \in Source : s \in Ended \cup E
      BY <3>2, MuxAssumption DEF AllEos, Settled
    <3>4. Ended \subseteq Source
      BY DEF Ended
    <3> QED
      BY <2>6, <3>1, <3>3, <3>4
  <2>8. batch \in SUBSET Present /\ E \in SUBSET Source
    BY <2>3
  <2> HIDE DEF E
  <2>9. Channel!Deliver
    BY <2>1, <2>2, <2>3, <2>4, <2>5, <2>6, <2>7, <2>8 DEF Channel!Deliver
  <2> QED
    BY <2>9 DEF Channel!Next
<1>7. CASE \/ \E s \in Source : Raise(s) \/ PushEos(s)
           \/ Tick \/ Stop \/ Start \/ UNCHANGED vars
  <2>1. UNCHANGED <<told, eosSent>>
    BY <1>7 DEF Raise, PushEos, Tick, Stop, Start, vars
  <2>2. Present' = Present \ {} /\ UNCHANGED <<decoded, delivered>>
    BY <1>7, StillOwned DEF Present
  <2> QED
    BY <2>1, <2>2, DropMaps
<1> QED
  BY <1>1, <1>2, <1>3, <1>4, <1>5, <1>6, <1>7 DEF Next, Channel!Next

\* To the consumer of its batches, the mux is one ordered channel per source
\* that may drop frames, ends with its stream-eos and is finished exactly when
\* every source has ended.
THEOREM ImplementsChannel == Static /\ ~Lossless /\ Spec => ChannelSpec
<1> SUFFICES ASSUME Static, ~Lossless PROVE Spec => ChannelSpec
  OBVIOUS
<1>1. IndexNotReused
  BY DEF Static
<1>2. Init => Channel!Init
  <2> SUFFICES ASSUME Init PROVE Channel!Init
    OBVIOUS
  <2>1. Present = {}
    BY MuxAssumption DEF Init, Present, Queued, InHand, Hand
  <2>2. Ended = {}
    BY DEF Init, Ended
  <2> QED
    BY <2>1, <2>2 DEF Init, Channel!Init
<1>3. Base /\ Order /\ Ending /\ Settled /\ [Next]_vars => [Channel!Next]_(Channel!vars)
  BY StepMaps
<1> QED
  BY <1>1, <1>2, <1>3, BaseHolds, OrderHolds, EndingHolds, SettledHolds, PTL
  DEF Spec, ChannelSpec, Channel!Spec

-----------------------------------------------------------------------------
(* The inductive invariant of the muxed pipeline. *)

\* The types of the pipeline's own variables.
Shape ==
  /\ app \in {"running", "joining sources", "joining runner", "stopped"}
  /\ reading \subseteq Source
  /\ runner \in {"looping", "polling", "rendering", "showing", "ended"}
  /\ {ending, canvas, done, late} \subseteq BOOLEAN

\* A batch is in the runner's hands from its poll to its last frame, and its
\* frames are shown after they were imported.
Batch ==
  /\ slots \subseteq delivered /\ imported \subseteq delivered /\ shown \subseteq imported
  /\ slots # {} => runner \in {"rendering", "showing"}
  /\ runner = "showing" => slots \subseteq imported

\* stop() closes the canvas last.
Closing ==
  /\ canvas <=> app # "stopped"
  /\ app = "stopped" /\ ~late => runner = "ended"

\* done follows the pipeline EOS, after the batch that came with it.
Told ==
  /\ done \/ ending => eosSent
  /\ done => slots = {}

\* The sink is behind the runner's batch, source by source.
Behind == \A f \in slots, g \in shown : f[1] = g[1] => g[2] < f[2]

MuxedInv == Shape /\ Batch /\ Closing /\ Told /\ Behind

-----------------------------------------------------------------------------
(* The pipeline is a caller of the mux. *)

LEMMA PadsFixed == Static
  BY MuxedAssumption DEF Static, IndexNotReused

LEMMA StepOfMux == [MuxedNext]_muxedVars => [Next]_vars
<1> SUFFICES ASSUME [MuxedNext]_muxedVars PROVE [Next]_vars
  OBVIOUS
<1>1. ASSUME NEW s \in Source, SourceStep(s) PROVE [Next]_vars
  BY <1>1 DEF SourceStep, Loop, Decode, Pushing, End, Next
<1>2. CASE RunnerStep
  BY <1>2 DEF RunnerStep, RunnerLoop, RunnerPoll, Render, Show, ShowFails, Next
<1>3. CASE BeginStop \/ Stopping
  BY <1>3 DEF BeginStop, Stopping, StopRunner, CloseCanvas, Next
<1>4. CASE Tick \/ UNCHANGED muxedVars
  BY <1>4 DEF Next, muxedVars
<1> QED
  BY <1>1, <1>2, <1>3, <1>4 DEF MuxedNext

\* Threads, runner and stop() of MuxedPipeline call the mux only as StreamMux
\* lets its callers do: every theorem about Spec holds for MuxedSpec.
THEOREM UsesMux == MuxedSpec => Spec
<1>1. MuxedInit => Init
  BY DEF MuxedInit
<1> QED
  BY <1>1, StepOfMux, PTL DEF MuxedSpec, Spec

LEMMA MuxHolds == MuxedSpec => []Base /\ []EosComplete /\ []InOrder
<1>1. Static
  BY PadsFixed
<1> QED
  BY <1>1, UsesMux, BaseHolds, EosIsComplete, InOrderAlways, PTL

-----------------------------------------------------------------------------
(* What the mux does in the steps of the pipeline. *)

\* No step takes back a batch or the pipeline EOS.
LEMMA MuxGoesOn ==
  ASSUME [MuxedNext]_muxedVars, Base
  PROVE  delivered \subseteq delivered' /\ (eosSent => eosSent')
<1>1. ASSUME NEW s \in Source, SourceStep(s) PROVE UNCHANGED <<delivered, eosSent>>
  BY <1>1 DEF SourceStep, Loop, Decode, Pushing, End, Call, PushRefused, Push, Resume,
              PushEos, vars
<1>2. CASE RunnerPoll
  <2>1. PICK batch \in {{}, Picks} : Emit(batch)
    BY <1>2, PollOwned DEF RunnerPoll, Base
  <2> QED
    BY <2>1 DEF Emit
<1>3. CASE Render \/ Show \/ ShowFails \/ RunnerLoop \/ BeginStop \/ CloseCanvas \/ UNCHANGED muxedVars
  <2>1. UNCHANGED vars
    BY <1>3 DEF Render, Show, ShowFails, RunnerLoop, BeginStop, CloseCanvas, muxedVars
  <2> QED
    BY <2>1 DEF vars
<1>4. CASE StopRunner \/ Tick
  <2>1. UNCHANGED <<delivered, eosSent>>
    BY <1>4 DEF StopRunner, Stop, Tick
  <2> QED
    BY <2>1
<1> QED
  BY <1>1, <1>2, <1>3, <1>4 DEF MuxedNext, RunnerStep, Stopping

\* A poll hands out frames that were queued, and after the pipeline EOS none.
LEMMA PollHands ==
  ASSUME Base, EosComplete, Poll
  PROVE  /\ delivered' \ delivered \subseteq Queued
         /\ eosSent => delivered' = delivered
<1>1. PICK batch \in {{}, Picks} : delivered' = delivered \cup batch
  BY PollOwned DEF Base
<1>2. batch \subseteq Queued
  BY PicksQueued
<1>3. eosSent => Queued = {}
  BY DEF EosComplete, Base, Past, OneOwner
<1> QED
  BY <1>1, <1>2, <1>3

\* The threads and stop() leave the runner alone.
LEMMA OthersKeep ==
  ASSUME MuxedInv, Base, [MuxedNext]_muxedVars, UNCHANGED consumer, Shape', Closing'
  PROVE  MuxedInv'
<1>1. delivered \subseteq delivered' /\ (eosSent => eosSent')
  BY MuxGoesOn
<1> QED
  BY <1>1 DEF MuxedInv, Batch, Told, Behind, consumer

-----------------------------------------------------------------------------
LEMMA PollKeeps ==
  ASSUME MuxedInv, Base, EosComplete, InOrder, RunnerPoll
  PROVE  MuxedInv'
<1>1. /\ Poll /\ runner = "polling"
      /\ slots' = delivered' \ delivered
      /\ UNCHANGED <<app, reading, imported, shown, canvas, late>>
  BY DEF RunnerPoll
<1>2. slots' \subseteq Queued /\ (eosSent => slots' = {})
  BY <1>1, PollHands
<1>3. delivered \subseteq delivered' /\ (eosSent => eosSent')
  <2>1. [MuxedNext]_muxedVars
    BY DEF MuxedNext, RunnerStep
  <2> QED
    BY <2>1, MuxGoesOn
<1>4. IF slots' = {}
      THEN runner' = "looping" /\ ending' = FALSE /\ done' = (done \/ (eosSent' /\ ~eosSent))
      ELSE runner' = "rendering" /\ ending' = (eosSent' /\ ~eosSent) /\ done' = done
  BY DEF RunnerPoll
<1>5. Shape' /\ Closing'
  <2>1. runner' \in {"looping", "rendering"} /\ {ending', done'} \subseteq BOOLEAN
    BY <1>4 DEF MuxedInv, Shape
  <2> QED
    BY <1>1, <2>1 DEF MuxedInv, Shape, Closing
<1>6. Batch'
  BY <1>1, <1>3, <1>4 DEF MuxedInv, Batch
<1>7. Told'
  BY <1>2, <1>3, <1>4 DEF MuxedInv, Told
<1>8. Behind'
  <2> SUFFICES ASSUME NEW f \in slots', NEW g \in shown', f[1] = g[1] PROVE g[2] < f[2]
    BY DEF Behind
  <2>1. f \in Present /\ g \in delivered
    BY <1>1, <1>2 DEF Present, MuxedInv, Batch
  <2> QED
    BY <2>1 DEF InOrder
<1> QED
  BY <1>5, <1>6, <1>7, <1>8 DEF MuxedInv

LEMMA RenderKeeps ==
  ASSUME MuxedInv, Render
  PROVE  MuxedInv'
<1>1. /\ UNCHANGED <<delivered, eosSent, app, reading, shown, canvas, late>>
      /\ runner = "rendering"
  BY DEF Render, vars
<1>2. PICK part \in SUBSET slots : imported' = imported \cup part
  BY DEF Render
<1>3. \/ /\ runner' = "showing" /\ imported' = imported \cup slots
         /\ UNCHANGED <<slots, ending, done>>
      \/ /\ slots' = {} /\ runner' = "looping"
         /\ done' = (done \/ ending) /\ ending' = FALSE
  BY DEF Render, Finish
<1>4. app = "stopped" => late
  BY <1>1 DEF MuxedInv, Closing
<1>5. Shape' /\ Closing'
  BY <1>1, <1>3, <1>4 DEF MuxedInv, Shape, Closing
<1>6. Batch'
  BY <1>1, <1>2, <1>3 DEF MuxedInv, Batch
<1>7. Told'
  <2>1. eosSent' = eosSent /\ (done \/ ending => eosSent) /\ (done => slots = {})
    BY <1>1 DEF MuxedInv, Told
  <2>2. CASE slots' = slots /\ ending' = ending /\ done' = done
    BY <2>1, <2>2 DEF Told
  <2>3. CASE slots' = {} /\ done' = (done \/ ending) /\ ending' = FALSE
    BY <2>1, <2>3 DEF Told
  <2> QED
    BY <1>3, <2>2, <2>3
<1>8. Behind'
  BY <1>1, <1>3 DEF MuxedInv, Behind
<1> QED
  BY <1>5, <1>6, <1>7, <1>8 DEF MuxedInv

LEMMA ShowKeeps ==
  ASSUME MuxedInv, Base, Show
  PROVE  MuxedInv'
<1>1. /\ UNCHANGED <<delivered, eosSent, app, reading, imported, canvas, late>>
      /\ runner = "showing"
  BY DEF Show, vars
<1>2. PICK f \in slots :
        /\ \A g \in slots : f[1] = g[1] => f[2] <= g[2]
        /\ shown' = shown \cup {f} /\ slots' = slots \ {f}
  BY DEF Show
<1>3. IF slots' = {} THEN runner' = "looping" /\ done' = (done \/ ending) /\ ending' = FALSE
      ELSE UNCHANGED <<runner, ending, done>>
  BY DEF Show, Finish
<1>4. Shape' /\ Closing'
  BY <1>1, <1>3 DEF MuxedInv, Shape, Closing
<1>5. Batch' /\ Told'
  BY <1>1, <1>2, <1>3 DEF MuxedInv, Batch, Told
<1>6. Behind'
  <2> SUFFICES ASSUME NEW h \in slots', NEW g \in shown', h[1] = g[1] PROVE g[2] < h[2]
    BY DEF Behind
  <2>1. CASE g \in shown
    BY <1>2, <2>1 DEF MuxedInv, Behind
  <2>2. CASE g = f
    <3>1. h \in Frame /\ f \in Frame /\ h # f
      BY <1>2 DEF MuxedInv, Batch, Base, TypeOK
    <3>2. h[2] # f[2] /\ h[2] \in Int /\ f[2] \in Int
      BY <2>2, <3>1 DEF Frame
    <3> QED
      BY <1>2, <2>2, <3>2
  <2> QED
    BY <1>2, <2>1, <2>2
<1> QED
  BY <1>4, <1>5, <1>6 DEF MuxedInv

LEMMA StepMuxed ==
  ASSUME MuxedInv, Base, EosComplete, InOrder, [MuxedNext]_muxedVars
  PROVE  MuxedInv'
<1>1. ASSUME NEW s \in Source, SourceStep(s) PROVE MuxedInv'
  <2>1. UNCHANGED <<app, consumer, canvas, late>> /\ reading' \subseteq reading \cup {s}
    BY <1>1 DEF SourceStep, Loop, Decode, Pushing, End, mine, consumer
  <2>2. Shape' /\ Closing'
    BY <2>1 DEF MuxedInv, Shape, Closing, consumer
  <2> QED
    BY <2>1, <2>2, OthersKeep
<1>2. CASE RunnerPoll
  BY <1>2, PollKeeps
<1>3. CASE Render
  BY <1>3, RenderKeeps
<1>4. CASE Show
  BY <1>4, ShowKeeps
<1>5. CASE ShowFails
  <2>1. /\ UNCHANGED <<delivered, eosSent, app, reading, imported, shown, canvas, late>>
        /\ runner = "showing" /\ slots' = {} /\ runner' = "looping"
        /\ done' = (done \/ ending) /\ ending' = FALSE
    BY <1>5 DEF ShowFails, Finish, vars
  <2> QED
    BY <2>1 DEF MuxedInv, Shape, Batch, Closing, Told, Behind
<1>6. CASE RunnerLoop
  <2>1. /\ UNCHANGED <<delivered, eosSent, app, reading, slots, ending, imported, shown,
                       canvas, done, late>>
        /\ runner = "looping" /\ runner' \in {"polling", "ended"}
    BY <1>6 DEF RunnerLoop, vars
  <2> QED
    BY <2>1 DEF MuxedInv, Shape, Batch, Closing, Told, Behind
<1>7. CASE BeginStop \/ StopRunner
  <2>1. /\ UNCHANGED <<reading, consumer, canvas, late>>
        /\ app' \in {"joining sources", "joining runner"} /\ app # "stopped"
    BY <1>7 DEF BeginStop, StopRunner
  <2>2. Shape' /\ Closing'
    BY <2>1 DEF MuxedInv, Shape, Closing, consumer
  <2> QED
    BY <2>1, <2>2, OthersKeep
<1>8. CASE CloseCanvas
  <2>1. /\ UNCHANGED <<reading, consumer>> /\ app' = "stopped" /\ canvas' = FALSE
        /\ late' = (runner # "ended")
    BY <1>8 DEF CloseCanvas
  <2>2. Shape' /\ Closing'
    BY <2>1 DEF MuxedInv, Shape, Closing, consumer
  <2> QED
    BY <2>1, <2>2, OthersKeep
<1>9. CASE (Tick /\ UNCHANGED mine) \/ UNCHANGED muxedVars
  <2>1. UNCHANGED <<app, reading, consumer, canvas, late>>
    BY <1>9 DEF mine, muxedVars, consumer
  <2>2. Shape' /\ Closing'
    BY <2>1 DEF MuxedInv, Shape, Closing, consumer
  <2> QED
    BY <2>1, <2>2, OthersKeep
<1> QED
  BY <1>1, <1>2, <1>3, <1>4, <1>5, <1>6, <1>7, <1>8, <1>9 DEF MuxedNext, RunnerStep, Stopping

LEMMA MuxedHolds == MuxedSpec => []MuxedInv
<1>1. MuxedInit => MuxedInv
  BY DEF MuxedInit, Init, MuxedInv, Shape, Batch, Closing, Told, Behind
<1>2. MuxedInv /\ Base /\ EosComplete /\ InOrder /\ [MuxedNext]_muxedVars => MuxedInv'
  BY StepMuxed
<1> QED
  BY <1>1, <1>2, MuxHolds, PTL DEF MuxedSpec

-----------------------------------------------------------------------------
\* The pipeline's variables keep their types: a shown frame was imported, and
\* an imported one came in a batch.
THEOREM MuxedTyped == MuxedSpec => []MuxedTypeOK
<1>1. Base /\ MuxedInv => MuxedTypeOK
  BY DEF Base, MuxedInv, Shape, Batch, MuxedTypeOK
<1> QED
  BY <1>1, MuxHolds, MuxedHolds, PTL

\* stop() never takes the canvas from under a batch, unless its join of the
\* runner timed out.
THEOREM CanvasStays == MuxedSpec => []CanvasThere
<1>1. MuxedInv => CanvasThere
  BY DEF MuxedInv, Shape, Closing, CanvasThere
<1> QED
  BY <1>1, MuxedHolds, PTL

\* When wait() returns, every decoded frame has left threads, mux and runner.
THEOREM WaitIsComplete == MuxedSpec => []DoneMeansAll
<1>1. Base /\ EosComplete /\ MuxedInv => DoneMeansAll
  <2> SUFFICES ASSUME Base, EosComplete, MuxedInv, done
               PROVE  InHand = {} /\ Queued = {} /\ slots = {}
    BY DEF DoneMeansAll
  <2>1. Decoded \subseteq delivered \cup released /\ slots = {}
    BY DEF MuxedInv, Told, EosComplete
  <2>2. InHand \subseteq Decoded /\ Queued \subseteq Decoded
    BY OwnedDecoded DEF Base, Past
  <2> QED
    BY <2>1, <2>2 DEF Base, OneOwner
<1> QED
  BY <1>1, MuxHolds, MuxedHolds, PTL

\* The sink never gets a frame after a later one of the same source, whatever
\* batches fail and however the sources are interleaved.
THEOREM SinkOrdered == MuxedSpec => SinkInOrder
<1>1. MuxedInv /\ [MuxedNext]_muxedVars =>
        [\A f \in shown' \ shown, g \in shown : f[1] = g[1] => g[2] < f[2]]_muxedVars
  <2> SUFFICES ASSUME MuxedInv, MuxedNext, NEW f \in shown' \ shown, NEW g \in shown, f[1] = g[1]
               PROVE  g[2] < f[2]
    OBVIOUS
  <2>1. ASSUME NEW s \in Source, SourceStep(s) PROVE UNCHANGED shown
    BY <2>1 DEF SourceStep, Loop, Decode, Pushing, End, mine, consumer
  <2>2. CASE \/ RunnerPoll \/ Render \/ ShowFails \/ RunnerLoop \/ BeginStop \/ Stopping
             \/ Tick /\ UNCHANGED mine
    BY <2>2 DEF RunnerPoll, Render, ShowFails, RunnerLoop, BeginStop, Stopping, StopRunner,
                CloseCanvas, mine, consumer
  <2>3. CASE Show
    <3>1. f \in slots
      BY <2>3 DEF Show
    <3> QED
      BY <3>1 DEF MuxedInv, Behind
  <2> QED
    BY <2>1, <2>2, <2>3 DEF MuxedNext, RunnerStep
<1> QED
  BY <1>1, MuxedHolds, PTL DEF MuxedSpec, SinkInOrder

=============================================================================
