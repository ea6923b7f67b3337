----------------------- MODULE AdvancedPipelineProofs -----------------------
(***************************************************************************)
(* Proofs about AdvancedPipeline, for every set of cameras, every queue    *)
(* and batch size and both backends: an index has one owner although it is *)
(* handed out again, the record of a camera stays out of the batches of    *)
(* the others, no record is held or sent twice, and run() leaves no record *)
(* of the workers it joined behind.                                        *)
(***************************************************************************)
EXTENDS AdvancedPipeline, SequenceTheorems, FiniteSetTheorems, TLAPS

\* A worker that was started has an index, and a frame in its hands is one of
\* those it may decode.
Started ==
  \A w \in Worker :
    /\ made[w] <= MaxFrames[w]
    /\ pc[w] \in {"process", "publish"} => made[w] >= 1
    /\ pc[w] # "none" => at[w] # NoIndex

\* Which indices are out, and why: a registered camera is a source or is being
\* removed, and it was added.
Indices ==
  /\ \A c \in Camera : reg[c] # NoIndex => reg[c] < next /\ c \in added
  /\ \A c \in Camera : reg[c] # NoIndex <=> source[c] # NoIndex \/ c \in leaving
  /\ \A c \in leaving : source[c] = NoIndex
  /\ leaving = {} \/ \E c \in Camera : leaving = {c}

\* A worker of a source has the index of that source, and only cameras that
\* were added have workers with an index.
WorkersPlaced ==
  \A w \in Worker :
    /\ w[1] \in Sources => at[w] \in {NoIndex, source[w[1]]}
    /\ at[w] # NoIndex => w[1] \in added

\* So a queued record of a source has the index of that source.
QueuePlaced ==
  \A j \in DOMAIN queue :
    /\ CameraOf(queue[j][2]) \in added
    /\ CameraOf(queue[j][2]) \in Sources => queue[j][1] = source[CameraOf(queue[j][2])]

\* No record exists before its camera was added.
RecordsPlaced ==
  /\ \A r \in hand : CameraOf(r) \in added
  /\ \A c \in Camera : \A r \in records[c] : CameraOf(r) \in added

Placed == WorkersPlaced /\ QueuePlaced /\ RecordsPlaced

Inv == AdvTypeOK /\ Started /\ IndexOwner /\ Indices /\ Placed /\ OwnBatch

\* The steps that hand out indices or take them back; the others leave the
\* tables of the sources alone.
Indexing == \E c \in Camera : AddSource(c) \/ BeginRemove(c) \/ EndRemove(c)

\* The steps of main.
MainStep ==
  \/ Prepare \/ Run \/ Starting \/ Joined \/ JoinPublisher \/ FlushSwap \/ Return
  \/ \E c \in Camera : FlushNext(c)

LEMMA NextCases ==
  ASSUME AdvNext
  PROVE  \/ Indexing \/ RemoveFlush \/ StopCalled \/ MainStep
         \/ \E w \in Worker : Test(w) \/ Lock(w) \/ Read(w) \/ Infer(w) \/ PublishFrame(w)
         \/ Publisher
BY Zenon DEF AdvNext, Removing, Ending, Step, Indexing, MainStep

-----------------------------------------------------------------------------
(* Types. *)

\* A flush keeps the types, whichever thread does it.
LEMMA SwapType ==
  ASSUME PubTypeOK, NEW t \in Thread, SwapAndSend(t)
  PROVE  /\ records' \in [Camera -> SUBSET Record] /\ sent' \in [Record -> Nat]
         /\ target' \in [Thread -> SUBSET Camera] /\ payload' \in [Thread -> SUBSET Record]
<1>1. /\ records \in [Camera -> SUBSET Record] /\ sent \in [Record -> Nat]
      /\ target \in [Thread -> SUBSET Camera] /\ payload \in [Thread -> SUBSET Record]
  BY DEF PubTypeOK
<1>2. \A c \in Camera : (IF c \in target[t] THEN {} ELSE records[c]) \in SUBSET Record
  BY <1>1
<1>3. \A r \in Record : (IF r \in payload[t] THEN sent[r] + 1 ELSE sent[r]) \in Nat
  BY <1>1
<1> QED
  BY <1>1, <1>2, <1>3 DEF SwapAndSend

LEMMA ReadType ==
  ASSUME PubTypeOK, NEW t \in Thread, NEW c \in Camera, NEW b \in SUBSET Record,
         ReadBatch(t, c, b)
  PROVE  target' \in [Thread -> SUBSET Camera] /\ payload' \in [Thread -> SUBSET Record]
BY DEF PubTypeOK, ReadBatch

LEMMA PublisherType ==
  ASSUME PubTypeOK, WorkerStep
  PROVE  PubTypeOK'
<1>1. "worker" \in Thread
  BY DEF Thread
<1>2. CASE Take
  <2>1. queue # <<>> /\ queue \in Seq(Index \X Record) /\ Len(queue) <= QueueSize
    BY <1>2 DEF Take, PubTypeOK
  <2>2. /\ Head(queue) \in Index \X Record /\ Tail(queue) \in Seq(Index \X Record)
        /\ Len(Tail(queue)) = Len(queue) - 1 /\ Len(queue) \in Nat
    BY <2>1, HeadTailProperties, LenProperties
  <2>3. queue' \in Seq(Index \X Record) /\ Len(queue') <= QueueSize
    BY <1>2, <2>1, <2>2, PublisherAssumption DEF Take
  <2> DEFINE found == {c \in Camera : reg[c] = Head(queue)[1]}
  <2>4. \/ UNCHANGED <<pub, hand, target>>
        \/ /\ pub' = "holding" /\ hand' = {Head(queue)[2]}
           /\ target' = [target EXCEPT !["worker"] = found]
    BY <1>2 DEF Take
  <2>5. hand' \subseteq Record /\ target' \in [Thread -> SUBSET Camera]
        /\ pub' \in {"off", "loop", "holding", "appended", "flushing", "ended"}
    BY <1>1, <2>2, <2>4 DEF PubTypeOK
  <2> QED
    BY <1>2, <2>3, <2>5 DEF Take, PubTypeOK
<1>3. CASE AppendRecord
  <2>1. PICK c \in target["worker"] : records' = [records EXCEPT ![c] = @ \cup hand]
    BY <1>3 DEF AppendRecord
  <2>2. c \in Camera /\ records[c] \cup hand \in SUBSET Record
    BY <1>1 DEF PubTypeOK
  <2>3. records' \in [Camera -> SUBSET Record]
    BY <2>1, <2>2 DEF PubTypeOK
  <2> QED
    BY <1>3, <2>3 DEF AppendRecord, PubTypeOK
<1>6. CASE ShouldFlush
  <2>1. PICK c \in target["worker"] : \E b \in {{}, records[c]} : ReadBatch("worker", c, b)
    BY <1>6 DEF ShouldFlush
  <2>2. c \in Camera /\ records[c] \in SUBSET Record /\ {} \in SUBSET Record
    BY <1>1 DEF PubTypeOK
  <2>3. target' \in [Thread -> SUBSET Camera] /\ payload' \in [Thread -> SUBSET Record]
    BY <1>1, <2>1, <2>2, ReadType
  <2> QED
    BY <1>6, <2>3 DEF ShouldFlush, PubTypeOK
<1>4. CASE WorkerFlush
  <2>1. /\ records' \in [Camera -> SUBSET Record] /\ sent' \in [Record -> Nat]
        /\ target' \in [Thread -> SUBSET Camera] /\ payload' \in [Thread -> SUBSET Record]
    BY <1>1, <1>4, SwapType DEF WorkerFlush
  <2> QED
    BY <1>4, <2>1 DEF WorkerFlush, PubTypeOK
<1>5. CASE Leave
  BY <1>5 DEF Leave, PubTypeOK
<1> QED
  BY <1>2, <1>3, <1>4, <1>5, <1>6 DEF WorkerStep

\* The other calls of the publisher.
LEMMA CallType ==
  ASSUME PubTypeOK, NEW c \in Camera,
         \/ \E i \in Index : Register(c, i)
         \/ UnregisterFlush(c) \/ ControlFlush \/ Unregister(c) \/ Enable
         \/ \E i \in Index, r \in Record : Publish(i, r)
         \/ Disable \/ FinalFlush(c) \/ MainFlush
  PROVE  PubTypeOK'
<1>1. "control" \in Thread /\ "main" \in Thread
  BY DEF Thread
<1>2. CASE \/ \E i \in Index : Register(c, i)
           \/ Unregister(c) \/ Enable \/ Disable
  BY <1>2 DEF Register, Unregister, Enable, Disable, PubTypeOK
<1>3. CASE UnregisterFlush(c) \/ FinalFlush(c)
  <2>1. records[c] \in SUBSET Record
    BY DEF PubTypeOK
  <2>2. target' \in [Thread -> SUBSET Camera] /\ payload' \in [Thread -> SUBSET Record]
    BY <1>1, <1>3, <2>1, ReadType DEF UnregisterFlush, FinalFlush
  <2> QED
    BY <1>3, <2>2 DEF UnregisterFlush, FinalFlush, PubTypeOK
<1>4. CASE ControlFlush \/ MainFlush
  <2>1. /\ records' \in [Camera -> SUBSET Record] /\ sent' \in [Record -> Nat]
        /\ target' \in [Thread -> SUBSET Camera] /\ payload' \in [Thread -> SUBSET Record]
    BY <1>1, <1>4, SwapType DEF ControlFlush, MainFlush
  <2> QED
    BY <1>4, <2>1 DEF ControlFlush, MainFlush, PubTypeOK
<1>5. CASE \E i \in Index, r \in Record : Publish(i, r)
  <2>1. PICK i \in Index, r \in Record : Publish(i, r)
    BY <1>5
  <2>2. queue \in Seq(Index \X Record) /\ Len(queue) \in Nat /\ Len(queue) <= QueueSize
    BY LenProperties DEF PubTypeOK
  <2>3. CASE Len(queue) < QueueSize
    <3>1. <<i, r>> \in Index \X Record
      OBVIOUS
    <3>2. queue' = Append(queue, <<i, r>>) /\ accepted' = accepted \cup {r}
      BY <2>1, <2>3 DEF Publish
    <3>3. queue' \in Seq(Index \X Record) /\ Len(queue') = Len(queue) + 1
      BY <2>2, <3>1, <3>2, AppendProperties
    <3>4. Len(queue') <= QueueSize
      BY <2>2, <2>3, <3>3, PublisherAssumption
    <3> QED
      BY <2>1, <3>2, <3>3, <3>4 DEF Publish, PubTypeOK
  <2>4. CASE ~(Len(queue) < QueueSize)
    BY <2>1, <2>4 DEF Publish, PubTypeOK
  <2> QED
    BY <2>3, <2>4
<1> QED
  BY <1>2, <1>3, <1>4, <1>5

\* The index that add_source takes, and what is left of the free list.
LEMMA TakeIndex ==
  ASSUME AdvTypeOK, NEW c \in Camera, AddSource(c)
  PROVE  \E i \in Index :
           /\ source' = [source EXCEPT ![c] = i] /\ reg' = [reg EXCEPT ![c] = i]
           /\ Register(c, i)
           /\ free' \in Seq(Index) /\ next' \in Nat
           /\ \/ /\ free # <<>> /\ Len(free) \in DOMAIN free /\ i = free[Len(free)]
                 /\ Len(free') = Len(free) - 1
                 /\ \A j \in DOMAIN free' : j \in DOMAIN free /\ j # Len(free) /\ free'[j] = free[j]
                 /\ next' \in {next, next + 1} /\ (i # next => next' = next)
              \/ free = <<>> /\ i = next /\ free' = free /\ next' = next + 1
<1> DEFINE n == Len(free)
           i == IF free # <<>> THEN free[n] ELSE next
<1>1. free \in Seq(Index) /\ n \in Nat /\ next \in Nat /\ DOMAIN free = 1 .. n
  BY LenProperties DEF AdvTypeOK
<1>2. /\ source' = [source EXCEPT ![c] = i] /\ Register(c, i)
      /\ free' = IF free # <<>> THEN SubSeq(free, 1, n - 1) ELSE free
      /\ next' = IF i = next THEN next + 1 ELSE next
  BY DEF AddSource
<1>3. CASE free = <<>>
  <2>1. i = next /\ free' = free /\ next' = next + 1 /\ i \in Index /\ next' \in Nat
    BY <1>1, <1>2, <1>3 DEF Index
  <2> HIDE DEF i
  <2> QED
    BY <1>1, <1>2, <1>3, <2>1 DEF Register
<1>4. CASE free # <<>>
  <2>1. n \in Nat \ {0}
    BY <1>1, <1>4, EmptySeq
  <2>2. n \in DOMAIN free /\ i = free[n] /\ i \in Index
    BY <1>1, <1>4, <2>1, ElementOfSeq
  <2>3. \A j \in 1 .. n - 1 : free[j] \in Index
    <3>1. \A j \in 1 .. n - 1 : j \in 1 .. n
      BY <1>1
    <3> QED
      BY <1>1, <3>1, ElementOfSeq
  <2>4. free' = SubSeq(free, 1, n - 1)
    BY <1>2, <1>4
  <2>5. n - 1 \in Int /\ 1 \in Int
    BY <2>1
  <2> DEFINE m == n - 1
  <2>11. m \in Int /\ 1 \in Int /\ \A j \in 1 .. m : free[j] \in Index
    BY <2>3, <2>5
  <2>12. m = n - 1
    OBVIOUS
  <2> HIDE DEF m
  <2>6. /\ SubSeq(free, 1, m) \in Seq(Index)
        /\ Len(SubSeq(free, 1, m)) = IF 1 <= m THEN m - 1 + 1 ELSE 0
        /\ \A j \in 1 .. m - 1 + 1 : SubSeq(free, 1, m)[j] = free[1 + j - 1]
    BY <2>11, SubSeqProperties
  <2>7. Len(free') = n - 1 /\ free' \in Seq(Index)
    BY <2>1, <2>4, <2>6, <2>12
  <2>8. DOMAIN free' = 1 .. n - 1
    BY <2>7, LenProperties
  <2>9. \A j \in 1 .. n - 1 : free'[j] = free[j] /\ j \in 1 .. n /\ j # n
    BY <2>1, <2>4, <2>6, <2>12
  <2>10. next' \in {next, next + 1} /\ (i # next => next' = next) /\ next' \in Nat
    BY <1>1, <1>2
  <2> QED
    BY <1>1, <1>2, <1>4, <2>2, <2>7, <2>8, <2>9, <2>10 DEF Register
<1> QED
  BY <1>3, <1>4

\* The part of the types that is not the publisher's.
OwnTypes ==
  /\ source \in [Camera -> Index \cup {NoIndex}]
  /\ added \subseteq Camera /\ leaving \subseteq Camera
  /\ free \in Seq(Index) /\ next \in Nat
  /\ stop \in BOOLEAN /\ late \in BOOLEAN
  /\ main \in {"new", "prepared", "starting", "failed", "running", "disabling", "flushing",
               "returned", "raised"}
  /\ starting \subseteq Index /\ joining \subseteq Worker
  /\ pc \in [Worker -> {"none", "test", "lock", "read", "process", "publish", "ended"}]
  /\ at \in [Worker -> Index \cup {NoIndex}]
  /\ made \in [Worker -> Nat]
  /\ final \subseteq Camera /\ flushed \subseteq Camera

\* A thread starts with an index of the table, if its camera has one.
LEMMA StartType ==
  ASSUME OwnTypes, NEW ws \in SUBSET Worker, NEW index \in [Camera -> Index \cup {NoIndex}],
         StartThreads(ws, index)
  PROVE  /\ pc' \in [Worker -> {"none", "test", "lock", "read", "process", "publish", "ended"}]
         /\ at' \in [Worker -> Index \cup {NoIndex}] /\ made' = made
         /\ \A w \in Worker : /\ pc'[w] = IF w \in ws THEN "test" ELSE pc[w]
                              /\ at'[w] = IF w \in ws THEN index[w[1]] ELSE at[w]
<1>1. \A w \in Worker : w[1] \in Camera
  BY DEF Worker
<1>2. \A w \in Worker : index[w[1]] \in Index \cup {NoIndex}
  BY <1>1
<1> QED
  BY <1>2 DEF StartThreads, OwnTypes

\* A step of a source's worker.
LEMMA WorkerStepTypes ==
  ASSUME AdvTypeOK, Started, NEW w \in Worker, Test(w) \/ Lock(w) \/ Read(w) \/ Infer(w) \/ PublishFrame(w)
  PROVE  AdvTypeOK' /\ Started'
<1>1. /\ pc \in [Worker -> {"none", "test", "lock", "read", "process", "publish", "ended"}]
      /\ made \in [Worker -> Nat] /\ at \in [Worker -> Index \cup {NoIndex}]
  BY DEF AdvTypeOK
<1>2. MaxFrames[w] \in Nat
  BY AdvAssumption
<1>3. CASE Test(w) \/ Lock(w) \/ Infer(w)
  <2>1. /\ UNCHANGED <<pubVars, control, stop, runner, at, made>>
        /\ pc[w] \in {"test", "lock", "process"}
        /\ \/ \E p \in {"lock", "read", "ended"} : pc' = [pc EXCEPT ![w] = p]
           \/ pc[w] = "process" /\ pc' = [pc EXCEPT ![w] = "publish"]
    BY <1>3 DEF Test, Lock, Infer, Goto
  <2>2. AdvTypeOK'
    BY <2>1 DEF AdvTypeOK, PubTypeOK, pubVars, control, runner
  <2>3. Started'
    BY <1>1, <2>1 DEF Started
  <2> QED
    BY <2>2, <2>3
<1>4. CASE Read(w)
  <2>1. /\ UNCHANGED <<pubVars, control, stop, runner, at>> /\ pc[w] = "read"
        /\ \/ /\ made[w] < MaxFrames[w] /\ made' = [made EXCEPT ![w] = @ + 1]
              /\ pc' = [pc EXCEPT ![w] = "process"]
           \/ pc' = [pc EXCEPT ![w] = "ended"] /\ made' = made
    BY <1>4 DEF Read, Goto
  <2>2. made' \in [Worker -> Nat]
    BY <1>1, <2>1
  <2>3. AdvTypeOK'
    BY <2>1, <2>2 DEF AdvTypeOK, PubTypeOK, pubVars, control, runner
  <2>4. Started'
    BY <1>1, <1>2, <2>1 DEF Started
  <2> QED
    BY <2>3, <2>4
<1>5. CASE PublishFrame(w)
  <2>1. /\ UNCHANGED <<control, stop, runner, at, made>> /\ pc[w] = "publish"
        /\ Publish(at[w], <<w, made[w]>>) /\ pc' = [pc EXCEPT ![w] = "test"]
    BY <1>5 DEF PublishFrame, Goto
  <2>2. at[w] \in Index /\ <<w, made[w]>> \in Record
    <3>1. made[w] \in 1 .. MaxFrames[w] /\ at[w] # NoIndex
      BY <1>1, <1>2, <2>1 DEF Started
    <3> QED
      BY <1>1, <3>1, AdvAssumption
  <2>3. PubTypeOK'
    <3>1. \E i \in Index, r \in Record : Publish(i, r)
      BY <2>1, <2>2
    <3>2. w[1] \in Camera
      BY DEF Worker
    <3> QED
      BY <3>1, <3>2, CallType DEF AdvTypeOK
  <2>4. AdvTypeOK'
    BY <2>1, <2>3 DEF AdvTypeOK, control, runner
  <2>5. Started'
    BY <1>1, <2>1 DEF Started
  <2> QED
    BY <2>4, <2>5
<1> QED
  BY <1>3, <1>4, <1>5

LEMMA IndexingTypes ==
  ASSUME AdvTypeOK, Started, Indices, Indexing
  PROVE  AdvTypeOK' /\ Started'
<1>1. PubTypeOK /\ OwnTypes
  BY DEF AdvTypeOK, OwnTypes
<1>2. PICK c \in Camera : AddSource(c) \/ BeginRemove(c) \/ EndRemove(c)
  BY DEF Indexing
<1>3. CASE AddSource(c)
  <2>1. PICK i \in Index :
           /\ source' = [source EXCEPT ![c] = i] /\ Register(c, i)
           /\ free' \in Seq(Index) /\ next' \in Nat
    BY <1>3, TakeIndex
  <2>2. PubTypeOK'
    BY <1>1, <2>1, CallType
  <2>3. source' \in [Camera -> Index \cup {NoIndex}] /\ source'[c] = i
    BY <1>1, <2>1 DEF OwnTypes
  <2> DEFINE ws == IF main # "new" /\ ~stop THEN {<<c, "hot">>} ELSE {}
  <2>4. ws \in SUBSET Worker /\ \A w \in ws : w[1] = c
    BY DEF Worker
  <2>5. StartThreads(ws, source') /\ added' = added \cup {c} /\ UNCHANGED <<leaving, stop, runner>>
    BY <1>3 DEF AddSource
  <2> HIDE DEF ws
  <2>6. /\ pc' \in [Worker -> {"none", "test", "lock", "read", "process", "publish", "ended"}]
        /\ at' \in [Worker -> Index \cup {NoIndex}] /\ made' = made
        /\ \A w \in Worker : /\ pc'[w] = IF w \in ws THEN "test" ELSE pc[w]
                             /\ at'[w] = IF w \in ws THEN source'[w[1]] ELSE at[w]
    BY <1>1, <2>3, <2>4, <2>5, StartType
  <2>7. AdvTypeOK'
    BY <1>1, <2>1, <2>2, <2>3, <2>5, <2>6 DEF AdvTypeOK, OwnTypes, runner
  <2>8. i # NoIndex
    BY DEF Index, NoIndex
  <2>9. Started'
    BY <2>3, <2>4, <2>6, <2>8 DEF Started
  <2> QED
    BY <2>7, <2>9
<1>4. CASE BeginRemove(c)
  <2>1. PubTypeOK'
    BY <1>1, <1>4, CallType DEF BeginRemove
  <2>2. OwnTypes' /\ Started'
    BY <1>1, <1>4 DEF BeginRemove, OwnTypes, Started, runner, workers
  <2> QED
    BY <2>1, <2>2 DEF AdvTypeOK, OwnTypes
<1>5. CASE EndRemove(c)
  <2>1. PubTypeOK'
    BY <1>1, <1>5, CallType DEF EndRemove
  <2>2. free' \in Seq(Index)
    <3>1. reg[c] \in Index
      BY <1>1, <1>5 DEF EndRemove, Indices, PubTypeOK
    <3> QED
      BY <1>1, <1>5, <3>1, AppendProperties DEF EndRemove, OwnTypes
  <2>3. OwnTypes' /\ Started'
    BY <1>1, <1>5, <2>2 DEF EndRemove, OwnTypes, Started, runner, workers
  <2> QED
    BY <2>1, <2>3 DEF AdvTypeOK, OwnTypes
<1> QED
  BY <1>2, <1>3, <1>4, <1>5

LEMMA RestTypes ==
  ASSUME AdvTypeOK, Started, RemoveFlush \/ StopCalled \/ MainStep \/ Publisher
  PROVE  AdvTypeOK' /\ Started'
<1>1. PubTypeOK /\ OwnTypes
  BY DEF AdvTypeOK, OwnTypes
<1>2. ASSUME NEW c \in Camera, StartSource(c) PROVE AdvTypeOK' /\ Started'
  <2> DEFINE ws == {<<c, "run">>}
  <2>1. ws \in SUBSET Worker /\ \A w \in ws : w[1] = c
    BY DEF Worker
  <2>2. source[c] # NoIndex /\ starting' \subseteq Index
    <3>1. source[c] \in starting /\ starting' = starting \ {source[c]} /\ starting \subseteq Index
      BY <1>1, <1>2 DEF StartSource, OwnTypes
    <3>2. NoIndex \notin Index
      BY DEF Index, NoIndex
    <3> QED
      BY <3>1, <3>2
  <2>3. /\ StartThreads(ws, source)
        /\ UNCHANGED <<pubVars, control, stop, main, joining, late, final, flushed>>
    BY <1>2 DEF StartSource
  <2>4. source \in [Camera -> Index \cup {NoIndex}]
    BY <1>1 DEF OwnTypes
  <2> HIDE DEF ws
  <2>5. /\ pc' \in [Worker -> {"none", "test", "lock", "read", "process", "publish", "ended"}]
        /\ at' \in [Worker -> Index \cup {NoIndex}] /\ made' = made
        /\ \A w \in Worker : /\ pc'[w] = IF w \in ws THEN "test" ELSE pc[w]
                             /\ at'[w] = IF w \in ws THEN source[w[1]] ELSE at[w]
    BY <1>1, <2>1, <2>3, <2>4, StartType
  <2>6. Started'
    BY <2>1, <2>2, <2>5 DEF Started
  <2>7. PubTypeOK'
    BY <1>1, <2>3 DEF PubTypeOK, pubVars
  <2>8. OwnTypes'
    BY <1>1, <2>2, <2>3, <2>5 DEF OwnTypes, control
  <2> QED
    BY <2>6, <2>7, <2>8 DEF AdvTypeOK, OwnTypes
<1>6. CASE Run \/ StartFails \/ ListThreads
  <2>1. UNCHANGED <<pubVars, control, workers, late, final, flushed>>
    BY <1>6 DEF Run, StartFails, ListThreads
  <2>2. PubTypeOK' /\ Started'
    BY <1>1, <2>1 DEF PubTypeOK, Started, pubVars, workers
  <2>3. {source[c] : c \in Sources} \subseteq Index
    BY <1>1 DEF OwnTypes, Sources
  <2>4. OwnTypes'
    BY <1>1, <1>6, <2>1, <2>3 DEF Run, StartFails, ListThreads, OwnTypes, control, workers
  <2> QED
    BY <2>2, <2>4 DEF AdvTypeOK, OwnTypes
<1>3. CASE Publisher
  <2>1. PubTypeOK' /\ UNCHANGED <<control, stop, runner, workers>>
    BY <1>1, <1>3, PublisherType DEF Publisher
  <2>2. OwnTypes' /\ Started'
    BY <1>1, <2>1 DEF OwnTypes, Started, control, runner, workers
  <2> QED
    BY <2>1, <2>2 DEF AdvTypeOK, OwnTypes
<1>4. CASE StopCalled \/ JoinPublisher \/ Return
  <2>1. UNCHANGED pubVars /\ UNCHANGED workers
    BY <1>4 DEF StopCalled, JoinPublisher, Return
  <2>2. PubTypeOK'
    BY <1>1, <2>1 DEF PubTypeOK, pubVars
  <2>3. Registered \subseteq Camera
    BY DEF Registered
  <2>4. OwnTypes'
    BY <1>1, <1>4, <2>3 DEF StopCalled, JoinPublisher, Return, OwnTypes, control, runner, workers
  <2>5. Started'
    BY <2>1 DEF Started, workers
  <2> QED
    BY <2>2, <2>4, <2>5 DEF AdvTypeOK, OwnTypes
<1>5. CASE \/ RemoveFlush \/ Prepare \/ Joined \/ FlushSwap
           \/ \E c \in Camera : FlushNext(c)
  <2>1. UNCHANGED workers /\ UNCHANGED control
    BY <1>5 DEF RemoveFlush, Prepare, Joined, FlushSwap, FlushNext
  <2>2. /\ ControlFlush \/ Enable \/ Disable \/ MainFlush \/ \E c \in Camera : FinalFlush(c)
    BY <1>5 DEF RemoveFlush, Prepare, Joined, FlushSwap, FlushNext
  <2>3. PubTypeOK'
    <3>1. CASE \E c \in Camera : FinalFlush(c)
      BY <1>1, <3>1, CallType
    <3>2. CASE ControlFlush \/ MainFlush
      <4>1. "control" \in Thread /\ "main" \in Thread
        BY DEF Thread
      <4>2. /\ records' \in [Camera -> SUBSET Record] /\ sent' \in [Record -> Nat]
            /\ target' \in [Thread -> SUBSET Camera] /\ payload' \in [Thread -> SUBSET Record]
        BY <1>1, <3>2, <4>1, SwapType DEF ControlFlush, MainFlush
      <4> QED
        BY <1>1, <3>2, <4>2 DEF ControlFlush, MainFlush, PubTypeOK
    <3>3. CASE Enable \/ Disable
      BY <1>1, <3>3 DEF Enable, Disable, PubTypeOK
    <3> QED
      BY <2>2, <3>1, <3>2, <3>3
  <2>4. OwnTypes'
    BY <1>1, <1>5, <2>1 DEF RemoveFlush, Prepare, Joined, FlushSwap, FlushNext, OwnTypes, control,
       runner, workers
  <2>5. Started'
    BY <2>1 DEF Started, workers
  <2> QED
    BY <2>3, <2>4, <2>5 DEF AdvTypeOK, OwnTypes
<1> QED
  BY <1>2, <1>3, <1>4, <1>5, <1>6 DEF MainStep, Starting

-----------------------------------------------------------------------------
(* Indices. *)

\* add_source takes an index that nobody has.
LEMMA AddOwns ==
  ASSUME AdvTypeOK, IndexOwner, Indices, NEW c \in Camera, AddSource(c)
  PROVE  IndexOwner' /\ Indices'
<1>1. PICK i \in Index :
           /\ source' = [source EXCEPT ![c] = i] /\ reg' = [reg EXCEPT ![c] = i]
           /\ free' \in Seq(Index) /\ next' \in Nat
           /\ \/ /\ free # <<>> /\ Len(free) \in DOMAIN free /\ i = free[Len(free)]
                 /\ Len(free') = Len(free) - 1
                 /\ \A j \in DOMAIN free' : j \in DOMAIN free /\ j # Len(free) /\ free'[j] = free[j]
                 /\ next' \in {next, next + 1} /\ (i # next => next' = next)
              \/ free = <<>> /\ i = next /\ free' = free /\ next' = next + 1
  BY TakeIndex
<1>2. c \notin added /\ leaving = {} /\ leaving' = {} /\ added' = added \cup {c}
  BY DEF AddSource
<1>3. /\ reg \in [Camera -> Index \cup {NoIndex}] /\ source \in [Camera -> Index \cup {NoIndex}]
      /\ next \in Nat /\ i \in Nat /\ i # NoIndex
  BY <1>1 DEF AdvTypeOK, PubTypeOK, Index, NoIndex
<1>4. reg[c] = NoIndex /\ source[c] = NoIndex
  BY <1>2 DEF Indices
<1>5. /\ i < next' /\ next <= next'
      /\ \A d \in Camera : reg[d] # i
      /\ \A j \in DOMAIN free' : j \in DOMAIN free /\ free'[j] = free[j] /\ free[j] # i
  <2>1. CASE free # <<>>
    <3>1. /\ i = free[Len(free)] /\ Len(free) \in DOMAIN free /\ next' \in {next, next + 1}
          /\ \A j \in DOMAIN free' : j \in DOMAIN free /\ j # Len(free) /\ free'[j] = free[j]
      BY <1>1, <2>1
    <3>2. i < next /\ \A d \in Camera : reg[d] # i
      BY <3>1 DEF IndexOwner
    <3>3. \A j \in DOMAIN free' : free[j] # i
      BY <3>1 DEF IndexOwner
    <3> QED
      BY <1>3, <3>1, <3>2, <3>3
  <2>2. CASE free = <<>>
    <3>1. i = next /\ free' = free /\ next' = next + 1
      BY <1>1, <2>2
    <3>2. \A d \in Camera : reg[d] # i
      BY <1>3, <3>1 DEF Indices
    <3>3. DOMAIN free' = {}
      BY <2>2, <3>1
    <3> QED
      BY <1>3, <3>1, <3>2, <3>3
  <2> QED
    BY <2>1, <2>2
<1>6. \A d \in Camera : /\ reg'[d] = IF d = c THEN i ELSE reg[d]
                        /\ source'[d] = IF d = c THEN i ELSE source[d]
  BY <1>1, <1>3
<1>7. IndexOwner'
  <2>1. \A d, e \in Camera : d # e /\ reg'[d] # NoIndex => reg'[d] # reg'[e]
    BY <1>3, <1>4, <1>5, <1>6 DEF IndexOwner
  <2>2. \A d \in Camera : source'[d] # NoIndex => source'[d] = reg'[d]
    BY <1>6 DEF IndexOwner
  <2>3. ASSUME NEW j \in DOMAIN free'
        PROVE  /\ free'[j] < next'
               /\ \A d \in Camera : reg'[d] # free'[j]
               /\ \A k \in DOMAIN free' : k # j => free'[k] # free'[j]
    <3>1. free'[j] = free[j] /\ free[j] # i /\ j \in DOMAIN free
      BY <1>5
    <3>2. free[j] < next /\ free[j] \in Nat
      BY <3>1, LenProperties DEF IndexOwner, AdvTypeOK, Index
    <3>3. \A k \in DOMAIN free' : k # j => free'[k] # free'[j]
      BY <1>5, <3>1 DEF IndexOwner
    <3>4. \A d \in Camera : reg'[d] # free'[j]
      BY <1>6, <3>1 DEF IndexOwner
    <3>5. free'[j] < next'
      BY <1>3, <1>1, <1>5, <3>1, <3>2
    <3> QED
      BY <3>3, <3>4, <3>5
  <2> QED
    BY <2>1, <2>2, <2>3 DEF IndexOwner
<1>8. Indices'
  <2>1. ASSUME NEW d \in Camera
        PROVE  /\ reg'[d] # NoIndex => reg'[d] < next' /\ d \in added'
               /\ reg'[d] # NoIndex <=> source'[d] # NoIndex \/ d \in leaving'
    <3>1. CASE d = c
      BY <1>2, <1>3, <1>5, <1>6, <3>1
    <3>2. CASE d # c
      <4>1. reg'[d] = reg[d] /\ source'[d] = source[d]
        BY <1>6, <3>2
      <4>2. reg[d] # NoIndex => reg[d] < next /\ reg[d] \in Nat /\ d \in added
        BY <1>3 DEF Indices, Index
      <4> QED
        BY <1>1, <1>2, <1>3, <1>5, <4>1, <4>2 DEF Indices
    <3> QED
      BY <3>1, <3>2
  <2> QED
    BY <1>2, <2>1 DEF Indices
<1> QED
  BY <1>7, <1>8

LEMMA RemoveOwns ==
  ASSUME AdvTypeOK, IndexOwner, Indices, NEW c \in Camera, BeginRemove(c) \/ EndRemove(c)
  PROVE  IndexOwner' /\ Indices'
<1>1. /\ reg \in [Camera -> Index \cup {NoIndex}] /\ source \in [Camera -> Index \cup {NoIndex}]
      /\ next \in Nat /\ free \in Seq(Index)
  BY DEF AdvTypeOK, PubTypeOK
<1>2. CASE BeginRemove(c)
  <2>1. /\ reg' = reg /\ free' = free /\ next' = next /\ added' = added
        /\ source' = [source EXCEPT ![c] = NoIndex] /\ leaving = {} /\ leaving' = {c}
        /\ source[c] # NoIndex
    BY <1>2 DEF BeginRemove, UnregisterFlush, Sources
  <2>2. \A d \in Camera : source'[d] = IF d = c THEN NoIndex ELSE source[d]
    BY <1>1, <2>1
  <2>3. IndexOwner'
    BY <2>1, <2>2 DEF IndexOwner
  <2>4. Indices'
    BY <2>1, <2>2 DEF Indices
  <2> QED
    BY <2>3, <2>4
<1>3. CASE EndRemove(c)
  <2>1. /\ reg' = [reg EXCEPT ![c] = NoIndex] /\ source' = source /\ next' = next /\ added' = added
        /\ free' = Append(free, reg[c]) /\ leaving' = {} /\ c \in leaving
    BY <1>3 DEF EndRemove, Unregister
  <2>2. leaving = {c} /\ source[c] = NoIndex /\ reg[c] # NoIndex /\ reg[c] < next
    BY <2>1 DEF Indices
  <2>3. \A d \in Camera : reg'[d] = IF d = c THEN NoIndex ELSE reg[d]
    BY <1>1, <2>1
  <2> DEFINE n == Len(free)
  <2>4. /\ n \in Nat /\ DOMAIN free = 1 .. n /\ DOMAIN free' = 1 .. n + 1
        /\ \A j \in 1 .. n : free'[j] = free[j]
        /\ free'[n + 1] = reg[c]
    <3>1. reg[c] \in Index
      BY <1>1, <2>2
    <3>2. /\ free' \in Seq(Index) /\ Len(free') = n + 1
          /\ \A j \in 1 .. n : free'[j] = free[j]
          /\ free'[n + 1] = reg[c]
      BY <1>1, <2>1, <3>1, AppendProperties
    <3> QED
      BY <1>1, <3>2, LenProperties
  <2> HIDE DEF n
  <2>5. \A j \in 1 .. n : free[j] \in Nat /\ free[j] # NoIndex
    BY <1>1, <2>4, ElementOfSeq DEF n, Index, NoIndex
  <2>6. \A j \in 1 .. n : free[j] # reg[c]
    BY <2>4 DEF IndexOwner
  <2>7. ASSUME NEW j \in DOMAIN free'
        PROVE  /\ free'[j] < next'
               /\ \A d \in Camera : reg'[d] # free'[j]
               /\ \A k \in DOMAIN free' : k # j => free'[k] # free'[j]
    <3>1. CASE j = n + 1
      <4>1. \A d \in Camera : reg'[d] # reg[c]
        BY <2>2, <2>3 DEF IndexOwner
      <4>2. \A k \in DOMAIN free' : k # j => k \in 1 .. n
        BY <2>4, <3>1
      <4> QED
        BY <2>1, <2>2, <2>4, <2>6, <3>1, <4>1, <4>2
    <3>2. CASE j # n + 1
      <4>1. j \in 1 .. n
        BY <2>4, <3>2
      <4>2. free[j] < next /\ \A d \in Camera : reg[d] # free[j]
        BY <2>4, <4>1 DEF IndexOwner
      <4>3. \A k \in 1 .. n : k # j => free[k] # free[j]
        BY <2>4, <4>1 DEF IndexOwner
      <4>4. \A k \in DOMAIN free' : k \in 1 .. n \/ k = n + 1
        BY <2>4
      <4> QED
        BY <2>1, <2>3, <2>4, <2>5, <2>6, <4>1, <4>2, <4>3, <4>4
    <3> QED
      BY <3>1, <3>2
  <2>8. IndexOwner'
    <3>1. \A d, e \in Camera : d # e /\ reg'[d] # NoIndex => reg'[d] # reg'[e]
      BY <2>3 DEF IndexOwner
    <3>2. \A d \in Camera : source'[d] # NoIndex => source'[d] = reg'[d]
      BY <2>1, <2>2, <2>3 DEF IndexOwner
    <3> QED
      BY <2>7, <3>1, <3>2 DEF IndexOwner
  <2>9. Indices'
    BY <2>1, <2>2, <2>3 DEF Indices
  <2> QED
    BY <2>8, <2>9
<1> QED
  BY <1>2, <1>3

LEMMA TablesKept ==
  ASSUME \/ RemoveFlush \/ StopCalled \/ MainStep \/ Publisher
         \/ \E w \in Worker : Test(w) \/ Lock(w) \/ Read(w) \/ Infer(w) \/ PublishFrame(w)
  PROVE  UNCHANGED <<reg, source, added, free, next, leaving>>
<1>1. CASE RemoveFlush \/ StopCalled
  BY <1>1 DEF RemoveFlush, StopCalled, ControlFlush, pubVars, control
<1>2. CASE MainStep
  BY <1>2 DEF MainStep, Prepare, Run, Starting, StartFails, ListThreads, StartSource, Joined,
     JoinPublisher, FlushSwap, Return, FlushNext, StartThreads, Enable,
     Disable, MainFlush, FinalFlush, pubVars, control
<1>3. CASE Publisher
  BY <1>3 DEF Publisher, WorkerStep, Take, AppendRecord, ShouldFlush, WorkerFlush, Leave, control
<1>4. CASE \E w \in Worker : Test(w) \/ Lock(w) \/ Read(w) \/ Infer(w) \/ PublishFrame(w)
  BY <1>4 DEF Test, Lock, Read, Infer, PublishFrame, Publish, pubVars, control
<1> QED
  BY <1>1, <1>2, <1>3, <1>4

-----------------------------------------------------------------------------
(* Places. *)

\* A record is of a camera.
LEMMA RecordCamera ==
  ASSUME NEW r \in Record
  PROVE  CameraOf(r) \in Camera
BY AdvAssumption DEF CameraOf, Worker

\* Nothing of a camera exists before it is added.
LEMMA AddPlaces ==
  ASSUME Inv, NEW c \in Camera, AddSource(c)
  PROVE  Placed' /\ OwnBatch'
<1>1. PICK i \in Index :
           /\ source' = [source EXCEPT ![c] = i] /\ Register(c, i)
  BY TakeIndex DEF Inv
<1>2. /\ c \notin added /\ added' = added \cup {c}
      /\ UNCHANGED <<queue, records, hand, target>>
  BY <1>1 DEF AddSource, Register
<1>3. /\ source \in [Camera -> Index \cup {NoIndex}] /\ i # NoIndex
      /\ hand \subseteq Record /\ records \in [Camera -> SUBSET Record]
  BY DEF Inv, AdvTypeOK, PubTypeOK, Index, NoIndex
<1>4. \A d \in Camera : source'[d] = IF d = c THEN i ELSE source[d]
  BY <1>1, <1>3
<1>5. /\ Sources' = Sources \cup {c}
      /\ \A d \in Sources' : d # c => d \in Sources /\ source'[d] = source[d]
  BY <1>3, <1>4 DEF Sources
<1> DEFINE ws == IF main # "new" /\ ~stop THEN {<<c, "hot">>} ELSE {}
<1>6. \A w \in ws : w[1] = c
  OBVIOUS
<1>7. at' = [w \in Worker |-> IF w \in ws THEN source'[w[1]] ELSE at[w]]
  BY DEF AddSource, StartThreads
<1> HIDE DEF ws
<1>8. WorkersPlaced'
  <2>1. ASSUME NEW w \in Worker
        PROVE  /\ w[1] \in Sources' => at'[w] \in {NoIndex, source'[w[1]]}
               /\ at'[w] # NoIndex => w[1] \in added'
    <3>1. CASE w \in ws
      BY <1>2, <1>6, <1>7, <3>1
    <3>2. CASE w \notin ws
      <4>1. at'[w] = at[w]
        BY <1>7, <3>2
      <4>2. at[w] # NoIndex => w[1] \in added
        BY DEF Inv, Placed, WorkersPlaced
      <4>3. w[1] \in Sources => at[w] \in {NoIndex, source[w[1]]}
        BY DEF Inv, Placed, WorkersPlaced
      <4>4. CASE w[1] = c
        BY <1>2, <4>1, <4>2, <4>4
      <4>5. CASE w[1] # c
        BY <1>2, <1>5, <4>1, <4>2, <4>3, <4>5
      <4> QED
        BY <4>4, <4>5
    <3> QED
      BY <3>1, <3>2
  <2> QED
    BY <2>1 DEF WorkersPlaced
<1>9. QueuePlaced'
  <2>1. ASSUME NEW j \in DOMAIN queue
        PROVE  /\ CameraOf(queue[j][2]) \in added'
               /\ CameraOf(queue[j][2]) \in Sources' =>
                    queue[j][1] = source'[CameraOf(queue[j][2])]
    <3>1. /\ CameraOf(queue[j][2]) \in added
          /\ CameraOf(queue[j][2]) \in Sources => queue[j][1] = source[CameraOf(queue[j][2])]
      BY DEF Inv, Placed, QueuePlaced
    <3> QED
      BY <1>2, <1>5, <3>1
  <2> QED
    BY <1>2, <2>1 DEF QueuePlaced, CameraOf
<1>10. RecordsPlaced'
  BY <1>2 DEF Inv, Placed, RecordsPlaced, CameraOf
<1>11. OwnBatch'
  <2>1. ASSUME NEW r \in Record, NEW d \in Camera, CameraOf(r) \in Sources',
               r \in records[d] \/ (r \in hand /\ d \in target["worker"])
        PROVE  d = CameraOf(r)
    <3>1. CameraOf(r) \in added
      BY <2>1 DEF Inv, Placed, RecordsPlaced
    <3>2. CameraOf(r) \in Sources
      BY <1>2, <1>5, <2>1, <3>1
    <3> QED
      BY <2>1, <3>2 DEF Inv, OwnBatch
  <2> QED
    BY <1>2, <2>1 DEF OwnBatch, CameraOf
<1> QED
  BY <1>8, <1>9, <1>10, <1>11 DEF Placed

\* A removal takes a camera out of the table and moves no record.
LEMMA RemovePlaces ==
  ASSUME Inv, NEW c \in Camera, BeginRemove(c) \/ EndRemove(c)
  PROVE  Placed' /\ OwnBatch'
<1>1. source \in [Camera -> Index \cup {NoIndex}] /\ target \in [Thread -> SUBSET Camera]
  BY DEF Inv, AdvTypeOK, PubTypeOK
<1>2. UNCHANGED <<queue, records, hand, at, added>>
  BY DEF BeginRemove, EndRemove, UnregisterFlush, Unregister, workers
<1>3. Sources' \subseteq Sources /\ \A d \in Sources' : source'[d] = source[d]
  BY <1>1 DEF BeginRemove, EndRemove, Sources
<1>4. target'["worker"] = target["worker"]
  BY <1>1 DEF BeginRemove, EndRemove, UnregisterFlush, Unregister, ReadBatch, Thread
<1>5. WorkersPlaced'
  BY <1>2, <1>3 DEF Inv, Placed, WorkersPlaced
<1>6. QueuePlaced'
  BY <1>2, <1>3 DEF Inv, Placed, QueuePlaced, CameraOf
<1>7. RecordsPlaced'
  BY <1>2 DEF Inv, Placed, RecordsPlaced, CameraOf
<1>8. OwnBatch'
  BY <1>2, <1>3, <1>4 DEF Inv, OwnBatch, CameraOf
<1> QED
  BY <1>5, <1>6, <1>7, <1>8 DEF Placed

\* run gives every source's thread the index of its source; no other step that
\* leaves the table alone gives a thread an index.
LEMMA StartsPlaced ==
  ASSUME Inv, UNCHANGED <<reg, source, added, free, next, leaving>>,
         \/ RemoveFlush \/ StopCalled \/ MainStep \/ Publisher
         \/ \E w \in Worker : Test(w) \/ Lock(w) \/ Read(w) \/ Infer(w) \/ PublishFrame(w)
  PROVE  WorkersPlaced'
<1>1. ASSUME NEW c \in Camera, StartSource(c) PROVE WorkersPlaced'
  <2> DEFINE ws == {<<c, "run">>}
  <2>1. \A w \in ws : w[1] \in Sources
    BY <1>1 DEF StartSource, Sources, Inv, AdvTypeOK, Index, NoIndex
  <2>2. at' = [w \in Worker |-> IF w \in ws THEN source[w[1]] ELSE at[w]]
    BY <1>1 DEF StartSource, StartThreads
  <2> HIDE DEF ws
  <2>3. Sources' = Sources /\ Sources \subseteq added
    BY DEF Sources, Inv, Indices
  <2>4. ASSUME NEW w \in Worker
        PROVE  /\ w[1] \in Sources => at'[w] \in {NoIndex, source[w[1]]}
               /\ at'[w] # NoIndex => w[1] \in added
    <3>1. CASE w \in ws
      BY <2>1, <2>2, <2>3, <3>1
    <3>2. CASE w \notin ws
      BY <2>2, <3>2 DEF Inv, Placed, WorkersPlaced
    <3> QED
      BY <3>1, <3>2
  <2> QED
    BY <2>3, <2>4 DEF WorkersPlaced
<1>2. CASE at' = at
  <2>1. Sources' = Sources
    BY DEF Sources
  <2> QED
    BY <1>2, <2>1 DEF Inv, Placed, WorkersPlaced
<1>3. (\E c \in Camera : StartSource(c)) \/ at' = at
  <2>1. CASE RemoveFlush \/ StopCalled \/ Publisher
    BY <2>1 DEF RemoveFlush, StopCalled, Publisher, workers
  <2>2. CASE MainStep
    BY <2>2 DEF MainStep, Prepare, Run, Starting, StartFails, ListThreads, Joined, JoinPublisher,
       FlushSwap, Return, FlushNext, workers
  <2>3. CASE \E w \in Worker : Test(w) \/ Lock(w) \/ Read(w) \/ Infer(w) \/ PublishFrame(w)
    BY <2>3 DEF Test, Lock, Read, Infer, PublishFrame
  <2> QED
    BY <2>1, <2>2, <2>3
<1> QED
  BY <1>1, <1>2, <1>3

\* What is queued under an index is a record of the worker that has it.
LEMMA QueueStep ==
  ASSUME Inv, UNCHANGED <<reg, source, added, free, next, leaving>>,
         \/ RemoveFlush \/ StopCalled \/ MainStep \/ Publisher
         \/ \E w \in Worker : Test(w) \/ Lock(w) \/ Read(w) \/ Infer(w) \/ PublishFrame(w)
  PROVE  QueuePlaced'
<1>1. queue \in Seq(Index \X Record) /\ Len(queue) \in Nat /\ DOMAIN queue = 1 .. Len(queue)
  BY LenProperties DEF Inv, AdvTypeOK, PubTypeOK
<1>2. Sources' = Sources
  BY DEF Sources
<1>3. QueuePlaced
  BY DEF Inv, Placed
<1>4. CASE Take
  <2>1. queue # <<>> /\ queue' = Tail(queue)
    BY <1>4 DEF Take
  <2>2. /\ Tail(queue) \in Seq(Index \X Record) /\ Len(Tail(queue)) = Len(queue) - 1
        /\ \A j \in 1 .. Len(Tail(queue)) : Tail(queue)[j] = queue[j + 1]
    BY <1>1, <2>1, HeadTailProperties
  <2>3. \A j \in DOMAIN queue' : j + 1 \in DOMAIN queue /\ queue'[j] = queue[j + 1]
    BY <1>1, <2>1, <2>2, LenProperties
  <2> QED
    BY <1>2, <1>3, <2>3 DEF QueuePlaced, CameraOf
<1>5. ASSUME NEW w \in Worker, PublishFrame(w), queue' # queue
      PROVE  QueuePlaced'
  <2>1. pc[w] = "publish" /\ queue' = Append(queue, <<at[w], <<w, made[w]>>>>)
    BY <1>5 DEF PublishFrame, Publish
  <2>2. at[w] # NoIndex /\ made[w] \in 1 .. MaxFrames[w]
    BY <2>1, AdvAssumption DEF Inv, Started, AdvTypeOK
  <2>3. <<w, made[w]>> \in Record /\ at[w] \in Index
    BY <2>2, AdvAssumption DEF Inv, AdvTypeOK
  <2>4. w[1] \in added /\ (w[1] \in Sources => at[w] = source[w[1]])
    BY <2>2 DEF Inv, Placed, WorkersPlaced
  <2> DEFINE e == <<at[w], <<w, made[w]>>>>
  <2>5. e \in Index \X Record /\ e[1] = at[w] /\ CameraOf(e[2]) = w[1]
    BY <2>3 DEF CameraOf
  <2> HIDE DEF e
  <2>6. queue' = Append(queue, e)
    BY <2>1 DEF e
  <2>7. /\ Len(queue') = Len(queue) + 1 /\ queue' \in Seq(Index \X Record)
        /\ \A j \in 1 .. Len(queue) : queue'[j] = queue[j]
        /\ queue'[Len(queue) + 1] = e
    BY <1>1, <2>5, <2>6, AppendProperties
  <2>8. \A j \in DOMAIN queue' : (j \in DOMAIN queue /\ queue'[j] = queue[j]) \/ queue'[j] = e
    BY <1>1, <2>7, LenProperties
  <2>9. ASSUME NEW j \in DOMAIN queue'
        PROVE  /\ CameraOf(queue'[j][2]) \in added
               /\ CameraOf(queue'[j][2]) \in Sources =>
                    queue'[j][1] = source[CameraOf(queue'[j][2])]
    <3>1. CASE queue'[j] = e
      BY <2>4, <2>5, <3>1
    <3>2. CASE j \in DOMAIN queue /\ queue'[j] = queue[j]
      BY <1>3, <3>2 DEF QueuePlaced
    <3> QED
      BY <2>8, <3>1, <3>2
  <2> QED
    BY <1>2, <2>9 DEF QueuePlaced, CameraOf
<1>6. CASE queue' = queue
  BY <1>2, <1>3, <1>6 DEF QueuePlaced, CameraOf
<1>7. Take \/ queue' = queue \/ \E w \in Worker : PublishFrame(w)
  <2>1. CASE RemoveFlush \/ StopCalled
    BY <2>1 DEF RemoveFlush, StopCalled, ControlFlush, pubVars
  <2>2. CASE MainStep
    BY <2>2 DEF MainStep, Prepare, Run, Starting, StartFails, ListThreads, StartSource, Joined,
     JoinPublisher, FlushSwap, Return, FlushNext, StartThreads, Enable,
       Disable, MainFlush, FinalFlush, pubVars
  <2>3. CASE Publisher
    BY <2>3 DEF Publisher, WorkerStep, AppendRecord, ShouldFlush, WorkerFlush, Leave
  <2>4. CASE \E w \in Worker : Test(w) \/ Lock(w) \/ Read(w) \/ Infer(w) \/ PublishFrame(w)
    BY <2>4 DEF Test, Lock, Read, Infer, pubVars
  <2> QED
    BY <2>1, <2>2, <2>3, <2>4
<1> QED
  BY <1>4, <1>5, <1>6, <1>7

\* Emptying batches, or letting the worker go, cannot misplace a record.
LEMMA FewerRecords ==
  ASSUME Inv, UNCHANGED <<source, added>>, hand' \subseteq hand,
         \A c \in Camera : records'[c] \subseteq records[c],
         hand' = {} \/ target'["worker"] \subseteq target["worker"]
  PROVE  RecordsPlaced' /\ OwnBatch'
<1>1. Sources' = Sources
  BY DEF Sources
<1>2. RecordsPlaced'
  BY DEF Inv, Placed, RecordsPlaced, CameraOf
<1>3. OwnBatch'
  BY <1>1 DEF Inv, OwnBatch, CameraOf
<1> QED
  BY <1>2, <1>3

\* The worker finds a record's batch by the index in the queue, and an index
\* has one owner.
LEMMA RecordStep ==
  ASSUME Inv, UNCHANGED <<reg, source, added, free, next, leaving>>,
         \/ RemoveFlush \/ StopCalled \/ MainStep \/ Publisher
         \/ \E w \in Worker : Test(w) \/ Lock(w) \/ Read(w) \/ Infer(w) \/ PublishFrame(w)
  PROVE  RecordsPlaced' /\ OwnBatch'
<1>1. /\ queue \in Seq(Index \X Record) /\ hand \subseteq Record
      /\ records \in [Camera -> SUBSET Record] /\ target \in [Thread -> SUBSET Camera]
      /\ "worker" \in Thread
  BY DEF Inv, AdvTypeOK, PubTypeOK, Thread
<1>2. Sources' = Sources
  BY DEF Sources
<1>3. CASE Take /\ <<hand, target>>' # <<hand, target>>
  <2> DEFINE r == Head(queue)[2]
             found == {c \in Camera : reg[c] = Head(queue)[1]}
  <2>1. /\ queue # <<>> /\ hand' = {r} /\ target'["worker"] = found
        /\ records' = records
    BY <1>1, <1>3 DEF Take
  <2>2. 1 \in DOMAIN queue /\ queue[1] = Head(queue) /\ Head(queue) \in Index \X Record
    BY <1>1, <2>1, HeadTailProperties, EmptySeq, LenProperties
  <2>3. /\ r \in Record /\ CameraOf(r) \in added
        /\ CameraOf(r) \in Sources => Head(queue)[1] = source[CameraOf(r)]
    BY <2>2 DEF Inv, Placed, QueuePlaced
  <2>4. RecordsPlaced'
    BY <2>1, <2>3 DEF Inv, Placed, RecordsPlaced, CameraOf
  <2>5. ASSUME CameraOf(r) \in Sources, NEW c \in found
        PROVE  c = CameraOf(r)
    <3>1. source[CameraOf(r)] # NoIndex /\ CameraOf(r) \in Camera
      BY <2>5 DEF Sources
    <3>2. reg[CameraOf(r)] = source[CameraOf(r)] /\ reg[c] = source[CameraOf(r)]
      BY <2>3, <2>5, <3>1 DEF Inv, IndexOwner
    <3> QED
      BY <2>5, <3>1, <3>2 DEF Inv, IndexOwner
  <2>6. ASSUME NEW q \in Record, NEW c \in Camera, CameraOf(q) \in Sources,
               q \in records[c] \/ (q \in hand' /\ c \in target'["worker"])
        PROVE  c = CameraOf(q)
    <3>1. CASE q \in records[c]
      BY <2>6, <3>1 DEF Inv, OwnBatch
    <3>2. CASE q \in hand' /\ c \in target'["worker"]
      <4>1. q = r /\ c \in found
        BY <2>1, <3>2
      <4> HIDE DEF r, found
      <4> QED
        BY <2>5, <2>6, <4>1
    <3> QED
      BY <2>6, <3>1, <3>2
  <2>7. OwnBatch'
    BY <1>2, <2>1, <2>6 DEF OwnBatch, CameraOf
  <2> QED
    BY <2>4, <2>7
<1>4. CASE AppendRecord
  <2>1. PICK c \in target["worker"] : records' = [records EXCEPT ![c] = @ \cup hand]
    BY <1>4 DEF AppendRecord
  <2>2. hand' = {} /\ c \in Camera
    BY <1>1, <1>4 DEF AppendRecord
  <2>3. \A d \in Camera : records'[d] = IF d = c THEN records[d] \cup hand ELSE records[d]
    BY <1>1, <2>1
  <2>4. RecordsPlaced'
    BY <2>2, <2>3 DEF Inv, Placed, RecordsPlaced, CameraOf
  <2>5. ASSUME NEW q \in Record, NEW d \in Camera, CameraOf(q) \in Sources, q \in records'[d]
        PROVE  d = CameraOf(q)
    <3>1. q \in records[d] \/ (d = c /\ q \in hand)
      BY <2>3, <2>5
    <3> QED
      BY <2>1, <2>5, <3>1 DEF Inv, OwnBatch
  <2>6. OwnBatch'
    BY <1>2, <2>2, <2>5 DEF OwnBatch, CameraOf
  <2> QED
    BY <2>4, <2>6
<1>5. CASE WorkerFlush \/ RemoveFlush \/ FlushSwap
  <2>1. PICK t \in Thread : SwapAndSend(t)
    <3>1. "control" \in Thread /\ "main" \in Thread
      BY DEF Thread
    <3> QED
      BY <1>1, <1>5, <3>1 DEF WorkerFlush, RemoveFlush, FlushSwap, ControlFlush, MainFlush
  <2>2. \A c \in Camera : records'[c] \subseteq records[c]
    BY <1>1, <2>1 DEF SwapAndSend
  <2>3. target'["worker"] \subseteq target["worker"]
    BY <1>1, <2>1 DEF SwapAndSend
  <2>4. hand' = hand
    BY <1>5 DEF WorkerFlush, RemoveFlush, FlushSwap, ControlFlush, MainFlush
  <2> QED
    BY <2>2, <2>3, <2>4, FewerRecords
<1>6. CASE records' = records /\ hand' = hand /\ target'["worker"] \subseteq target["worker"]
  BY <1>6, FewerRecords
<1>7. \/ Take /\ <<hand, target>>' # <<hand, target>>
      \/ AppendRecord \/ WorkerFlush \/ RemoveFlush \/ FlushSwap
      \/ records' = records /\ hand' = hand /\ target'["worker"] \subseteq target["worker"]
  <2>1. CASE StopCalled
    BY <2>1 DEF StopCalled, pubVars
  <2>2. CASE MainStep
    <3>1. CASE \E c \in Camera : FlushNext(c)
      BY <1>1, <3>1 DEF FlushNext, FinalFlush, ReadBatch
    <3>2. CASE Prepare \/ Run \/ Starting \/ Joined \/ JoinPublisher \/ Return
      BY <3>2 DEF Prepare, Run, Starting, StartFails, ListThreads, StartSource, Joined, JoinPublisher, Return, Enable, Disable, pubVars
    <3> QED
      BY <2>2, <3>1, <3>2 DEF MainStep
  <2>3. CASE Take
    <3>1. records' = records
      BY <2>3 DEF Take
    <3> QED
      BY <2>3, <3>1
  <2>4. CASE Leave
    BY <2>4 DEF Leave
  <2>6. CASE ShouldFlush
    BY <1>1, <2>6 DEF ShouldFlush, ReadBatch
  <2>5. CASE \E w \in Worker : Test(w) \/ Lock(w) \/ Read(w) \/ Infer(w) \/ PublishFrame(w)
    BY <2>5 DEF Test, Lock, Read, Infer, PublishFrame, Publish, pubVars
  <2> QED
    BY <2>1, <2>2, <2>3, <2>4, <2>5, <2>6 DEF Publisher, WorkerStep
<1> QED
  BY <1>3, <1>4, <1>5, <1>6, <1>7

-----------------------------------------------------------------------------
(* The invariant. *)

LEMMA InvInit ==
  ASSUME AdvInit
  PROVE  Inv
<1>1. AdvTypeOK
  <2>1. PubTypeOK
    <3>1. queue = <<>> /\ queue \in Seq(Index \X Record) /\ Len(queue) = 0
      BY EmptySeq DEF AdvInit, PubInit
    <3>2. 0 <= QueueSize /\ 0 \in Nat
      BY PublisherAssumption
    <3> QED
      BY <3>1, <3>2 DEF AdvInit, PubInit, PubTypeOK
  <2> QED
    BY <2>1, EmptySeq DEF AdvInit, AdvTypeOK
<1>2. Started
  BY AdvAssumption DEF AdvInit, Started
<1>3. /\ \A c \in Camera : reg[c] = NoIndex /\ source[c] = NoIndex /\ records[c] = {}
      /\ leaving = {} /\ Sources = {} /\ hand = {}
      /\ DOMAIN free = {} /\ DOMAIN queue = {}
  BY DEF AdvInit, PubInit, Sources
<1>4. IndexOwner /\ Indices
  BY <1>3 DEF IndexOwner, Indices
<1>5. Placed
  <2>1. WorkersPlaced
    BY <1>3 DEF WorkersPlaced, AdvInit
  <2> QED
    BY <1>3, <2>1 DEF Placed, QueuePlaced, RecordsPlaced
<1>6. OwnBatch
  BY <1>3 DEF OwnBatch
<1> QED
  BY <1>1, <1>2, <1>4, <1>5, <1>6 DEF Inv

LEMMA InvNext ==
  ASSUME Inv, [AdvNext]_advVars
  PROVE  Inv'
<1>1. AdvTypeOK /\ Started /\ IndexOwner /\ Indices
  BY DEF Inv
<1>2. CASE Indexing
  <2>1. PICK c \in Camera : AddSource(c) \/ BeginRemove(c) \/ EndRemove(c)
    BY <1>2 DEF Indexing
  <2>2. AdvTypeOK' /\ Started'
    BY <1>1, <1>2, IndexingTypes
  <2>3. IndexOwner' /\ Indices'
    BY <1>1, <2>1, AddOwns, RemoveOwns
  <2>4. Placed' /\ OwnBatch'
    BY <2>1, AddPlaces, RemovePlaces
  <2> QED
    BY <2>2, <2>3, <2>4 DEF Inv
<1>3. CASE \/ RemoveFlush \/ StopCalled \/ MainStep \/ Publisher
           \/ \E w \in Worker : Test(w) \/ Lock(w) \/ Read(w) \/ Infer(w) \/ PublishFrame(w)
  <2>1. UNCHANGED <<reg, source, added, free, next, leaving>>
    BY <1>3, TablesKept
  <2>2. AdvTypeOK' /\ Started'
    BY <1>1, <1>3, RestTypes, WorkerStepTypes
  <2>3. IndexOwner' /\ Indices'
    BY <1>1, <2>1 DEF IndexOwner, Indices
  <2>4. Placed'
    BY <1>3, <2>1, StartsPlaced, QueueStep, RecordStep DEF Placed
  <2>5. OwnBatch'
    BY <1>3, <2>1, RecordStep
  <2> QED
    BY <2>2, <2>3, <2>4, <2>5 DEF Inv
<1>4. CASE UNCHANGED advVars
  <2>1. UNCHANGED pubVars /\ UNCHANGED control /\ UNCHANGED runner /\ UNCHANGED workers /\ stop' = stop
    BY <1>4 DEF advVars
  <2>2. AdvTypeOK' /\ Started'
    BY <1>1, <2>1 DEF AdvTypeOK, PubTypeOK, Started, pubVars, control, runner, workers
  <2>3. IndexOwner' /\ Indices'
    BY <1>1, <2>1 DEF IndexOwner, Indices, pubVars, control
  <2>4. Sources' = Sources
    BY <2>1 DEF Sources, control
  <2>5. WorkersPlaced' /\ QueuePlaced' /\ RecordsPlaced'
    BY <2>1, <2>4 DEF Inv, Placed, WorkersPlaced, QueuePlaced, RecordsPlaced, CameraOf, pubVars,
       control, workers
  <2>6. OwnBatch'
    BY <2>1, <2>4 DEF Inv, OwnBatch, CameraOf, pubVars
  <2> QED
    BY <2>2, <2>3, <2>5, <2>6 DEF Inv, Placed
<1> QED
  BY <1>2, <1>3, <1>4, NextCases

\* The inductive invariant of the pipeline with its publisher.
THEOREM Invariance == AdvSpec => []Inv
<1>1. AdvInit => Inv
  BY InvInit
<1>2. Inv /\ [AdvNext]_advVars => Inv'
  BY InvNext
<1> QED
  BY <1>1, <1>2, PTL DEF AdvSpec

\* Every variable of the pipeline and its publisher keeps its type; the queue
\* keeps its bound.
THEOREM Typed == AdvSpec => []AdvTypeOK
<1>1. Inv => AdvTypeOK
  BY DEF Inv
<1> QED
  BY <1>1, Invariance, PTL

\* However sources come and go, an index belongs to one source, to the removal
\* that is flushing it, or to the free list.
THEOREM IndicesOwned == AdvSpec => []IndexOwner
<1>1. Inv => IndexOwner
  BY DEF Inv
<1> QED
  BY <1>1, Invariance, PTL

\* The record of a camera that is still a source never enters the batch of
\* another camera, although workers of removed cameras publish under indices
\* that were handed out again.
THEOREM BatchesOwn == AdvSpec => []OwnBatch
<1>1. Inv => OwnBatch
  BY DEF Inv
<1> QED
  BY <1>1, Invariance, PTL

-----------------------------------------------------------------------------
(* One place for every record. *)

\* A worker publishes a frame once: what was accepted is behind it.
Numbered ==
  /\ \A r \in accepted : CameraOf(r) \in added /\ r[2] <= made[r[1]]
  /\ \A w \in Worker : pc[w] \in {"process", "publish"} => <<w, made[w]>> \notin accepted

\* The loop over the sources in disable() has begun.
Over == main \in {"flushing", "returned", "raised"}

\* Who may flush when: the publisher's worker is gone when run() flushes, unless
\* the join timed out, and a removal flushes what is no longer a source.
Phases ==
  /\ pub # "holding" => hand = {}
  /\ pub \notin {"holding", "appended", "flushing"} => target["worker"] = {}
  /\ pub # "flushing" => payload["worker"] = {}
  /\ main = "new" => pub = "off"
  /\ Over /\ ~late => pub = "ended"
  /\ ~Over => ~late
  /\ target["main"] # {} => main = "flushing"
  /\ target["control"] \cap Sources = {}
  /\ final \subseteq added

\* What a flush has read of a source's batch is the batch it will empty.
PayloadOf(t) ==
  /\ target[t] \subseteq added /\ payload[t] \subseteq accepted
  /\ \A r \in payload[t] : CameraOf(r) \in Sources => CameraOf(r) \in target[t]
  /\ \A c \in target[t] \cap Sources :
       ~late /\ (t = "worker" => pub = "flushing") => payload[t] = records[c]

Payloads == \A t \in Thread : PayloadOf(t)

InQueue(r) == \E j \in DOMAIN queue : queue[j][2] = r

\* HeldOnce without counting.
Held ==
  /\ \A j, k \in DOMAIN queue : queue[j][2] = queue[k][2] => j = k
  /\ \A r \in Record \ accepted :
       /\ ~InQueue(r) /\ r \notin hand /\ sent[r] = 0
       /\ \A c \in Camera : r \notin records[c]
  /\ \A r \in accepted : CameraOf(r) \in Sources /\ ~late =>
       /\ InQueue(r) => r \notin hand
       /\ r \in records[CameraOf(r)] => ~InQueue(r) /\ r \notin hand
       /\ sent[r] = IF InQueue(r) \/ r \in hand \/ r \in records[CameraOf(r)] THEN 0 ELSE 1

\* A camera that is not a source any more is none again.
LEMMA StaysGone ==
  ASSUME Inv, [AdvNext]_advVars
  PROVE  added \subseteq added' /\ \A c \in added : c \in Sources' => c \in Sources
<1>1. source \in [Camera -> Index \cup {NoIndex}]
  BY DEF Inv, AdvTypeOK
<1>2. CASE Indexing
  <2>1. PICK c \in Camera : AddSource(c) \/ BeginRemove(c) \/ EndRemove(c)
    BY <1>2 DEF Indexing
  <2>2. CASE AddSource(c)
    <3>1. c \notin added /\ added' = added \cup {c} /\ \E i \in Index : source' = [source EXCEPT ![c] = i]
      BY <2>2, TakeIndex DEF AddSource, Inv
    <3> QED
      BY <1>1, <3>1 DEF Sources
  <2>3. CASE BeginRemove(c) \/ EndRemove(c)
    BY <1>1, <2>3 DEF BeginRemove, EndRemove, Sources
  <2> QED
    BY <2>1, <2>2, <2>3
<1>3. CASE UNCHANGED <<source, added>>
  BY <1>3 DEF Sources
<1>4. CASE UNCHANGED advVars
  BY <1>3, <1>4 DEF advVars, control
<1> QED
  BY <1>2, <1>3, <1>4, NextCases, TablesKept

LEMMA NumberedStep ==
  ASSUME Inv, Numbered, [AdvNext]_advVars
  PROVE  Numbered'
<1>1. /\ pc \in [Worker -> {"none", "test", "lock", "read", "process", "publish", "ended"}]
      /\ made \in [Worker -> Nat] /\ added \subseteq added'
      /\ accepted \subseteq Record /\ \A r \in Record : r[1] \in Worker /\ r[2] \in Nat
  BY AdvAssumption, StaysGone DEF Inv, AdvTypeOK, PubTypeOK
<1>2. ASSUME NEW w \in Worker, PublishFrame(w) PROVE Numbered'
  <2> DEFINE x == <<w, made[w]>>
  <2>1. /\ pc[w] = "publish" /\ pc' = [pc EXCEPT ![w] = "test"] /\ made' = made
        /\ accepted' \subseteq accepted \cup {x}
    BY <1>2 DEF PublishFrame, Publish, Goto
  <2>2. w[1] \in added
    BY <2>1 DEF Inv, Started, Placed, WorkersPlaced
  <2>3. CameraOf(x) \in added' /\ x[2] <= made'[x[1]]
    BY <1>1, <2>1, <2>2 DEF CameraOf
  <2>4. \A v \in Worker : pc'[v] \in {"process", "publish"} => v # w /\ pc[v] = pc'[v]
    BY <1>1, <2>1
  <2> QED
    BY <1>1, <2>1, <2>3, <2>4 DEF Numbered, CameraOf
<1>3. ASSUME NEW w \in Worker, Read(w) PROVE Numbered'
  <2>1. /\ accepted' = accepted /\ pc[w] = "read"
        /\ \/ made' = [made EXCEPT ![w] = @ + 1] /\ pc' = [pc EXCEPT ![w] = "process"]
           \/ made' = made /\ pc' = [pc EXCEPT ![w] = "ended"]
    BY <1>3 DEF Read, Goto, pubVars
  <2>2. \A v \in Worker : made[v] <= made'[v] /\ made'[v] \in Nat /\ made[v] \in Nat
    BY <1>1, <2>1
  <2>3. \A r \in accepted : CameraOf(r) \in added' /\ r[2] <= made'[r[1]]
    <3> SUFFICES ASSUME NEW r \in accepted PROVE CameraOf(r) \in added' /\ r[2] <= made'[r[1]]
      OBVIOUS
    <3>1. r[1] \in Worker /\ r[2] \in Nat /\ CameraOf(r) \in added /\ r[2] <= made[r[1]]
      BY <1>1 DEF Numbered
    <3>2. made[r[1]] <= made'[r[1]] /\ made'[r[1]] \in Nat /\ made[r[1]] \in Nat
      BY <2>2, <3>1
    <3> QED
      BY <1>1, <3>1, <3>2
  <2>4. ASSUME NEW v \in Worker, pc'[v] \in {"process", "publish"}
        PROVE  <<v, made'[v]>> \notin accepted
    <3>1. CASE v = w
      <4>1. made'[w] = made[w] + 1 /\ made[w] \in Nat
        BY <1>1, <2>1, <2>4, <3>1
      <4> QED
        BY <1>1, <3>1, <4>1 DEF Numbered
    <3>2. CASE v # w
      BY <1>1, <2>1, <2>4, <3>2 DEF Numbered
    <3> QED
      BY <3>1, <3>2
  <2> QED
    BY <2>1, <2>3, <2>4 DEF Numbered, CameraOf
<1>4. ASSUME UNCHANGED <<accepted, made>>,
             \A w \in Worker : pc'[w] \in {"process", "publish"}
                                 => pc[w] \in {"process", "publish"}
      PROVE  Numbered'
  BY <1>1, <1>4 DEF Numbered, CameraOf
<1>5. CASE Indexing \/ \E c \in Camera : StartSource(c)
  <2>1. UNCHANGED <<accepted, made>>
    BY <1>5 DEF Indexing, AddSource, BeginRemove, EndRemove, Register, UnregisterFlush, Unregister,
       StartSource, StartThreads, pubVars, workers
  <2>2. pc' = pc \/ \E ws \in SUBSET Worker : pc' = [w \in Worker |-> IF w \in ws THEN "test" ELSE pc[w]]
    <3>1. CASE \E c \in Camera : StartSource(c)
      <4>1. \A c \in Camera : {<<c, "run">>} \subseteq Worker
        BY DEF Worker
      <4> QED
        BY <3>1, <4>1 DEF StartSource, StartThreads
    <3>2. CASE \E c \in Camera : AddSource(c)
      <4>1. PICK c \in Camera : AddSource(c)
        BY <3>2
      <4>2. (IF main # "new" /\ ~stop THEN {<<c, "hot">>} ELSE {}) \subseteq Worker
        BY DEF Worker
      <4> QED
        BY <4>1, <4>2 DEF AddSource, StartThreads
    <3>3. CASE \E c \in Camera : BeginRemove(c) \/ EndRemove(c)
      BY <3>3 DEF BeginRemove, EndRemove, workers
    <3> QED
      BY <1>5, <3>1, <3>2, <3>3 DEF Indexing
  <2> QED
    BY <1>4, <2>1, <2>2
<1>6. ASSUME NEW w \in Worker, Test(w) \/ Lock(w) \/ Infer(w) PROVE Numbered'
  BY <1>1, <1>4, <1>6 DEF Test, Lock, Infer, Goto, pubVars
<1>7. CASE Publisher \/ RemoveFlush \/ StopCalled \/ UNCHANGED advVars
  BY <1>4, <1>7 DEF Publisher, WorkerStep, Take, AppendRecord, ShouldFlush, WorkerFlush, Leave, RemoveFlush,
     ControlFlush, StopCalled, advVars, pubVars, workers
<1>8. CASE MainStep /\ ~\E c \in Camera : StartSource(c)
  BY <1>4, <1>8 DEF MainStep, Prepare, Run, Starting, StartFails, ListThreads, Joined, JoinPublisher, FlushSwap, Return, FlushNext,
     Enable, Disable, MainFlush, FinalFlush, pubVars, workers
<1> QED
  BY <1>2, <1>3, <1>5, <1>6, <1>7, <1>8, NextCases

\* The steps of the publisher's worker, and of the threads that flush.
LEMMA PhasesStep ==
  ASSUME Inv, Phases, Payloads, [AdvNext]_advVars
  PROVE  Phases'
<1> DEFINE
      Idle == /\ pub # "holding" => hand = {}
              /\ pub \notin {"holding", "appended", "flushing"} => target["worker"] = {}
              /\ pub # "flushing" => payload["worker"] = {}
      Main == /\ main = "new" => pub = "off"
              /\ Over /\ ~late => pub = "ended"
              /\ ~Over => ~late
              /\ target["main"] # {} => main = "flushing"
      Rest == target["control"] \cap Sources = {} /\ final \subseteq added
<1>1. /\ target \in [Thread -> SUBSET Camera] /\ payload \in [Thread -> SUBSET Record]
      /\ "worker" \in Thread /\ "main" \in Thread /\ "control" \in Thread
      /\ source \in [Camera -> Index \cup {NoIndex}]
  BY DEF Inv, AdvTypeOK, PubTypeOK, Thread
<1>2. /\ added \subseteq added' /\ \A c \in added : c \in Sources' => c \in Sources
      /\ target["control"] \subseteq added
  BY <1>1, StaysGone DEF Payloads, PayloadOf
<1>3. Idle /\ Main /\ Rest
  BY DEF Phases
<1>4. ASSUME NEW t \in Thread, SwapAndSend(t)
      PROVE  /\ target'[t] = {} /\ payload'[t] = {}
             /\ \A u \in Thread \ {t} : target'[u] = target[u] /\ payload'[u] = payload[u]
  BY <1>1, <1>4 DEF SwapAndSend
<1>5. Idle'
  <2>1. CASE Take
    <3>1. /\ pub = "loop" /\ UNCHANGED payload
          /\ \/ UNCHANGED <<pub, hand, target>>
             \/ pub' = "holding"
      BY <2>1 DEF Take
    <3> QED
      BY <1>3, <3>1
  <2>2. CASE AppendRecord
    BY <1>3, <2>2 DEF AppendRecord
  <2>9. CASE ShouldFlush
    <3>1. /\ hand' = hand /\ hand = {}
          /\ \E c, b : /\ \/ pub' = "flushing"
                          \/ pub' = "loop" /\ b = {}
                       /\ payload' = [payload EXCEPT !["worker"] = b]
                       /\ target' = [target EXCEPT !["worker"] = IF b = {} THEN {} ELSE {c}]
      BY <1>3, <2>9 DEF ShouldFlush, ReadBatch
    <3> QED
      BY <1>1, <3>1
  <2>3. CASE WorkerFlush
    <3>1. pub = "flushing" /\ pub' = "loop" /\ hand' = hand /\ SwapAndSend("worker")
      BY <2>3 DEF WorkerFlush
    <3> QED
      BY <1>1, <1>3, <1>4, <3>1
  <2>4. CASE Leave \/ Prepare
    BY <1>3, <2>4 DEF Leave, Prepare, Enable
  <2>5. ASSUME UNCHANGED <<pub, hand>>, target'["worker"] = target["worker"],
               payload'["worker"] = payload["worker"]
        PROVE  Idle'
    BY <1>3, <2>5
  <2>6. CASE RemoveFlush \/ FlushSwap
    <3>1. UNCHANGED <<pub, hand>> /\ (SwapAndSend("control") \/ SwapAndSend("main"))
      BY <2>6 DEF RemoveFlush, FlushSwap, ControlFlush, MainFlush
    <3> QED
      BY <1>1, <1>4, <2>5, <3>1
  <2>7. CASE Indexing \/ \E c \in Camera : FlushNext(c)
    <3>1. /\ UNCHANGED <<pub, hand>>
          /\ \/ UNCHANGED <<target, payload>>
             \/ \E c, b : ReadBatch("control", c, b) \/ ReadBatch("main", c, b)
      BY <2>7 DEF Indexing, AddSource, BeginRemove, EndRemove, FlushNext, Register,
         UnregisterFlush, Unregister, FinalFlush
    <3> QED
      BY <1>1, <2>5, <3>1 DEF ReadBatch
  <2>8. CASE \/ StopCalled \/ Run \/ Starting \/ Joined \/ JoinPublisher \/ Return \/ UNCHANGED advVars
             \/ \E w \in Worker : Test(w) \/ Lock(w) \/ Read(w) \/ Infer(w) \/ PublishFrame(w)
    <3>1. UNCHANGED <<pub, hand, target, payload>>
      BY <2>8 DEF StopCalled, Run, Starting, StartFails, ListThreads, StartSource, Joined, JoinPublisher, Return, Test, Lock, Read, Infer, PublishFrame,
         Publish, Disable, advVars, pubVars
    <3> QED
      BY <2>5, <3>1
  <2> HIDE DEF Idle
  <2> QED
    BY <2>1, <2>2, <2>3, <2>4, <2>6, <2>7, <2>8, <2>9, NextCases DEF MainStep, Publisher, WorkerStep
<1>6. Main'
  <2>1. ASSUME UNCHANGED <<main, late>>, target'["main"] = target["main"],
               pub' = pub \/ pub \in {"loop", "holding", "appended", "flushing"}
        PROVE  Main'
    BY <1>3, <2>1 DEF Over
  <2>2. CASE Publisher
    <3>1. /\ UNCHANGED <<main, late>> /\ pub \in {"loop", "holding", "appended", "flushing"}
          /\ \/ UNCHANGED target
             \/ \E f : target' = [target EXCEPT !["worker"] = f]
      BY <2>2 DEF Publisher, WorkerStep, Take, AppendRecord, ShouldFlush, WorkerFlush, Leave, ReadBatch,
         SwapAndSend, runner
    <3> QED
      BY <1>1, <2>1, <3>1
  <2>3. CASE Indexing \/ RemoveFlush
    <3>1. /\ UNCHANGED <<main, late, pub>>
          /\ \/ UNCHANGED target
             \/ \E f : target' = [target EXCEPT !["control"] = f]
      BY <2>3 DEF Indexing, AddSource, BeginRemove, EndRemove, RemoveFlush, Register,
         UnregisterFlush, Unregister, ControlFlush, ReadBatch, SwapAndSend, runner
    <3> QED
      BY <1>1, <2>1, <3>1
  <2>4. CASE \/ StopCalled \/ UNCHANGED advVars
             \/ \E w \in Worker : Test(w) \/ Lock(w) \/ Read(w) \/ Infer(w) \/ PublishFrame(w)
    <3>1. UNCHANGED <<main, late, pub, target>>
      BY <2>4 DEF StopCalled, Test, Lock, Read, Infer, PublishFrame, Publish, advVars, pubVars, runner
    <3> QED
      BY <2>1, <3>1
  <2>5. CASE Prepare \/ Run \/ Starting \/ Joined \/ JoinPublisher
    <3>1. target' = target /\ main # "flushing"
      BY <2>5 DEF Prepare, Run, Starting, StartFails, ListThreads, StartSource, Joined, JoinPublisher, Enable, Disable, pubVars
    <3>2. CASE Prepare \/ Run \/ Starting \/ Joined
      <4>1. /\ ~Over /\ ~Over' /\ late' = late
            /\ main' = "new" => main = "new" /\ pub' = pub
        BY <3>2 DEF Prepare, Run, Starting, StartFails, ListThreads, StartSource, Joined, Over, pubVars
      <4> QED
        BY <1>3, <3>1, <4>1
    <3>3. CASE JoinPublisher
      <4>1. main' = "flushing" /\ pub' = pub /\ (late' <=> pub # "ended")
        BY <3>3 DEF JoinPublisher, pubVars
      <4> QED
        BY <1>3, <3>1, <4>1 DEF Over
    <3> QED
      BY <2>5, <3>2, <3>3
  <2>6. CASE (\E c \in Camera : FlushNext(c)) \/ FlushSwap
    <3>1. main = "flushing" /\ UNCHANGED <<main, late, pub>>
      BY <1>3, <2>6 DEF FlushNext, FlushSwap, FinalFlush, MainFlush, SwapAndSend, runner
    <3> QED
      BY <1>3, <3>1 DEF Over
  <2>7. CASE Return
    BY <1>3, <2>7 DEF Return, Over, pubVars
  <2> HIDE DEF Main
  <2> QED
    BY <2>2, <2>3, <2>4, <2>5, <2>6, <2>7, NextCases DEF MainStep
<1>7. Rest'
  <2>1. ASSUME target'["control"] \subseteq target["control"], final' = final
        PROVE  Rest'
    BY <1>2, <1>3, <2>1
  <2>2. ASSUME NEW c \in Camera, BeginRemove(c) PROVE Rest'
    <3>1. /\ target'["control"] \subseteq {c} /\ source' = [source EXCEPT ![c] = NoIndex]
          /\ final' = final
      BY <1>1, <2>2 DEF BeginRemove, UnregisterFlush, ReadBatch, runner
    <3>2. c \notin Sources'
      BY <1>1, <3>1 DEF Sources
    <3> QED
      BY <1>2, <1>3, <3>1, <3>2
  <2>3. CASE JoinPublisher
    <3>1. Registered \subseteq added
      BY DEF Inv, Indices, Registered
    <3>2. target' = target /\ final' = Registered
      BY <2>3 DEF JoinPublisher, pubVars
    <3> QED
      BY <1>2, <1>3, <3>1, <3>2
  <2>4. CASE RemoveFlush
    BY <1>1, <1>4, <2>1, <2>4 DEF RemoveFlush, ControlFlush, runner
  <2>5. CASE \/ Publisher \/ FlushSwap \/ \E c \in Camera : AddSource(c) \/ EndRemove(c) \/ FlushNext(c)
    <3>1. /\ final' = final
          /\ \/ UNCHANGED target
             \/ \E t \in {"main", "worker"} : \E f : target' = [target EXCEPT ![t] = f]
      BY <2>5 DEF Publisher, WorkerStep, Take, AppendRecord, ShouldFlush, WorkerFlush, Leave, ReadBatch, MainFlush,
         SwapAndSend, FlushSwap, FlushNext, FinalFlush, AddSource, EndRemove, Register, Unregister,
         runner
    <3> QED
      BY <1>1, <2>1, <3>1
  <2>6. CASE \/ StopCalled \/ Prepare \/ Run \/ Starting \/ Joined \/ Return \/ UNCHANGED advVars
             \/ \E w \in Worker : Test(w) \/ Lock(w) \/ Read(w) \/ Infer(w) \/ PublishFrame(w)
    <3>1. UNCHANGED <<final, target>>
      BY <2>6 DEF StopCalled, Prepare, Run, Starting, StartFails, ListThreads, StartSource, Joined, Return, Test, Lock, Read, Infer, PublishFrame,
         Publish, Enable, Disable, advVars, pubVars, runner
    <3> QED
      BY <2>1, <3>1
  <2> HIDE DEF Rest
  <2> QED
    BY <2>2, <2>3, <2>4, <2>5, <2>6, NextCases DEF MainStep, Indexing
<1> QED
  BY <1>5, <1>6, <1>7 DEF Phases

Counted == Numbered /\ Phases /\ Payloads /\ Held

\* disable() does not take back that its join timed out.
LEMMA StaysLate ==
  ASSUME Phases, [AdvNext]_advVars, ~late'
  PROVE  ~late
<1>1. CASE JoinPublisher
  BY <1>1 DEF JoinPublisher, Phases, Over
<1>2. late' = late \/ JoinPublisher
  <2>1. CASE MainStep
    BY <2>1 DEF MainStep, Prepare, Run, Starting, StartFails, ListThreads, StartSource, Joined, FlushSwap, Return, FlushNext, runner
  <2>2. CASE ~MainStep
    BY <2>2, NextCases DEF Indexing, AddSource, BeginRemove, EndRemove, RemoveFlush, StopCalled,
       Publisher, Test, Lock, Read, Infer, PublishFrame, advVars, runner
  <2> QED
    BY <2>1, <2>2
<1> QED
  BY <1>1, <1>2

\* Two threads never flush a batch that matters at once, and nothing is appended
\* to it meanwhile.
LEMMA FlushesAlone ==
  ASSUME Phases, ~late
  PROVE  /\ target["main"] # {} => pub = "ended"
         /\ target["control"] \cap Sources = {}
  BY DEF Phases, Over

LEMMA PayloadKept ==
  ASSUME Inv, Counted, [AdvNext]_advVars, NEW t \in Thread,
         target'[t] = target[t], payload'[t] = payload[t], accepted \subseteq accepted',
         pub' = "flushing" /\ t = "worker" => pub = "flushing",
         \A c \in target[t] \cap Sources :
           ~late /\ (t = "worker" => pub = "flushing") => records'[c] = records[c]
  PROVE  PayloadOf(t)'
<1>1. /\ added \subseteq added' /\ \A c \in added : c \in Sources' => c \in Sources
      /\ ~late' => ~late
  BY StaysGone, StaysLate DEF Counted
<1>2. PayloadOf(t) /\ \A r \in accepted : CameraOf(r) \in added
  BY DEF Counted, Payloads, Numbered
<1>3. target'[t] \subseteq added' /\ payload'[t] \subseteq accepted'
  BY <1>1, <1>2 DEF PayloadOf
<1>4. \A r \in payload[t] : CameraOf(r) \in Sources' => CameraOf(r) \in target[t]
  BY <1>1, <1>2 DEF PayloadOf
<1>5. \A c \in target[t] \cap Sources' :
        ~late' /\ (t = "worker" => pub' = "flushing") => payload[t] = records'[c]
  BY <1>1, <1>2 DEF PayloadOf
<1> QED
  BY <1>3, <1>4, <1>5 DEF PayloadOf, CameraOf

\* A flush begins.
LEMMA PayloadRead ==
  ASSUME Inv, Counted, [AdvNext]_advVars, NEW t \in Thread, NEW c \in Camera, c \in added,
         NEW b \in SUBSET Record, ReadBatch(t, c, b), b = {} \/ b = records'[c],
         b \subseteq accepted, accepted' = accepted,
         \A r \in b : CameraOf(r) \in Sources => CameraOf(r) = c
  PROVE  /\ PayloadOf(t)'
         /\ \A u \in Thread \ {t} : target'[u] = target[u] /\ payload'[u] = payload[u]
<1>1. /\ target \in [Thread -> SUBSET Camera] /\ payload \in [Thread -> SUBSET Record]
  BY DEF Inv, AdvTypeOK, PubTypeOK
<1>2. /\ payload'[t] = b /\ target'[t] = IF b = {} THEN {} ELSE {c}
      /\ \A u \in Thread \ {t} : target'[u] = target[u] /\ payload'[u] = payload[u]
  BY <1>1 DEF ReadBatch
<1>3. added \subseteq added' /\ \A d \in added : d \in Sources' => d \in Sources
  BY StaysGone
<1>4. \A r \in b : CameraOf(r) \in Sources' => CameraOf(r) = c
  BY <1>3 DEF Counted, Numbered
<1> QED
  BY <1>2, <1>3, <1>4 DEF PayloadOf, CameraOf

\* The batch of a source and the record the worker holds for it.
LEMMA BatchAccepted ==
  ASSUME Inv, Counted, NEW c \in Camera
  PROVE  /\ records[c] \subseteq accepted /\ hand \subseteq accepted
         /\ \A r \in records[c] : CameraOf(r) \in Sources => CameraOf(r) = c
         /\ c \in target["worker"] => \A r \in hand : CameraOf(r) \in Sources => CameraOf(r) = c
  BY DEF Inv, AdvTypeOK, PubTypeOK, OwnBatch, Counted, Held

LEMMA PayloadsStep ==
  ASSUME Inv, Counted, [AdvNext]_advVars
  PROVE  Payloads'
<1>1. /\ target \in [Thread -> SUBSET Camera] /\ payload \in [Thread -> SUBSET Record]
      /\ "worker" \in Thread /\ "main" \in Thread /\ "control" \in Thread
      /\ records \in [Camera -> SUBSET Record] /\ Thread = {"worker", "main", "control"}
      /\ hand \subseteq Record
  BY DEF Inv, AdvTypeOK, PubTypeOK, Thread
<1>2. Phases /\ Payloads /\ Registered \subseteq added
  BY DEF Counted, Inv, Indices, Registered
<1>3. ASSUME UNCHANGED <<target, payload, records>>, accepted \subseteq accepted',
             pub' = "flushing" => pub = "flushing"
      PROVE  Payloads'
  BY <1>3, PayloadKept DEF Payloads
<1>4. CASE Take
  <2>1. /\ pub = "loop" /\ payload["worker"] = {} /\ UNCHANGED <<payload, records, accepted>>
        /\ \/ UNCHANGED <<pub, target>>
           \/ /\ pub' = "holding"
              /\ target' = [target EXCEPT !["worker"] = {c \in Camera : reg[c] = Head(queue)[1]}]
    BY <1>2, <1>4 DEF Take, Phases
  <2>2. Head(queue)[1] # NoIndex
    <3>1. queue # <<>> /\ queue \in Seq(Index \X Record)
      BY <1>4 DEF Take, Inv, AdvTypeOK, PubTypeOK
    <3>2. Head(queue) \in Index \X Record
      BY <3>1, HeadTailProperties
    <3> QED
      BY <3>2 DEF Index, NoIndex
  <2>3. CASE UNCHANGED <<pub, target>>
    BY <1>3, <2>1, <2>3
  <2>4. CASE /\ pub' = "holding"
             /\ target' = [target EXCEPT !["worker"] = {c \in Camera : reg[c] = Head(queue)[1]}]
    <3>1. {c \in Camera : reg[c] = Head(queue)[1]} \subseteq added
      BY <1>2, <2>2 DEF Registered
    <3>2. target'["worker"] \subseteq added' /\ payload'["worker"] = {}
      BY <1>1, <2>1, <2>4, <3>1, StaysGone
    <3>3. PayloadOf("worker")'
      BY <2>4, <3>2 DEF PayloadOf
    <3>4. \A u \in {"main", "control"} : PayloadOf(u)'
      BY <1>1, <2>1, <2>4, PayloadKept
    <3> QED
      BY <1>1, <3>3, <3>4 DEF Payloads
  <2> QED
    BY <2>1, <2>3, <2>4
<1>5. CASE AppendRecord
  <2>1. PICK c \in target["worker"] : records' = [records EXCEPT ![c] = @ \cup hand]
    BY <1>5 DEF AppendRecord
  <2>2. /\ c \in Camera /\ pub = "holding" /\ pub' = "appended" /\ c \in added
        /\ UNCHANGED <<target, payload, accepted>>
    BY <1>1, <1>2, <1>5 DEF AppendRecord, Payloads, PayloadOf
  <2>3. ASSUME NEW t \in Thread PROVE PayloadOf(t)'
    <3>1. CASE t = "worker"
      BY <2>2, <3>1, PayloadKept
    <3>2. CASE t # "worker"
      <4>1. ~late => target[t] \cap Sources = {}
        BY <1>1, <1>2, <2>2, <3>2, FlushesAlone
      <4> QED
        BY <2>2, <3>2, <4>1, PayloadKept
    <3> QED
      BY <3>1, <3>2
  <2> QED
    BY <2>3 DEF Payloads
<1>11. CASE ShouldFlush
  <2>1. PICK c \in target["worker"] : \E b \in {{}, records[c]} : ReadBatch("worker", c, b)
    BY <1>11 DEF ShouldFlush
  <2>2. c \in Camera /\ c \in added /\ UNCHANGED <<records, accepted>>
    BY <1>1, <1>2, <1>11, <2>1 DEF ShouldFlush, Payloads, PayloadOf
  <2>3. PICK b \in {{}, records[c]} : ReadBatch("worker", c, b)
    BY <2>1
  <2>4. /\ b \in SUBSET Record /\ (b = {} \/ b = records'[c])
        /\ b \subseteq accepted /\ \A r \in b : CameraOf(r) \in Sources => CameraOf(r) = c
    BY <1>1, <2>2, <2>3, BatchAccepted
  <2>5. /\ PayloadOf("worker")'
        /\ \A u \in {"main", "control"} : target'[u] = target[u] /\ payload'[u] = payload[u]
    BY <1>1, <2>2, <2>3, <2>4, PayloadRead
  <2>6. \A u \in {"main", "control"} : PayloadOf(u)'
    BY <1>1, <2>2, <2>5, PayloadKept
  <2> QED
    BY <1>1, <2>5, <2>6 DEF Payloads
<1>6. ASSUME NEW t \in Thread, SwapAndSend(t), accepted' = accepted,
             pub' = "flushing" => pub = "flushing", t = "worker" => pub = "flushing"
      PROVE  Payloads'
  <2>1. /\ target'[t] = {} /\ payload'[t] = {}
        /\ \A u \in Thread \ {t} : target'[u] = target[u] /\ payload'[u] = payload[u]
        /\ \A c \in Camera : c \notin target[t] => records'[c] = records[c]
    BY <1>1, <1>6 DEF SwapAndSend
  <2>2. PayloadOf(t)'
    BY <2>1 DEF PayloadOf
  <2>3. ASSUME NEW u \in Thread \ {t} PROVE PayloadOf(u)'
    <3>1. ASSUME NEW c \in target[u] \cap Sources, ~late, u = "worker" => pub = "flushing"
          PROVE  records'[c] = records[c]
      <4>1. c \in Camera /\ u # "control" /\ (t = "control" => c \notin target[t])
        BY <1>1, <1>2, <3>1, FlushesAlone
      <4>2. t = "control"
        BY <1>1, <1>2, <1>6, <3>1, <4>1, FlushesAlone DEF SwapAndSend
      <4> QED
        BY <2>1, <4>1, <4>2
    <3> QED
      BY <1>6, <2>1, <3>1, PayloadKept
  <2> QED
    BY <2>2, <2>3 DEF Payloads
<1>7. CASE WorkerFlush \/ RemoveFlush \/ FlushSwap
  BY <1>1, <1>6, <1>7 DEF WorkerFlush, RemoveFlush, FlushSwap, ControlFlush, MainFlush
<1>8. ASSUME NEW c \in Camera, NEW t \in {"control", "main"}, ReadBatch(t, c, records[c]), c \in added,
             UNCHANGED <<records, pub, accepted>>
      PROVE  Payloads'
  <2>1. records[c] \in SUBSET Record
    BY <1>1
  <2>2. /\ PayloadOf(t)'
        /\ \A u \in Thread \ {t} : target'[u] = target[u] /\ payload'[u] = payload[u]
    BY <1>1, <1>8, <2>1, BatchAccepted, PayloadRead
  <2>3. \A u \in Thread \ {t} : PayloadOf(u)'
    BY <1>8, <2>2, PayloadKept
  <2> QED
    BY <2>2, <2>3 DEF Payloads
<1>9. ASSUME NEW c \in Camera, BeginRemove(c) \/ FlushNext(c) PROVE Payloads'
  <2>1. c \in added
    BY <1>2, <1>9 DEF BeginRemove, FlushNext, Sources, Inv, Indices, Phases
  <2> QED
    BY <1>8, <1>9, <2>1 DEF BeginRemove, FlushNext, UnregisterFlush, FinalFlush
<1>10. CASE \/ \E c \in Camera : AddSource(c) \/ EndRemove(c)
            \/ Leave \/ StopCalled \/ Prepare \/ Run \/ Starting \/ Joined \/ JoinPublisher \/ Return
            \/ UNCHANGED advVars
            \/ \E w \in Worker : Test(w) \/ Lock(w) \/ Read(w) \/ Infer(w) \/ PublishFrame(w)
  <2>1. /\ UNCHANGED <<target, payload, records>> /\ accepted \subseteq accepted'
        /\ pub' = "flushing" => pub = "flushing"
    BY <1>10 DEF AddSource, EndRemove, Register, Unregister, Leave, StopCalled, Prepare, Run, Starting, StartFails, ListThreads, StartSource, Joined,
       JoinPublisher, Return, Test, Lock, Read, Infer, PublishFrame, Publish, Enable, Disable, advVars, pubVars
  <2> QED
    BY <1>3, <2>1
<1> QED
  BY <1>4, <1>5, <1>7, <1>9, <1>10, <1>11, NextCases DEF MainStep, Indexing, Publisher, WorkerStep

\* What the third part of Held says of a record.
Placement(r) ==
  /\ InQueue(r) => r \notin hand
  /\ r \in records[CameraOf(r)] => ~InQueue(r) /\ r \notin hand
  /\ sent[r] = IF InQueue(r) \/ r \in hand \/ r \in records[CameraOf(r)] THEN 0 ELSE 1

\* The records that Held speaks of were so before the step, or were accepted by it.
LEMMA HeldBefore ==
  ASSUME Inv, Counted, [AdvNext]_advVars, NEW r \in accepted, CameraOf(r) \in Sources', ~late'
  PROVE  CameraOf(r) \in Sources /\ ~late /\ Placement(r) /\ r \in Record /\ CameraOf(r) \in Camera
<1>1. r \in Record /\ CameraOf(r) \in added
  BY DEF Inv, AdvTypeOK, PubTypeOK, Counted, Numbered
<1>2. CameraOf(r) \in Sources /\ ~late
  BY <1>1, StaysGone, StaysLate DEF Counted
<1> QED
  BY <1>1, <1>2, RecordCamera DEF Counted, Held, Placement

LEMMA HeldKept ==
  ASSUME Inv, Counted, [AdvNext]_advVars, UNCHANGED <<queue, hand, records, accepted, sent>>
  PROVE  Held'
<1>1. \A r : InQueue(r)' <=> InQueue(r)
  BY DEF InQueue
<1>2. \A r \in accepted : CameraOf(r) \in Sources' /\ ~late' => Placement(r)
  BY HeldBefore
<1> QED
  BY <1>1, <1>2 DEF Counted, Held, Placement, CameraOf

\* Only the frame that a worker has in hand is new to the queue.
LEMMA PublishHeld ==
  ASSUME Inv, Counted, NEW w \in Worker, PublishFrame(w)
  PROVE  Held'
<1> DEFINE x == <<w, made[w]>>
<1>1. /\ pc[w] = "publish" /\ Publish(at[w], x)
      /\ UNCHANGED <<hand, records, sent>> /\ [AdvNext]_advVars
  BY DEF PublishFrame, Publish, AdvNext, Step
<1>2. x \notin accepted /\ x \in Record /\ at[w] \in Index
  <2>1. made[w] \in 1 .. MaxFrames[w] /\ at[w] # NoIndex
    BY <1>1, AdvAssumption DEF Inv, Started, AdvTypeOK
  <2> QED
    BY <1>1, <2>1, AdvAssumption DEF Counted, Numbered, Inv, AdvTypeOK
<1>3. CASE Len(queue) < QueueSize
  <2> DEFINE e == <<at[w], x>>
  <2>1. queue' = Append(queue, e) /\ accepted' = accepted \cup {x}
    BY <1>1, <1>3 DEF Publish
  <2>2. queue \in Seq(Index \X Record) /\ e \in Index \X Record /\ e[2] = x
    BY <1>2 DEF Inv, AdvTypeOK, PubTypeOK
  <2> HIDE DEF e
  <2> DEFINE n == Len(queue)
  <2>3. /\ n \in Nat /\ DOMAIN queue = 1 .. n /\ DOMAIN queue' = 1 .. n + 1
        /\ \A j \in 1 .. n : queue'[j] = queue[j]
        /\ queue'[n + 1] = e
    BY <2>1, <2>2, AppendProperties, LenProperties
  <2> HIDE DEF n
  <2>4. \A r : InQueue(r)' <=> InQueue(r) \/ r = x
    <3>1. \A j \in DOMAIN queue' : j \in DOMAIN queue \/ j = n + 1
      BY <2>3
    <3>2. \A j \in DOMAIN queue : j \in DOMAIN queue'
      BY <2>3
    <3>3. n + 1 \in DOMAIN queue'
      BY <2>3
    <3> QED
      BY <2>2, <2>3, <3>1, <3>2, <3>3 DEF InQueue
  <2>5. ~InQueue(x) /\ x \notin hand /\ sent[x] = 0 /\ \A c \in Camera : x \notin records[c]
    BY <1>2 DEF Counted, Held
  <2>6. \A j, k \in DOMAIN queue' : queue'[j][2] = queue'[k][2] => j = k
    <3>1. \A j \in DOMAIN queue' : j \in DOMAIN queue \/ j = n + 1
      BY <2>3
    <3>2. \A j \in DOMAIN queue : queue[j][2] # x
      BY <2>5 DEF InQueue
    <3> QED
      BY <2>2, <2>3, <3>1, <3>2 DEF Counted, Held
  <2>7. \A r \in Record \ accepted' :
          /\ ~InQueue(r)' /\ r \notin hand' /\ sent'[r] = 0
          /\ \A c \in Camera : r \notin records'[c]
    BY <1>1, <2>1, <2>4 DEF Counted, Held
  <2>8. ASSUME NEW r \in accepted', CameraOf(r) \in Sources', ~late' PROVE Placement(r)'
    <3>1. CASE r = x
      <4>1. CameraOf(x) \in Camera
        BY <1>2, RecordCamera
      <4> QED
        BY <1>1, <2>4, <2>5, <3>1, <4>1 DEF Placement, CameraOf
    <3>2. CASE r # x
      <4>1. r \in accepted /\ Placement(r)
        BY <1>1, <2>1, <2>8, <3>2, HeldBefore
      <4> QED
        BY <1>1, <2>4, <3>2, <4>1 DEF Placement, CameraOf
    <3> QED
      BY <3>1, <3>2
  <2> QED
    BY <2>6, <2>7, <2>8 DEF Held, Placement, CameraOf
<1>4. CASE ~(Len(queue) < QueueSize)
  BY <1>1, <1>4, HeldKept DEF Publish
<1> QED
  BY <1>3, <1>4

\* The worker takes the first record, and drops none of a source.
LEMMA TakeHeld ==
  ASSUME Inv, Counted, Take, [AdvNext]_advVars
  PROVE  Held'
<1> DEFINE x == Head(queue)[2]
           found == {c \in Camera : reg[c] = Head(queue)[1]}
<1>1. /\ queue # <<>> /\ queue' = Tail(queue) /\ hand = {}
      /\ UNCHANGED <<records, accepted, sent>>
      /\ hand' = IF found = {} THEN {} ELSE {x}
  BY DEF Take, Counted, Phases
<1>2. queue \in Seq(Index \X Record)
  BY DEF Inv, AdvTypeOK, PubTypeOK
<1> DEFINE n == Len(queue)
<1>3. /\ n \in Nat /\ n >= 1 /\ DOMAIN queue = 1 .. n /\ DOMAIN queue' = 1 .. n - 1
      /\ \A j \in 1 .. n - 1 : queue'[j] = queue[j + 1]
      /\ Head(queue) = queue[1] /\ Head(queue) \in Index \X Record
  BY <1>1, <1>2, HeadTailProperties, EmptySeq, LenProperties
<1> HIDE DEF n
<1>4. x \in accepted /\ CameraOf(x) \in Camera
  <2>1. InQueue(x) /\ x \in Record
    BY <1>3 DEF InQueue
  <2> QED
    BY <2>1, RecordCamera DEF Counted, Held
<1>5. \A r : InQueue(r)' <=> InQueue(r) /\ r # x
  <2>1. ASSUME NEW j \in DOMAIN queue' PROVE j + 1 \in DOMAIN queue /\ queue[j + 1][2] # x
    <3>1. j + 1 \in DOMAIN queue /\ 1 \in DOMAIN queue /\ j + 1 # 1
      BY <1>3
    <3> QED
      BY <1>3, <3>1 DEF Counted, Held
  <2>2. ASSUME NEW r, InQueue(r), r # x PROVE InQueue(r)'
    <3>1. PICK j \in DOMAIN queue : queue[j][2] = r
      BY <2>2 DEF InQueue
    <3>2. j - 1 \in DOMAIN queue' /\ queue'[j - 1] = queue[j]
      <4>1. j # 1 /\ j \in 1 .. n
        BY <1>3, <2>2, <3>1
      <4>2. j - 1 \in 1 .. n - 1 /\ (j - 1) + 1 = j
        BY <1>3, <4>1
      <4> QED
        BY <1>3, <4>2
    <3> QED
      BY <3>1, <3>2 DEF InQueue
  <2>3. ASSUME NEW r, InQueue(r)' PROVE InQueue(r) /\ r # x
    <3>1. PICK j \in DOMAIN queue' : queue'[j][2] = r
      BY <2>3 DEF InQueue
    <3>2. queue'[j] = queue[j + 1]
      BY <1>3, <3>1
    <3> QED
      BY <2>1, <3>1, <3>2 DEF InQueue
  <2> QED
    BY <2>2, <2>3
<1>6. \A j, k \in DOMAIN queue' : queue'[j][2] = queue'[k][2] => j = k
  <2> SUFFICES ASSUME NEW j \in DOMAIN queue', NEW k \in DOMAIN queue', queue'[j][2] = queue'[k][2]
               PROVE  j = k
    OBVIOUS
  <2>1. j + 1 \in DOMAIN queue /\ k + 1 \in DOMAIN queue /\ j \in Int /\ k \in Int
    BY <1>3
  <2>2. queue[j + 1][2] = queue[k + 1][2]
    BY <1>3
  <2>3. j + 1 = k + 1
    BY <2>1, <2>2 DEF Counted, Held
  <2> QED
    BY <2>1, <2>3
<1>7. CameraOf(x) \in Sources => found # {}
  <2> SUFFICES ASSUME CameraOf(x) \in Sources PROVE CameraOf(x) \in found
    OBVIOUS
  <2>1. 1 \in DOMAIN queue
    BY <1>3
  <2>2. Head(queue)[1] = source[CameraOf(x)]
    BY <1>3, <2>1 DEF Inv, Placed, QueuePlaced
  <2>3. reg[CameraOf(x)] = source[CameraOf(x)]
    BY <1>4 DEF Inv, IndexOwner, Sources
  <2> QED
    BY <1>4, <2>2, <2>3
<1>8. \A r \in Record \ accepted' :
        /\ ~InQueue(r)' /\ r \notin hand' /\ sent'[r] = 0
        /\ \A c \in Camera : r \notin records'[c]
  BY <1>1, <1>4, <1>5 DEF Counted, Held
<1>9. ASSUME NEW r \in accepted', CameraOf(r) \in Sources', ~late' PROVE Placement(r)'
  <2>1. r \in accepted /\ Placement(r) /\ CameraOf(r) \in Sources
    BY <1>1, <1>9, HeldBefore
  <2>2. CASE r = x
    <3>1. InQueue(x) /\ hand' = {x}
      BY <1>1, <1>3, <1>7, <2>1, <2>2 DEF InQueue
    <3> QED
      BY <1>1, <1>5, <2>1, <2>2, <3>1 DEF Placement, CameraOf
  <2>3. CASE r # x
    <3>1. r \notin hand' /\ r \notin hand
      BY <1>1, <2>3
    <3> HIDE DEF x
    <3> QED
      BY <1>1, <1>5, <2>1, <2>3, <3>1 DEF Placement, CameraOf
  <2> QED
    BY <2>2, <2>3
<1> QED
  BY <1>6, <1>8, <1>9 DEF Held, Placement, CameraOf

\* The record the worker holds joins the batch of its camera.
LEMMA AppendHeld ==
  ASSUME Inv, Counted, AppendRecord, [AdvNext]_advVars
  PROVE  Held'
<1>1. PICK c \in target["worker"] : records' = [records EXCEPT ![c] = @ \cup hand]
  BY DEF AppendRecord
<1>2. c \in Camera /\ records \in [Camera -> SUBSET Record]
  BY DEF Inv, AdvTypeOK, PubTypeOK, Thread
<1>3. hand' = {} /\ UNCHANGED <<queue, accepted, sent>>
  BY DEF AppendRecord
<1>4. \A d \in Camera : records'[d] = IF d = c THEN records[d] \cup hand ELSE records[d]
  BY <1>1, <1>2
<1>5. \A r : InQueue(r)' <=> InQueue(r)
  BY <1>3 DEF InQueue
<1>6. \A r \in Record \ accepted' :
        /\ ~InQueue(r)' /\ r \notin hand' /\ sent'[r] = 0
        /\ \A d \in Camera : r \notin records'[d]
  <2> SUFFICES ASSUME NEW r \in Record \ accepted'
               PROVE  /\ ~InQueue(r)' /\ r \notin hand' /\ sent'[r] = 0
                      /\ \A d \in Camera : r \notin records'[d]
    OBVIOUS
  <2>1. ~InQueue(r) /\ r \notin hand /\ sent[r] = 0 /\ \A d \in Camera : r \notin records[d]
    BY <1>3 DEF Counted, Held
  <2> QED
    BY <1>3, <1>4, <1>5, <2>1
<1>7. ASSUME NEW r \in accepted', CameraOf(r) \in Sources', ~late' PROVE Placement(r)'
  <2>1. r \in accepted /\ Placement(r) /\ CameraOf(r) \in Sources /\ CameraOf(r) \in Camera
    BY <1>3, <1>7, HeldBefore
  <2>2. r \in hand => CameraOf(r) = c
    BY <1>2, <2>1, BatchAccepted
  <2>3. r \in records'[CameraOf(r)] <=> r \in records[CameraOf(r)] \/ r \in hand
    BY <1>4, <2>1, <2>2
  <2> QED
    BY <1>3, <1>5, <2>1, <2>3 DEF Placement, CameraOf
<1> QED
  BY <1>3, <1>5, <1>6, <1>7 DEF Counted, Held, Placement, CameraOf

\* What a flush sends is what it empties.
LEMMA SwapHeld ==
  ASSUME Inv, Counted, [AdvNext]_advVars, NEW t \in Thread, SwapAndSend(t),
         t = "worker" => pub = "flushing", UNCHANGED <<queue, hand, accepted>>
  PROVE  Held'
<1>1. /\ records \in [Camera -> SUBSET Record] /\ sent \in [Record -> Nat]
  BY DEF Inv, AdvTypeOK, PubTypeOK
<1>2. /\ \A c \in Camera : records'[c] = IF c \in target[t] THEN {} ELSE records[c]
      /\ \A r \in Record : sent'[r] = IF r \in payload[t] THEN sent[r] + 1 ELSE sent[r]
  BY <1>1 DEF SwapAndSend
<1>3. PayloadOf(t)
  BY DEF Counted, Payloads
<1>4. \A r : InQueue(r)' <=> InQueue(r)
  BY DEF InQueue
<1>5. \A r \in Record \ accepted' :
        /\ ~InQueue(r)' /\ r \notin hand' /\ sent'[r] = 0
        /\ \A d \in Camera : r \notin records'[d]
  BY <1>2, <1>3, <1>4 DEF Counted, Held, PayloadOf
<1>6. ASSUME NEW r \in accepted', CameraOf(r) \in Sources', ~late' PROVE Placement(r)'
  <2>1. /\ r \in accepted /\ Placement(r) /\ CameraOf(r) \in Sources /\ CameraOf(r) \in Camera
        /\ r \in Record /\ ~late
    BY <1>6, HeldBefore
  <2>2. CASE r \in payload[t]
    <3>1. CameraOf(r) \in target[t] /\ r \in records[CameraOf(r)]
      BY <1>3, <2>1, <2>2 DEF PayloadOf
    <3>2. sent'[r] = 1 /\ r \notin records'[CameraOf(r)] /\ ~InQueue(r) /\ r \notin hand
      BY <1>2, <2>1, <2>2, <3>1 DEF Placement
    <3> QED
      BY <1>4, <3>2 DEF Placement, CameraOf
  <2>3. CASE r \notin payload[t]
    <3>1. r \in records[CameraOf(r)] => CameraOf(r) \notin target[t]
      BY <1>3, <2>1, <2>3 DEF PayloadOf
    <3>2. sent'[r] = sent[r] /\ (r \in records'[CameraOf(r)] <=> r \in records[CameraOf(r)])
      BY <1>2, <2>1, <2>3, <3>1
    <3> QED
      BY <1>4, <2>1, <3>2 DEF Placement, CameraOf
  <2> QED
    BY <2>2, <2>3
<1> QED
  BY <1>4, <1>5, <1>6 DEF Counted, Held, Placement, CameraOf

LEMMA HeldStep ==
  ASSUME Inv, Counted, [AdvNext]_advVars
  PROVE  Held'
<1>1. "worker" \in Thread /\ "main" \in Thread /\ "control" \in Thread
  BY DEF Thread
<1>2. CASE WorkerFlush \/ RemoveFlush \/ FlushSwap
  BY <1>1, <1>2, SwapHeld DEF WorkerFlush, RemoveFlush, FlushSwap, ControlFlush, MainFlush
<1>3. CASE Indexing \/ (\E c \in Camera : FlushNext(c)) \/ Prepare \/ Joined
  <2>1. UNCHANGED <<queue, hand, records, accepted, sent>>
    BY <1>3 DEF Indexing, AddSource, BeginRemove, EndRemove, FlushNext, Prepare, Joined, Register,
       UnregisterFlush, Unregister, FinalFlush, Enable, Disable
  <2> QED
    BY <2>1, HeldKept
<1>4. CASE \/ StopCalled \/ Run \/ Starting \/ JoinPublisher \/ Return
           \/ Leave \/ ShouldFlush \/ UNCHANGED advVars
           \/ \E w \in Worker : Test(w) \/ Lock(w) \/ Read(w) \/ Infer(w)
  <2>1. UNCHANGED <<queue, hand, records, accepted, sent>>
    BY <1>4 DEF StopCalled, Run, Starting, StartFails, ListThreads, StartSource, JoinPublisher,
       Return, Leave, ShouldFlush, Test, Lock, Read, Infer, advVars, pubVars
  <2> QED
    BY <2>1, HeldKept
<1> QED
  BY <1>2, <1>3, <1>4, PublishHeld, TakeHeld, AppendHeld, NextCases DEF MainStep, Publisher, WorkerStep

LEMMA CountedHolds == AdvSpec => [](Inv /\ Counted)
<1>1. AdvInit => Counted
  <2> SUFFICES ASSUME AdvInit PROVE Counted
    OBVIOUS
  <2>1. Numbered /\ Phases
    BY DEF AdvInit, PubInit, Numbered, Phases, Over, Thread
  <2>2. Payloads
    BY DEF AdvInit, PubInit, Payloads, PayloadOf
  <2>3. Held
    BY DEF AdvInit, PubInit, Held, InQueue
  <2> QED
    BY <2>1, <2>2, <2>3 DEF Counted
<1>2. Inv /\ Counted /\ [AdvNext]_advVars => Counted'
  BY NumberedStep, PhasesStep, PayloadsStep, HeldStep DEF Counted
<1> QED
  BY <1>1, <1>2, Invariance, PTL DEF AdvSpec

\* A record that the queue took from a camera that is still a source is in one
\* place once, from the queue to the transport: it is never lost, and never
\* sent twice, however sources come and go and run() ends, unless disable()
\* gives up on its worker.
THEOREM RecordsHeldOnce == AdvSpec => []HeldOnce
<1>1. Inv /\ Counted => HeldOnce
  <2> SUFFICES ASSUME Inv, Counted, NEW r \in accepted, CameraOf(r) \in Sources, ~late
               PROVE  Copies(r) = 1
    BY DEF HeldOnce
  <2> DEFINE Q == {j \in DOMAIN queue : queue[j][2] = r}
             B == {c \in Camera : r \in records[c]}
  <2>1. Placement(r) /\ CameraOf(r) \in Camera
    <3>1. r \in Record
      BY DEF Inv, AdvTypeOK, PubTypeOK
    <3> QED
      BY <3>1, RecordCamera DEF Counted, Held, Placement
  <2>2. Cardinality(Q) = IF InQueue(r) THEN 1 ELSE 0
    <3>1. CASE InQueue(r)
      <4>1. PICK j \in DOMAIN queue : queue[j][2] = r
        BY <3>1 DEF InQueue
      <4>2. Q = {j}
        BY <4>1 DEF Counted, Held
      <4> HIDE DEF Q
      <4> QED
        BY <3>1, <4>2, FS_Singleton
    <3>2. CASE ~InQueue(r)
      <4>1. Q = {}
        BY <3>2 DEF InQueue
      <4> HIDE DEF Q
      <4> QED
        BY <3>2, <4>1, FS_EmptySet
    <3> QED
      BY <3>1, <3>2
  <2>3. Cardinality(B) = IF r \in records[CameraOf(r)] THEN 1 ELSE 0
    <3>1. \A c \in B : c = CameraOf(r)
      BY BatchAccepted
    <3>2. CASE r \in records[CameraOf(r)]
      <4>1. B = {CameraOf(r)}
        BY <2>1, <3>1, <3>2
      <4> HIDE DEF B
      <4> QED
        BY <3>2, <4>1, FS_Singleton
    <3>3. CASE r \notin records[CameraOf(r)]
      <4>1. B = {}
        BY <3>1, <3>3
      <4> HIDE DEF B
      <4> QED
        BY <3>3, <4>1, FS_EmptySet
    <3> QED
      BY <3>2, <3>3
  <2>4. Copies(r) = Cardinality(Q) + (IF r \in hand THEN 1 ELSE 0) + Cardinality(B) + sent[r]
    BY DEF Copies
  <2> HIDE DEF Q, B
  <2> QED
    BY <2>1, <2>2, <2>3, <2>4 DEF Placement
<1> QED
  BY <1>1, CountedHolds, PTL

-----------------------------------------------------------------------------
(* What run() has sent when it returns. *)

\* run() has not listed its threads yet.
Unlisted == main \in {"new", "prepared", "starting", "failed"}

\* The threads run() joins were started for cameras that were added, and they
\* have ended when it disables the publisher, whose worker ends on an empty queue.
Joins ==
  /\ Unlisted => joining = {}
  /\ \A w \in joining : pc[w] # "none" /\ w[1] \in added
  /\ ~Unlisted /\ main # "running" => \A w \in joining : pc[w] = "ended"
  /\ pubStop => ~Unlisted /\ main # "running"
  /\ pub = "ended" => pubStop /\ \A j \in DOMAIN queue : queue[j][2][1] \notin joining

\* The loop visits every source that run() found and that is still there, and
\* what it has visited is empty or about to be.
Loops ==
  /\ ~Over => flushed = {}
  /\ Over => \A w \in joining : w[1] \in Sources => w[1] \in final
  /\ Over /\ ~late => \A c \in flushed \cap Sources : records[c] = {} \/ c \in target["main"]
  /\ main = "returned" => flushed = final
  /\ flushed \subseteq added

LEMMA JoinsStep ==
  ASSUME Inv, Counted, Joins, [AdvNext]_advVars
  PROVE  Joins'
<1>1. /\ pc \in [Worker -> {"none", "test", "lock", "read", "process", "publish", "ended"}]
      /\ joining \subseteq Worker /\ queue \in Seq(Index \X Record) /\ added \subseteq added'
  BY StaysGone DEF Inv, AdvTypeOK, PubTypeOK
<1>2. ASSUME UNCHANGED <<joining, main, pubStop>>,
             \A w \in joining : /\ pc[w] = "ended" => pc'[w] = "ended"
                                /\ pc[w] # "none" => pc'[w] # "none",
             pub' = "ended" => pub = "ended" /\ \A j \in DOMAIN queue' : \E k \in DOMAIN queue :
                                                  queue'[j] = queue[k]
      PROVE  Joins'
  <2>1. Unlisted' = Unlisted
    BY <1>2 DEF Unlisted
  <2>2. \A w \in joining : w[1] \in added'
    BY <1>1 DEF Joins
  <2>3. pub' = "ended" => \A j \in DOMAIN queue' : queue'[j][2][1] \notin joining
    BY <1>2 DEF Joins
  <2>4. /\ Unlisted' => joining' = {}
        /\ \A w \in joining' : pc'[w] # "none" /\ w[1] \in added'
    BY <1>2, <2>2 DEF Joins, Unlisted
  <2>5. /\ ~Unlisted' /\ main' # "running" => \A w \in joining' : pc'[w] = "ended"
        /\ pubStop' => ~Unlisted' /\ main' # "running"
    BY <1>2 DEF Joins, Unlisted
  <2>6. pub' = "ended" => pubStop' /\ \A j \in DOMAIN queue' : queue'[j][2][1] \notin joining'
    BY <1>2, <2>3 DEF Joins
  <2> QED
    BY <2>4, <2>5, <2>6, Zenon DEF Joins
<1>3. CASE Prepare \/ Run \/ StartFails
  BY <1>1, <1>3 DEF Prepare, Run, StartFails, Enable, Joins, Unlisted, workers, pubVars
<1>4. CASE ListThreads
  <2>1. main = "starting" /\ main' = "running" /\ UNCHANGED <<pubVars, workers>>
    BY <1>4 DEF ListThreads
  <2>2. \A w \in joining' : pc[w] # "none" /\ w[1] \in added
    BY <1>4 DEF ListThreads, Sources, Inv, Indices
  <2>3. pub # "ended" /\ ~pubStop
    BY <2>1 DEF Joins, Unlisted
  <2> QED
    BY <1>1, <2>1, <2>2, <2>3 DEF Joins, Unlisted, pubVars, workers
<1>13. CASE \E c \in Camera : StartSource(c)
  <2>1. main = "starting" /\ UNCHANGED <<main, joining, pubVars>>
    BY <1>13 DEF StartSource
  <2> QED
    BY <2>1 DEF Joins, Unlisted, pubVars
<1>5. CASE Joined
  <2>1. /\ main' = "disabling" /\ UNCHANGED <<joining, pc, queue, pub>> /\ pubStop' = TRUE
        /\ \A w \in joining : pc[w] = "ended"
    BY <1>5 DEF Joined, Disable, workers
  <2> QED
    BY <1>1, <2>1 DEF Joins, Unlisted
<1>6. CASE JoinPublisher \/ Return
  <2>1. /\ main' \in {"flushing", "raised", "returned"} /\ main \in {"disabling", "flushing"}
        /\ UNCHANGED <<joining, pc, queue, pub, pubStop>>
    BY <1>6 DEF JoinPublisher, Return, workers, pubVars
  <2> QED
    BY <1>1, <2>1 DEF Joins, Unlisted
<1>7. CASE Leave /\ Publisher
  <2>1. pubStop /\ queue = <<>> /\ UNCHANGED <<joining, main, pc, queue, pubStop>>
    BY <1>7 DEF Leave, Publisher, runner, workers
  <2> QED
    BY <1>1, <2>1 DEF Joins, Unlisted
<1>8. CASE Publisher /\ ~Leave
  <2>1. pub' # "ended" /\ UNCHANGED <<joining, main, pubStop, pc>>
    BY <1>8 DEF Publisher, WorkerStep, Take, AppendRecord, ShouldFlush, WorkerFlush, runner, workers
  <2> QED
    BY <1>2, <2>1
<1>9. ASSUME NEW c \in Camera, AddSource(c) PROVE Joins'
  <2> DEFINE ws == IF main # "new" /\ ~stop THEN {<<c, "hot">>} ELSE {}
  <2>1. /\ UNCHANGED <<joining, main, pubStop, pub, queue>>
        /\ pc' = [w \in Worker |-> IF w \in ws THEN "test" ELSE pc[w]]
    BY <1>9 DEF AddSource, StartThreads, Register, runner
  <2>2. \A w \in joining : w \notin ws
    BY <1>9 DEF Joins, AddSource
  <2> HIDE DEF ws
  <2>3. \A w \in joining : pc'[w] = pc[w]
    BY <1>1, <2>1, <2>2
  <2> QED
    BY <1>2, <2>1, <2>3
<1>10. ASSUME NEW w \in Worker, PublishFrame(w) PROVE Joins'
  <2> DEFINE e == <<at[w], <<w, made[w]>>>>
  <2>1. /\ UNCHANGED <<joining, main, pubStop, pub>> /\ pc[w] = "publish"
        /\ pc' = [pc EXCEPT ![w] = "test"]
        /\ queue' = queue \/ queue' = Append(queue, e)
    BY <1>10 DEF PublishFrame, Publish, Goto, runner
  <2>2. \A v \in joining : /\ pc[v] = "ended" => pc'[v] = "ended"
                           /\ pc[v] # "none" => pc'[v] # "none"
    BY <1>1, <2>1
  <2>3. CASE pub = "ended"
    <3>1. w \notin joining
      BY <2>1, <2>3 DEF Joins, Unlisted
    <3>2. \A j \in DOMAIN queue' : queue'[j][2][1] \notin joining
      <4>1. CASE queue' = queue
        BY <2>3, <4>1 DEF Joins
      <4>2. CASE queue' = Append(queue, e)
        <5>1. e \in Index \X Record
          <6>1. made[w] \in 1 .. MaxFrames[w] /\ at[w] # NoIndex
            BY <2>1, AdvAssumption DEF Inv, Started, AdvTypeOK
          <6>2. <<w, made[w]>> \in Record /\ at[w] \in Index
            BY <6>1, AdvAssumption DEF Inv, AdvTypeOK
          <6> QED
            BY <6>2
        <5>2. e[2][1] = w
          OBVIOUS
        <5> HIDE DEF e
        <5>3. \A j \in DOMAIN queue' : (j \in DOMAIN queue /\ queue'[j] = queue[j]) \/ queue'[j] = e
          BY <1>1, <4>2, <5>1, AppendProperties, LenProperties
        <5> QED
          BY <2>3, <3>1, <5>2, <5>3 DEF Joins
      <4> HIDE DEF e
      <4> QED
        BY <2>1, <4>1, <4>2
    <3>3. UNCHANGED <<joining, main, pubStop, pub>>
      BY <2>1
    <3> QED
      <4>1. Unlisted' = Unlisted /\ \A v \in joining : v[1] \in added'
        BY <1>1, <3>3 DEF Unlisted, Joins
      <4>2. /\ Unlisted' => joining' = {}
            /\ \A v \in joining' : pc'[v] # "none" /\ v[1] \in added'
        BY <2>2, <3>3, <4>1 DEF Joins, Unlisted
      <4>3. /\ ~Unlisted' /\ main' # "running" => \A v \in joining' : pc'[v] = "ended"
            /\ pubStop' => ~Unlisted' /\ main' # "running"
        BY <2>2, <3>3, <4>1 DEF Joins, Unlisted
      <4>4. pub' = "ended" => pubStop' /\ \A j \in DOMAIN queue' : queue'[j][2][1] \notin joining'
        BY <2>3, <3>2, <3>3 DEF Joins
      <4> QED
        BY <4>2, <4>3, <4>4, Zenon DEF Joins
  <2>4. CASE pub # "ended"
    BY <1>2, <2>1, <2>2, <2>4
  <2> QED
    BY <2>3, <2>4
<1>11. ASSUME NEW w \in Worker, Test(w) \/ Lock(w) \/ Read(w) \/ Infer(w) PROVE Joins'
  <2>1. /\ UNCHANGED <<joining, main, pubStop, pub, queue>>
        /\ \A v \in joining : /\ pc[v] = "ended" => pc'[v] = "ended"
                              /\ pc[v] # "none" => pc'[v] # "none"
    BY <1>1, <1>11 DEF Test, Lock, Read, Infer, Goto, runner, pubVars
  <2> QED
    BY <1>2, <2>1
<1>12. CASE \/ \E c \in Camera : BeginRemove(c) \/ EndRemove(c) \/ FlushNext(c)
            \/ RemoveFlush \/ FlushSwap \/ StopCalled \/ UNCHANGED advVars
  <2>1. UNCHANGED <<joining, main, pubStop, pub, queue, pc>>
    BY <1>12 DEF BeginRemove, EndRemove, FlushNext, RemoveFlush, FlushSwap, StopCalled, UnregisterFlush,
       Unregister, FinalFlush, ControlFlush, MainFlush, advVars, pubVars, runner, workers
  <2> QED
    BY <1>2, <2>1
<1> QED
  BY <1>3, <1>4, <1>5, <1>6, <1>7, <1>8, <1>9, <1>10, <1>11, <1>12, <1>13, NextCases
  DEF MainStep, Starting, Indexing

LEMMA LoopsStep ==
  ASSUME Inv, Counted, Joins, Loops, [AdvNext]_advVars
  PROVE  Loops'
<1>1. /\ target \in [Thread -> SUBSET Camera] /\ records \in [Camera -> SUBSET Record]
      /\ "main" \in Thread /\ final \subseteq added /\ joining \subseteq Worker
      /\ added \subseteq added' /\ \A c \in added : c \in Sources' => c \in Sources
      /\ ~late' => ~late
  BY StaysGone, StaysLate DEF Inv, AdvTypeOK, PubTypeOK, Thread, Counted, Phases
<1>2. ASSUME UNCHANGED <<main, joining, final, flushed>>,
             Over /\ ~late => /\ target'["main"] = target["main"]
                              /\ \A c \in Camera : records[c] = {} => records'[c] = {}
      PROVE  Loops'
  <2>1. \A w \in joining : w[1] \in added
    BY DEF Joins
  <2>2. \A c \in flushed : c \in Camera
    BY DEF Inv, AdvTypeOK
  <2> QED
    BY <1>1, <1>2, <2>1, <2>2 DEF Loops, Over
<1>3. CASE Publisher
  <2>1. UNCHANGED <<main, joining, final, flushed>> /\ pub # "ended"
    BY <1>3 DEF Publisher, WorkerStep, Take, AppendRecord, ShouldFlush, WorkerFlush, Leave, runner
  <2>2. ~(Over /\ ~late)
    BY <2>1 DEF Counted, Phases
  <2> QED
    BY <1>2, <2>1, <2>2
<1>4. CASE Prepare \/ Run \/ Starting \/ Joined
  <2>1. ~Over /\ ~Over' /\ flushed' = flushed
    BY <1>4 DEF Prepare, Run, Starting, StartFails, ListThreads, StartSource, Joined, Over
  <2>2. main' # "returned"
    BY <2>1 DEF Over
  <2> QED
    BY <1>1, <2>1, <2>2 DEF Loops
<1>5. CASE JoinPublisher
  <2>1. /\ main' = "flushing" /\ ~Over /\ final' = Registered /\ flushed' = flushed
        /\ joining' = joining /\ source' = source
    BY <1>5 DEF JoinPublisher, Over, control
  <2>2. flushed = {}
    BY <2>1 DEF Loops
  <2>3. \A w \in joining : w[1] \in Sources' => w[1] \in final'
    <3>1. Sources \subseteq Registered
      BY DEF Sources, Registered, Inv, IndexOwner
    <3> QED
      BY <2>1, <3>1 DEF Sources
  <2> QED
    BY <2>1, <2>2, <2>3 DEF Loops, Over
<1>6. ASSUME NEW c \in Camera, FlushNext(c) PROVE Loops'
  <2>1. /\ main = "flushing" /\ UNCHANGED <<main, joining, final, late, records, source, added>>
        /\ c \in final /\ flushed' = flushed \cup {c} /\ target["main"] = {}
        /\ target'["main"] = IF records[c] = {} THEN {} ELSE {c}
    BY <1>1, <1>6 DEF FlushNext, FinalFlush, ReadBatch, control
  <2>2. Sources' = Sources
    BY <2>1 DEF Sources
  <2> QED
    BY <1>1, <2>1, <2>2 DEF Loops, Over
<1>7. CASE FlushSwap
  <2>1. /\ UNCHANGED <<main, joining, final, late, flushed, source, added>>
        /\ \A c \in Camera : records'[c] = IF c \in target["main"] THEN {} ELSE records[c]
    BY <1>1, <1>7 DEF FlushSwap, MainFlush, SwapAndSend, runner, control
  <2>2. Sources' = Sources /\ flushed \subseteq Camera
    BY <2>1 DEF Sources, Inv, AdvTypeOK
  <2> QED
    BY <1>1, <2>1, <2>2 DEF Loops, Over
<1>8. CASE Return
  <2>1. /\ main = "flushing" /\ UNCHANGED <<joining, final, late, flushed, source, added, target, records>>
        /\ main' \in {"raised", "returned"} /\ (main' = "returned" => flushed = final)
    BY <1>8 DEF Return, pubVars, control
  <2>2. Sources' = Sources
    BY <2>1 DEF Sources
  <2> QED
    BY <1>1, <2>1, <2>2 DEF Loops, Over
<1>9. CASE Indexing \/ RemoveFlush
  <2>1. /\ UNCHANGED <<main, joining, final, flushed>> /\ target'["main"] = target["main"]
        /\ \A c \in Camera : records'[c] \subseteq records[c]
    BY <1>1, <1>9 DEF Indexing, AddSource, BeginRemove, EndRemove, RemoveFlush, Register, UnregisterFlush,
       Unregister, ControlFlush, ReadBatch, SwapAndSend, runner, Thread
  <2> QED
    BY <1>2, <2>1
<1>10. CASE \/ StopCalled \/ UNCHANGED advVars
            \/ \E w \in Worker : Test(w) \/ Lock(w) \/ Read(w) \/ Infer(w) \/ PublishFrame(w)
  <2>1. UNCHANGED <<main, joining, final, flushed, target, records>>
    BY <1>10 DEF StopCalled, Test, Lock, Read, Infer, PublishFrame, Publish, advVars, runner, pubVars
  <2> QED
    BY <1>2, <2>1
<1> QED
  BY <1>3, <1>4, <1>5, <1>6, <1>7, <1>8, <1>9, <1>10, NextCases DEF MainStep

\* When run() returns, whatever its threads handed to the publisher for the
\* sources that are still there has been sent, exactly once: no record is left
\* in the queue, with the worker or in a batch.
THEOREM RunFlushesAll == AdvSpec => []RunFlushes
<1>1. AdvInit => Joins /\ Loops
  BY DEF AdvInit, PubInit, Joins, Loops, Over
<1>2. Inv /\ Counted /\ Joins /\ Loops /\ [AdvNext]_advVars => Joins' /\ Loops'
  BY JoinsStep, LoopsStep
<1>3. Inv /\ Counted /\ Joins /\ Loops => RunFlushes
  <2> SUFFICES ASSUME Inv, Counted, Joins, Loops, main = "returned", ~late,
                      NEW r \in accepted, r[1] \in joining, CameraOf(r) \in Sources
               PROVE  sent[r] = 1
    BY DEF RunFlushes
  <2>1. Over /\ pub = "ended" /\ hand = {} /\ target["main"] = {}
    BY DEF Over, Counted, Phases
  <2>2. ~InQueue(r)
    BY <2>1 DEF InQueue, Joins
  <2>3. CameraOf(r) \in flushed
    BY <2>1 DEF Loops, CameraOf
  <2>4. records[CameraOf(r)] = {}
    BY <2>1, <2>3 DEF Loops
  <2> QED
    BY <2>1, <2>2, <2>4 DEF Counted, Held
<1> QED
  BY <1>1, <1>2, <1>3, CountedHolds, PTL DEF AdvSpec

=============================================================================
