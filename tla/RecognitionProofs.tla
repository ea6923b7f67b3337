------------------------- MODULE RecognitionProofs --------------------------
(* What happens to a frame of the advanced pipeline, for any cameras, stages, *)
(* processes and restarts: the model cache and the inference stages, which    *)
(* all cameras share under one lock, and the registry of vehicles, which they *)
(* share without any.                                                         *)
EXTENDS PlateRecognition, StageCascade, SequenceTheorems, FiniteSetTheorems, TLAPS

-----------------------------------------------------------------------------
(* The registry of vehicles: its inductive invariant. *)

\* The rows stand for the first records, one each: those of a matrix that was
\* read before other records came are fewer, never wrong.
Mirrors(rows) ==
  /\ Len(rows) <= Len(records)
  /\ \A i \in 1 .. Len(rows) : rows[i] = records[i].look

Rows == Mirrors(matrix) /\ \A c \in Camera : Mirrors(job[c].rows)

\* There is a record of that id and that look.
Known(id, look) ==
  \E i \in 1 .. Len(records) : records[i].id = id /\ records[i].look = look

\* A track that has enough embeddings, of which the look is an average.
Seen(t, look) == Len(looks[t]) >= ToAverage /\ look \in Averages(looks[t])

\* The plate is what enough reads of the track vote for.
Voted(t, plate) == Len(reads[t]) >= MinReads /\ plate = MostCommon(reads[t])

\* A worker processes a track of its own camera, which nobody else touches.
Job(c) ==
  /\ pc[c] \in Busy => /\ job[c].track \in Track /\ job[c].track[1] = c
                       /\ job[c].plate # None => Voted(job[c].track, job[c].plate)
  /\ pc[c] \in {"lookup", "create", "rebuild", "store"} => Seen(job[c].track, job[c].look)
  /\ pc[c] \in {"rebuild", "store"} => Known(job[c].id, job[c].look)
  /\ pc[c] \in {"check", "write"} =>
       job[c].plate # None /\ job[c].id = vehicle[job[c].track]
  /\ pc[c] = "write" =>
       job[c].at \in 1 .. Len(records) /\ records[job[c].at].id = job[c].id

\* An identity is that of a record which looks like the track did.
Identity ==
  \A t \in Track : vehicle[t] # None =>
    \E l \in Look : Seen(t, l) /\ Known(vehicle[t], l)

\* recs are the first records, as they were once: plates may have come since.
Covers(recs) ==
  /\ Len(recs) <= Len(records)
  /\ \A i \in 1 .. Len(recs) :
       /\ records[i].id = recs[i].id /\ records[i].look = recs[i].look
       /\ recs[i].plate # None => records[i].plate # None

\* The file holds the first records, and so does what is about to be written.
Stored == save # "down" => Covers(saved) /\ Covers(snapshot)

LprInv == LprTypeOK /\ Rows /\ (\A c \in Camera : Job(c)) /\ Identity /\ Stored

\* Until this process has saved, nobody is about to write over a plate that was
\* loaded.
Unsaved == save \notin {"done", "down"}
Blank(c) == pc[c] = "write" => (job[c].at <= Len(saved) => saved[job[c].at].plate = None)
Loaded == \A i \in 1 .. Len(saved) : saved[i].plate # None => records[i].plate = saved[i].plate
Plates == Unsaved => Loaded /\ \A c \in Camera : Blank(c)

-----------------------------------------------------------------------------
(* Votes and averages. *)

\* A set of numbers that is not empty has a least one.
LEMMA Least ==
  ASSUME NEW T \in SUBSET Nat, T # {}
  PROVE  \E m \in T : \A k \in T : m <= k
<1> DEFINE R == OpToRel(<, Nat)
<1>1. \A k, m \in Nat : <<k, m>> \in R <=> k < m
  BY DEF OpToRel
<1>2. IsWellFoundedOn(R, Nat)
  BY NatLessThanWellFounded
<1> HIDE DEF R
<1>3. PICK m \in T : \A k \in T : ~ (<<k, m>> \in R)
  BY <1>2, WFMin
<1>4. ASSUME NEW k \in T PROVE m <= k
  <2>1. k \in Nat /\ m \in Nat /\ ~ (<<k, m>> \in R)
    BY <1>3
  <2>2. ~ (k < m)
    BY <1>1, <2>1
  <2> QED
    BY <2>1, <2>2
<1> QED
  BY <1>4

\* A bounded one has a greatest one.
LEMMA Greatest ==
  ASSUME NEW T \in SUBSET Nat, T # {}, NEW n \in Nat, \A k \in T : k <= n
  PROVE  \E m \in T : \A k \in T : k <= m
<1> DEFINE U == {n - k : k \in T}
<1>1. U \in SUBSET Nat /\ U # {}
  <2>1. \A k \in T : k \in Nat /\ n - k \in Nat
    OBVIOUS
  <2> QED
    BY <2>1
<1>2. PICK u \in U : \A v \in U : u <= v
  BY <1>1, Least
<1>3. PICK m \in T : u = n - m
  OBVIOUS
<1>4. \A k \in T : n - m <= n - k
  BY <1>2, <1>3
<1> QED
  BY <1>3, <1>4

LEMMA VotesBounded ==
  ASSUME NEW s \in Seq(Plate), NEW p
  PROVE  Votes(s, p) \in Nat /\ Votes(s, p) <= Len(s)
<1> DEFINE D == {i \in DOMAIN s : s[i] = p}
<1>1. Len(s) \in Nat /\ DOMAIN s = 1 .. Len(s)
  BY LenProperties
<1>2. IsFiniteSet(1 .. Len(s)) /\ Cardinality(1 .. Len(s)) = Len(s)
  BY <1>1, FS_Interval
<1>3. D \in SUBSET (1 .. Len(s))
  BY <1>1
<1> HIDE DEF D
<1>4. IsFiniteSet(D) /\ Cardinality(D) <= Len(s)
  BY <1>2, <1>3, FS_Subset
<1>5. Cardinality(D) \in Nat
  BY <1>4, FS_CardinalityType
<1> QED
  BY <1>4, <1>5 DEF Votes, D

\* The most common read is one of them.
LEMMA MostCommonRead ==
  ASSUME NEW s \in Seq(Plate), s # << >>
  PROVE  MostCommon(s) \in Plate
<1>1. Len(s) \in Nat /\ DOMAIN s = 1 .. Len(s) /\ \A i \in DOMAIN s : s[i] \in Plate
  BY LenProperties, ElementOfSeq
<1>2. DOMAIN s # {}
  <2>1. Len(s) # 0
    BY EmptySeq
  <2>2. 1 \in 1 .. Len(s)
    BY <1>1, <2>1
  <2> QED
    BY <1>1, <2>2
<1> DEFINE v(i) == Votes(s, s[i])
           V == {v(i) : i \in DOMAIN s}
<1>3. \A i \in DOMAIN s : v(i) \in Nat /\ v(i) <= Len(s)
  BY VotesBounded
<1> HIDE DEF v
<1>4. V \in SUBSET Nat /\ V # {} /\ \A k \in V : k <= Len(s)
  BY <1>2, <1>3
<1>5. PICK m \in V : \A k \in V : k <= m
  BY <1>1, <1>4, Greatest
<1> DEFINE T == {i \in DOMAIN s : v(i) = m}
<1>6. T \in SUBSET Nat /\ T # {}
  BY <1>1, <1>5
<1>7. PICK i \in T : \A j \in T : i <= j
  BY <1>6, Least
<1>8. \A j \in DOMAIN s : IF j < i THEN v(j) < v(i) ELSE v(j) <= v(i)
  <2> SUFFICES ASSUME NEW j \in DOMAIN s
               PROVE  /\ v(j) <= v(i)
                      /\ j < i => v(j) # v(i)
    BY <1>3
  <2>1. v(j) \in V
    OBVIOUS
  <2>2. v(i) = m /\ i \in Nat /\ j \in Nat
    BY <1>1
  <2>3. j < i => j \notin T
    BY <1>7, <2>2
  <2> QED
    BY <1>5, <2>1, <2>2, <2>3
<1>9. \E k \in DOMAIN s :
        \A j \in DOMAIN s : IF j < k THEN Votes(s, s[j]) < Votes(s, s[k])
                                     ELSE Votes(s, s[j]) <= Votes(s, s[k])
  BY <1>8 DEF v
<1> QED
  BY <1>1, <1>9 DEF MostCommon

LEMMA AveragesLooks ==
  ASSUME NEW s \in Seq(Look), Len(s) >= ToAverage
  PROVE  Averages(s) \subseteq Look
<1>1. \A i \in 1 .. ToAverage : s[i] \in Look
  BY LprAssumption, LenProperties, ElementOfSeq
<1> QED
  BY <1>1 DEF Averages

\* An embedding more does not change the average of the first ones.
LEMMA AveragesKept ==
  ASSUME NEW s \in Seq(Look), NEW l \in Look, Len(s) >= ToAverage
  PROVE  Averages(Append(s, l)) = Averages(s)
<1>1. \A i \in 1 .. ToAverage : Append(s, l)[i] = s[i]
  BY LprAssumption, LenProperties, AppendProperties
<1>2. {Append(s, l)[i] : i \in 1 .. ToAverage} = {s[i] : i \in 1 .. ToAverage}
  BY <1>1
<1> QED
  BY <1>2 DEF Averages

\* The average of one look is that look.
LEMMA AverageOfOne ==
  ASSUME NEW s, NEW l, \A i \in 1 .. ToAverage : s[i] = l
  PROVE  Averages(s) = {l}
<1>1. 1 \in 1 .. ToAverage
  BY LprAssumption
<1>2. {s[i] : i \in 1 .. ToAverage} = {l}
  BY <1>1
<1> QED
  BY <1>2 DEF Averages


LEMMA VoteOf ==
  ASSUME NEW s \in Seq(Plate)
  PROVE  /\ Vote(s) \in Plate \cup {None}
         /\ Vote(s) # None => Len(s) >= MinReads /\ Vote(s) = MostCommon(s)
<1>1. Len(s) \in Nat /\ (s = << >> => Len(s) = 0)
  BY LenProperties, EmptySeq
<1>2. CASE Len(s) < MinReads
  BY <1>2 DEF Vote
<1>3. CASE ~ (Len(s) < MinReads)
  <2>1. s # << >> /\ Len(s) >= MinReads
    BY <1>1, <1>3, LprAssumption
  <2>2. Vote(s) = MostCommon(s)
    BY <1>3 DEF Vote
  <2> QED
    BY <2>1, <2>2, MostCommonRead
<1> QED
  BY <1>2, <1>3

-----------------------------------------------------------------------------
(* What the steps of one worker leave to the others. *)

\* Records are added and get plates, nothing else.
Grown ==
  /\ Len(records) <= Len(records')
  /\ \A i \in 1 .. Len(records) :
       /\ records'[i].id = records[i].id /\ records'[i].look = records[i].look
       /\ records[i].plate # None => records'[i].plate # None

LEMMA SameIsGrown == LprTypeOK /\ records' = records => Grown
<1>1. LprTypeOK => Len(records) \in Nat
  BY LenProperties DEF LprTypeOK
<1> QED
  BY <1>1 DEF Grown

LEMMA KnownKept ==
  ASSUME LprTypeOK, LprTypeOK', Grown, NEW v, NEW l, Known(v, l)
  PROVE  Known(v, l)'
<1>1. Len(records) \in Nat /\ Len(records') \in Nat
  BY LenProperties DEF LprTypeOK
<1> QED
  BY <1>1 DEF Known, Grown

LEMMA MirrorsKept ==
  ASSUME LprTypeOK, LprTypeOK', Grown, NEW rows \in Seq(Look), Mirrors(rows)
  PROVE  Mirrors(rows)'
<1>1. Len(records) \in Nat /\ Len(records') \in Nat /\ Len(rows) \in Nat
  BY LenProperties DEF LprTypeOK
<1> QED
  BY <1>1 DEF Mirrors, Grown

LEMMA CoversKept ==
  ASSUME LprTypeOK, LprTypeOK', Grown, NEW recs \in Seq(Record), Covers(recs)
  PROVE  Covers(recs)'
<1>1. Len(records) \in Nat /\ Len(records') \in Nat /\ Len(recs) \in Nat
  BY LenProperties DEF LprTypeOK
<1> QED
  BY <1>1 DEF Covers, Grown

LEMMA SeenKept ==
  ASSUME LprTypeOK, NEW t \in Track, NEW l, Seen(t, l),
         looks'[t] = looks[t] \/ \E e \in Look : looks'[t] = Append(looks[t], e)
  PROVE  Seen(t, l)'
<1>1. looks[t] \in Seq(Look) /\ Len(looks[t]) \in Nat
  BY LenProperties DEF LprTypeOK
<1>2. CASE looks'[t] = looks[t]
  BY <1>2 DEF Seen
<1>3. ASSUME NEW e \in Look, looks'[t] = Append(looks[t], e)
      PROVE  Seen(t, l)'
  <2>1. Averages(looks'[t]) = Averages(looks[t])
    BY <1>1, <1>3, AveragesKept DEF Seen
  <2>2. Len(looks'[t]) >= ToAverage
    BY <1>1, <1>3, AppendProperties, LprAssumption DEF Seen
  <2> QED
    BY <2>1, <2>2 DEF Seen
<1> QED
  BY <1>2, <1>3

\* A worker that changes its own tracks only, and the registry by adding to it.
LEMMA WorkerKeeps ==
  ASSUME LprInv, LprTypeOK', NEW c \in Camera,
         \A d \in Camera : d # c => pc'[d] = pc[d] /\ job'[d] = job[d],
         \A t \in Track : t[1] # c =>
           reads'[t] = reads[t] /\ looks'[t] = looks[t] /\ vehicle'[t] = vehicle[t],
         \A t \in Track :
           looks'[t] = looks[t] \/ \E e \in Look : looks'[t] = Append(looks[t], e),
         \A t \in Track : vehicle'[t] = vehicle[t] \/
           \E l \in Look : Seen(t, l)' /\ Known(vehicle[t], l)',
         Grown, UNCHANGED <<saved, snapshot, save>>,
         Job(c)', Mirrors(matrix)', Mirrors(job[c].rows)'
  PROVE  LprInv'
<1> USE DEF LprInv
<1>1. ASSUME NEW d \in Camera, d # c PROVE Job(d)' /\ Mirrors(job[d].rows)'
  <2>1. pc'[d] = pc[d] /\ job'[d] = job[d] /\ Job(d) /\ Mirrors(job[d].rows)
    BY <1>1 DEF Rows
  <2>2. job[d].rows \in Seq(Look)
    BY DEF LprTypeOK, Locals
  <2>3. Mirrors(job[d].rows)'
    BY <2>1, <2>2, MirrorsKept
  <2> DEFINE t == job[d].track
  <2>4. pc[d] \in Busy => /\ t \in Track /\ t[1] = d
                          /\ reads'[t] = reads[t] /\ looks'[t] = looks[t]
                          /\ vehicle'[t] = vehicle[t]
    BY <1>1, <2>1 DEF Job
  <2>5. pc[d] \in Busy => /\ job'[d].track \in Track /\ job'[d].track[1] = d
                          /\ job'[d].plate # None => Voted(job[d].track, job[d].plate)'
    BY <2>1, <2>4 DEF Job, Voted
  <2>6. pc[d] \in {"lookup", "create", "rebuild", "store"} => Seen(job[d].track, job[d].look)'
    BY <2>1, <2>4 DEF Job, Seen, Busy
  <2>7. pc[d] \in {"rebuild", "store"} => Known(job[d].id, job[d].look)'
    BY <2>1, KnownKept DEF Job
  <2>8. pc[d] \in {"check", "write"} =>
          job'[d].plate # None /\ job'[d].id = vehicle'[job'[d].track]
    BY <2>1, <2>4 DEF Job, Busy
  <2>9. pc[d] = "write" =>
          job'[d].at \in 1 .. Len(records') /\ records'[job'[d].at].id = job'[d].id
    <3>1. Len(records) \in Nat /\ Len(records') \in Nat
      BY LenProperties DEF LprTypeOK
    <3> QED
      BY <2>1, <3>1 DEF Job, Grown
  <2>10. Job(d)'
    BY <2>1, <2>5, <2>6, <2>7, <2>8, <2>9 DEF Job
  <2> QED
    BY <2>3, <2>10
<1>2. Rows'
  BY <1>1 DEF Rows
<1>3. Identity'
  <2> SUFFICES ASSUME NEW t \in Track, vehicle'[t] # None
               PROVE  \E l \in Look : Seen(t, l)' /\ Known(vehicle[t], l)'
    BY DEF Identity
  <2>1. CASE vehicle'[t] = vehicle[t]
    <3>1. PICK l \in Look : Seen(t, l) /\ Known(vehicle[t], l)
      BY <2>1 DEF Identity
    <3>2. Known(vehicle[t], l)'
      BY <2>1, <3>1, KnownKept
    <3> QED
      BY <3>1, <3>2, SeenKept
  <2> QED
    BY <2>1
<1>4. Stored'
  <2>1. (Covers(saved)' /\ Covers(snapshot)') \/ save = "down"
    BY CoversKept DEF LprTypeOK, Stored
  <2> QED
    BY <2>1 DEF Stored
<1> QED
  BY <1>1, <1>2, <1>3, <1>4


-----------------------------------------------------------------------------
(* The steps of a worker. *)

\* Steps that change nothing but the worker's place and its locals.
LEMMA OwnStep ==
  ASSUME LprInv, NEW c \in Camera, NEW q \in Busy \cup {"idle", "ended"},
         pc' = [pc EXCEPT ![c] = q], LprTypeOK',
         \A d \in Camera : d # c => job'[d] = job[d],
         UNCHANGED <<tracks, registry, saved, snapshot, save>>,
         Job(c)', Mirrors(job[c].rows)'
  PROVE  LprInv'
<1>1. UNCHANGED <<reads, looks, vehicle, records, matrix, saved, snapshot, save>>
  BY DEF tracks, registry
<1>2. Grown
  BY <1>1, SameIsGrown DEF LprInv
<1>3. \A d \in Camera : d # c => pc'[d] = pc[d]
  BY DEF LprInv, LprTypeOK
<1>4. Mirrors(matrix)'
  BY <1>1 DEF LprInv, Rows, Mirrors
<1> QED
  BY <1>1, <1>2, <1>3, <1>4, WorkerKeeps

LEMMA EmptyMirrors == LprTypeOK => Mirrors(<< >>)
<1>1. LprTypeOK => Len(records) \in Nat
  BY LenProperties DEF LprTypeOK
<1>2. Len(<< >>) = 0
  OBVIOUS
<1> QED
  BY <1>1, <1>2 DEF Mirrors

LEMMA ProcessKeeps ==
  ASSUME LprInv, NEW c \in Camera, NEW t \in Track,
         NEW read \in Plate \cup {None}, NEW look \in Look \cup {None},
         Process(c, t, read, look)
  PROVE  LprInv'
<1> USE DEF LprInv
<1>1. /\ pc[c] = "idle" /\ t[1] = c
      /\ frames' = [frames EXCEPT ![c] = @ + 1]
      /\ reads' = IF read = None THEN reads ELSE [reads EXCEPT ![t] = Append(@, read)]
      /\ looks' = IF look = None THEN looks ELSE [looks EXCEPT ![t] = Append(@, look)]
      /\ UNCHANGED <<vehicle, records, matrix, saved, snapshot, save, boots>>
  BY DEF Process, registry, disk
<1>2. reads' \in [Track -> Seq(Plate)] /\ looks' \in [Track -> Seq(Look)]
  <2>1. reads[t] \in Seq(Plate) /\ looks[t] \in Seq(Look)
    BY DEF LprTypeOK
  <2>2. read # None => Append(reads[t], read) \in Seq(Plate)
    BY <2>1, AppendProperties
  <2>3. look # None => Append(looks[t], look) \in Seq(Look)
    BY <2>1, AppendProperties
  <2> QED
    BY <1>1, <2>2, <2>3 DEF LprTypeOK
<1>a. PICK plate : plate = Vote(reads'[t])
  OBVIOUS
<1>3. /\ plate \in Plate \cup {None}
      /\ plate # None => Voted(t, plate)'
  <2>1. reads'[t] \in Seq(Plate)
    BY <1>2
  <2>2. /\ plate \in Plate \cup {None}
        /\ plate # None => Len(reads'[t]) >= MinReads /\ plate = MostCommon(reads'[t])
    BY <1>a, <2>1, VoteOf
  <2> QED
    BY <2>2 DEF Voted
<1>4. /\ \A u \in Track : u[1] # c => reads'[u] = reads[u] /\ looks'[u] = looks[u]
      /\ \A u \in Track : looks'[u] = looks[u] \/ \E e \in Look : looks'[u] = Append(looks[u], e)
  BY <1>1 DEF LprTypeOK
<1>5. Grown
  BY <1>1, SameIsGrown
<1>6. frames' \in [Camera -> Nat]
  BY <1>1 DEF LprTypeOK
<1>7. ASSUME NEW q \in Busy \cup {"idle", "ended"}, pc' = [pc EXCEPT ![c] = q],
             \A d \in Camera : d # c => job'[d] = job[d],
             job' \in [Camera -> Locals],
             Job(c)', Mirrors(job[c].rows)'
      PROVE  LprInv'
  <2>1. pc' \in [Camera -> Busy \cup {"idle", "ended"}]
    BY <1>7 DEF LprTypeOK
  <2>2. LprTypeOK'
    BY <1>1, <1>2, <1>6, <1>7, <2>1 DEF LprTypeOK
  <2>3. Mirrors(matrix)'
    BY <1>1 DEF Rows, Mirrors
  <2>4. \A d \in Camera : d # c => pc'[d] = pc[d]
    BY <1>7 DEF LprTypeOK
  <2>5. \A u \in Track : vehicle'[u] = vehicle[u]
    BY <1>1
  <2> QED
    BY <1>4, <1>5, <1>7, <2>2, <2>3, <2>4, <2>5, <1>1, WorkerKeeps
<1> USE EmptySeq
<1>8. Len(records') \in Nat /\ Mirrors(<< >>)'
  <2>1. Mirrors(<< >>)
    BY EmptyMirrors
  <2>2. records' = records
    BY <1>1
  <2> QED
    BY <2>1, <2>2, LenProperties DEF Mirrors, LprTypeOK
<1>9. CASE /\ look # None /\ vehicle[t] = None /\ Len(looks'[t]) >= ToAverage
           /\ \E average \in Averages(looks'[t]) :
                job' = [job EXCEPT ![c] = JobOf(t, plate, average, None)]
           /\ pc' = [pc EXCEPT ![c] = "lookup"]
  <2>1. PICK average \in Averages(looks'[t]) :
          job' = [job EXCEPT ![c] = JobOf(t, plate, average, None)]
    BY <1>9
  <2>2. job' = [job EXCEPT ![c] = [track |-> t, plate |-> plate, look |-> average,
                                   id |-> None, rows |-> << >>, at |-> 0]]
    BY <2>1 DEF JobOf
  <2>3. average \in Look
    BY <1>2, <1>9, <2>1, AveragesLooks
  <2>4. job'[c] = [track |-> t, plate |-> plate, look |-> average,
                   id |-> None, rows |-> << >>, at |-> 0]
    BY <2>2 DEF LprTypeOK
  <2>5. job' \in [Camera -> Locals]
    BY <1>3, <2>2, <2>3 DEF LprTypeOK, Locals
  <2>6. Seen(t, average)'
    BY <1>9, <2>1 DEF Seen
  <2>7. pc'[c] = "lookup"
    BY <1>9 DEF LprTypeOK
  <2>8. Job(c)'
    <3>1. job'[c].track = t /\ job'[c].plate = plate /\ job'[c].look = average
      BY <2>4
    <3>2. plate # None => Voted(job[c].track, job[c].plate)'
      BY <1>3, <3>1
    <3>3. Seen(job[c].track, job[c].look)'
      BY <2>6, <3>1
    <3> QED
      BY <1>1, <2>7, <3>1, <3>2, <3>3 DEF Job, Busy
  <2>9. Mirrors(job[c].rows)'
    BY <1>8, <2>4
  <2>10. \A d \in Camera : d # c => job'[d] = job[d]
    BY <2>2 DEF LprTypeOK
  <2> QED
    BY <1>7, <1>9, <2>5, <2>8, <2>9, <2>10 DEF Busy
<1>10. CASE UNCHANGED <<pc, job>>
  <2>1. pc' = [pc EXCEPT ![c] = "idle"]
    BY <1>1, <1>10 DEF LprTypeOK
  <2>2. Job(c)'
    BY <1>1, <1>10 DEF Job, Busy
  <2>3. Mirrors(job[c].rows)'
    BY <1>1, <1>10 DEF Mirrors, Rows
  <2> QED
    BY <1>7, <1>10, <2>1, <2>2, <2>3 DEF LprTypeOK
<1>11. CASE /\ vehicle[t] # None /\ plate # None
            /\ pc' = [pc EXCEPT ![c] = "check"]
            /\ job' = [job EXCEPT ![c] = JobOf(t, plate, None, vehicle[t])]
  <2>1. job' = [job EXCEPT ![c] = [track |-> t, plate |-> plate, look |-> None,
                                   id |-> vehicle[t], rows |-> << >>, at |-> 0]]
    BY <1>11 DEF JobOf
  <2>2. job'[c] = [track |-> t, plate |-> plate, look |-> None,
                   id |-> vehicle[t], rows |-> << >>, at |-> 0]
    BY <2>1 DEF LprTypeOK
  <2>3. job' \in [Camera -> Locals]
    BY <1>3, <2>1 DEF LprTypeOK, Locals
  <2>4. pc'[c] = "check"
    BY <1>11 DEF LprTypeOK
  <2>5. Job(c)'
    <3>1. job'[c].track = t /\ job'[c].plate = plate /\ job'[c].id = vehicle'[t]
      BY <1>1, <2>2
    <3>2. Voted(job[c].track, job[c].plate)'
      BY <1>3, <1>11, <3>1
    <3> QED
      BY <1>1, <1>11, <2>4, <3>1, <3>2 DEF Job, Busy
  <2>6. Mirrors(job[c].rows)'
    BY <1>8, <2>2
  <2>7. \A d \in Camera : d # c => job'[d] = job[d]
    BY <2>1 DEF LprTypeOK
  <2> QED
    BY <1>7, <1>11, <2>3, <2>5, <2>6, <2>7 DEF Busy
<1> QED
  BY <1>a, <1>9, <1>10, <1>11 DEF Process


LEMMA JobTyped ==
  ASSUME LprTypeOK, NEW c \in Camera, pc[c] \in Busy, Job(c)
  PROVE  /\ job[c] \in Locals /\ job[c].track \in Track /\ job[c].track[1] = c
         /\ job[c].plate # None => job[c].plate \in Plate
  BY DEF LprTypeOK, Job, Locals

\* Locals with another field: the others stay.
LEMMA WithId ==
  ASSUME LprTypeOK, NEW c \in Camera, NEW v \in VehicleId,
         job' = [job EXCEPT ![c].id = v]
  PROVE  /\ job' \in [Camera -> Locals]
         /\ \A d \in Camera : d # c => job'[d] = job[d]
         /\ job'[c].id = v /\ job'[c].track = job[c].track /\ job'[c].plate = job[c].plate
         /\ job'[c].look = job[c].look /\ job'[c].rows = job[c].rows
  BY DEF LprTypeOK, Locals

LEMMA WithRows ==
  ASSUME LprTypeOK, NEW c \in Camera, NEW rows \in Seq(Look),
         job' = [job EXCEPT ![c].rows = rows]
  PROVE  /\ job' \in [Camera -> Locals]
         /\ \A d \in Camera : d # c => job'[d] = job[d]
         /\ job'[c].id = job[c].id /\ job'[c].track = job[c].track
         /\ job'[c].plate = job[c].plate /\ job'[c].look = job[c].look /\ job'[c].rows = rows
  BY DEF LprTypeOK, Locals

LEMMA WithAt ==
  ASSUME LprTypeOK, NEW c \in Camera, NEW row \in Nat,
         job' = [job EXCEPT ![c].at = row]
  PROVE  /\ job' \in [Camera -> Locals]
         /\ \A d \in Camera : d # c => job'[d] = job[d]
         /\ job'[c].id = job[c].id /\ job'[c].track = job[c].track
         /\ job'[c].plate = job[c].plate /\ job'[c].rows = job[c].rows /\ job'[c].at = row
  BY DEF LprTypeOK, Locals

LEMMA ProcessedEnds ==
  ASSUME LprTypeOK, NEW c \in Camera, Processed(c)
  PROVE  /\ pc' = [pc EXCEPT ![c] = "idle"] /\ job' \in [Camera -> Locals]
         /\ \A d \in Camera : d # c => job'[d] = job[d]
         /\ Job(c)' /\ job'[c].rows = << >>
<1>1. pc' = [pc EXCEPT ![c] = "idle"] /\ job' = [job EXCEPT ![c] = NoJob]
  BY DEF Processed
<1>2. NoJob \in Locals /\ NoJob.rows = << >>
  BY EmptySeq DEF NoJob, JobOf, Locals
<1>3. pc'[c] = "idle"
  BY <1>1 DEF LprTypeOK
<1> QED
  BY <1>1, <1>2, <1>3 DEF LprTypeOK, Job, Busy

LEMMA FoundKeeps ==
  ASSUME LprInv, NEW c \in Camera, Found(c)
  PROVE  LprInv'
<1> USE DEF LprInv
<1>1. /\ pc[c] = "lookup" /\ Hits(job[c].look) # {}
      /\ pc' = [pc EXCEPT ![c] = "rebuild"]
      /\ UNCHANGED <<reads, looks, vehicle, records, matrix, frames, saved, snapshot, save, boots>>
  BY DEF Found, tracks, registry, disk
<1> DEFINE i == CHOOSE k \in Hits(job[c].look) : \A j \in Hits(job[c].look) : k <= j
<1>2. i \in Hits(job[c].look)
  <2>1. DOMAIN matrix = 1 .. Len(matrix) /\ Len(matrix) \in Nat
    BY LenProperties DEF LprTypeOK
  <2>2. Hits(job[c].look) \in SUBSET Nat
    BY <2>1 DEF Hits
  <2>3. \E k \in Hits(job[c].look) : \A j \in Hits(job[c].look) : k <= j
    BY <1>1, <2>2, Least
  <2> QED
    BY <2>3
<1>3. job' = [job EXCEPT ![c].id = records[i].id]
  BY DEF Found
<1> HIDE DEF i
<1>4. /\ i \in 1 .. Len(records) /\ records[i].look = job[c].look
      /\ records[i].id \in VehicleId
  <2>1. i \in 1 .. Len(matrix) /\ matrix[i] = job[c].look
    BY <1>2, LenProperties DEF Hits, LprTypeOK
  <2>2. Len(matrix) \in Nat /\ Len(records) \in Nat
    BY LenProperties DEF LprTypeOK
  <2>3. i \in 1 .. Len(records) /\ records[i].look = job[c].look
    BY <2>1, <2>2 DEF Rows, Mirrors
  <2>4. records[i] \in Record
    BY <2>3, ElementOfSeq DEF LprTypeOK
  <2> QED
    BY <2>3, <2>4 DEF Record
<1>5. /\ job' \in [Camera -> Locals]
      /\ \A d \in Camera : d # c => job'[d] = job[d]
      /\ job'[c].id = records[i].id /\ job'[c].track = job[c].track
      /\ job'[c].plate = job[c].plate
      /\ job'[c].look = job[c].look /\ job'[c].rows = job[c].rows
  BY <1>3, <1>4, WithId
<1>6. pc' \in [Camera -> Busy \cup {"idle", "ended"}] /\ pc'[c] = "rebuild"
  BY <1>1 DEF LprTypeOK, Busy
<1>7. LprTypeOK'
  BY <1>1, <1>5, <1>6 DEF LprTypeOK
<1>8. Job(c)'
  <2>1. /\ job[c].track \in Track /\ job[c].track[1] = c
        /\ job[c].plate # None => Voted(job[c].track, job[c].plate)
        /\ Seen(job[c].track, job[c].look)
    BY <1>1 DEF Job, Busy
  <2>2. job'[c].plate # None => Voted(job[c].track, job[c].plate)'
    BY <1>1, <1>5, <2>1 DEF Voted
  <2>3. Seen(job[c].track, job[c].look)'
    BY <1>1, <1>5, <2>1 DEF Seen
  <2>4. Known(job[c].id, job[c].look)'
    BY <1>1, <1>4, <1>5 DEF Known
  <2> QED
    BY <1>5, <1>6, <2>1, <2>2, <2>3, <2>4 DEF Job
<1>9. Mirrors(job[c].rows)'
  BY <1>1, <1>5 DEF Rows, Mirrors
<1> QED
  BY <1>1, <1>5, <1>7, <1>8, <1>9, OwnStep DEF tracks, registry, Busy


LEMMA LooksOfRecords ==
  ASSUME NEW recs \in Seq(Record)
  PROVE  /\ LooksOf(recs) \in Seq(Look) /\ Len(LooksOf(recs)) = Len(recs)
         /\ \A i \in 1 .. Len(recs) : LooksOf(recs)[i] = recs[i].look
<1>1. Len(recs) \in Nat /\ DOMAIN recs = 1 .. Len(recs)
  BY LenProperties
<1>2. \A i \in 1 .. Len(recs) : recs[i].look \in Look
  <2> SUFFICES ASSUME NEW i \in 1 .. Len(recs) PROVE recs[i].look \in Look
    OBVIOUS
  <2>1. recs[i] \in Record
    BY ElementOfSeq
  <2> QED
    BY <2>1 DEF Record
<1>3. LooksOf(recs) = [i \in 1 .. Len(recs) |-> recs[i].look]
  BY <1>1 DEF LooksOf
<1>4. LooksOf(recs) \in [1 .. Len(recs) -> Look]
  BY <1>2, <1>3
<1>5. LooksOf(recs) \in Seq(Look) /\ DOMAIN LooksOf(recs) = 1 .. Len(recs)
  BY <1>1, <1>4, IsASeq
<1>6. Len(LooksOf(recs)) = Len(recs)
  BY <1>1, <1>5, LenProperties
<1> QED
  BY <1>3, <1>5, <1>6

\* A look-up that finds nothing, one that raises, and the end of a stream.
LEMMA TurnKeeps ==
  ASSUME LprInv, NEW c \in Camera, NotFound(c) \/ LookupRaises(c) \/ WorkerEnds(c)
  PROVE  LprInv'
<1> USE DEF LprInv
<1>1. PICK q \in {"create", "ended"} :
        /\ pc' = [pc EXCEPT ![c] = q]
        /\ q = "create" => pc[c] = "lookup"
        /\ UNCHANGED <<reads, looks, vehicle, records, matrix, job, frames, saved, snapshot, save, boots>>
  BY DEF NotFound, LookupRaises, WorkerEnds, tracks, registry, disk
<1>2. pc' \in [Camera -> Busy \cup {"idle", "ended"}] /\ pc'[c] = q
  BY <1>1 DEF LprTypeOK, Busy
<1>3. LprTypeOK'
  BY <1>1, <1>2 DEF LprTypeOK
<1>4. Job(c)'
  BY <1>1, <1>2 DEF Job, Busy, Voted, Seen
<1>5. Mirrors(job[c].rows)'
  BY <1>1 DEF Rows, Mirrors
<1> QED
  BY <1>1, <1>3, <1>4, <1>5, OwnStep DEF tracks, registry, Busy

LEMMA CreateKeeps ==
  ASSUME LprInv, NEW c \in Camera, NEW v \in VehicleId, Create(c, v)
  PROVE  LprInv'
<1> USE DEF LprInv
<1> DEFINE new == [id |-> v, look |-> job[c].look, plate |-> None]
<1>1. /\ pc[c] = "create" /\ pc' = [pc EXCEPT ![c] = "rebuild"]
      /\ records' = Append(records, new)
      /\ job' = [job EXCEPT ![c].id = v]
      /\ UNCHANGED <<reads, looks, vehicle, matrix, frames, saved, snapshot, save, boots>>
  BY DEF Create, tracks, disk
<1>2. /\ job[c].track \in Track /\ job[c].track[1] = c
      /\ job[c].plate # None => Voted(job[c].track, job[c].plate)
      /\ Seen(job[c].track, job[c].look)
  BY <1>1 DEF Job, Busy
<1>3. job[c].look \in Look
  <2>1. looks[job[c].track] \in Seq(Look)
    BY <1>2 DEF LprTypeOK
  <2> QED
    BY <1>2, <2>1, AveragesLooks DEF Seen
<1>4. new \in Record
  BY <1>3 DEF Record
<1> HIDE DEF new
<1>5. /\ Len(records) \in Nat /\ records' \in Seq(Record)
      /\ Len(records') = Len(records) + 1
      /\ \A i \in 1 .. Len(records) : records'[i] = records[i]
      /\ records'[Len(records) + 1] = new
  BY <1>1, <1>4, AppendProperties, LenProperties DEF LprTypeOK
<1>6. /\ job' \in [Camera -> Locals]
      /\ \A d \in Camera : d # c => job'[d] = job[d]
      /\ job'[c].id = v /\ job'[c].track = job[c].track
      /\ job'[c].plate = job[c].plate
      /\ job'[c].look = job[c].look /\ job'[c].rows = job[c].rows
  BY <1>1, WithId
<1>7. /\ pc' \in [Camera -> Busy \cup {"idle", "ended"}] /\ pc'[c] = "rebuild"
      /\ \A d \in Camera : d # c => pc'[d] = pc[d]
  BY <1>1 DEF LprTypeOK, Busy
<1>8. LprTypeOK'
  BY <1>1, <1>5, <1>6, <1>7 DEF LprTypeOK
<1>9. Grown
  BY <1>5 DEF Grown
<1>10. Mirrors(matrix)' /\ Mirrors(job[c].rows)'
  <2>1. Mirrors(matrix) /\ Mirrors(job[c].rows) /\ matrix \in Seq(Look) /\ job[c].rows \in Seq(Look)
    BY DEF Rows, LprTypeOK, Locals
  <2> QED
    BY <1>1, <1>6, <1>8, <1>9, <2>1, MirrorsKept
<1>11. Job(c)'
  <2>1. job'[c].plate # None => Voted(job[c].track, job[c].plate)'
    BY <1>1, <1>2, <1>6 DEF Voted
  <2>2. Seen(job[c].track, job[c].look)'
    BY <1>1, <1>2, <1>6 DEF Seen
  <2>3. Known(job[c].id, job[c].look)'
    <3>1. Len(records) + 1 \in 1 .. Len(records')
      BY <1>5
    <3>2. new.id = v /\ new.look = job[c].look
      BY DEF new
    <3> QED
      BY <1>5, <1>6, <3>1, <3>2 DEF Known
  <2> QED
    BY <1>2, <1>6, <1>7, <2>1, <2>2, <2>3 DEF Job
<1> QED
  BY <1>1, <1>6, <1>7, <1>8, <1>9, <1>10, <1>11, WorkerKeeps

LEMMA RebuildKeeps ==
  ASSUME LprInv, NEW c \in Camera, Rebuild(c)
  PROVE  LprInv'
<1> USE DEF LprInv
<1>1. /\ pc[c] = "rebuild" /\ pc' = [pc EXCEPT ![c] = "store"]
      /\ job' = [job EXCEPT ![c].rows = LooksOf(records)]
      /\ UNCHANGED <<reads, looks, vehicle, records, matrix, frames, saved, snapshot, save, boots>>
  BY DEF Rebuild, tracks, registry, disk
<1>2. LooksOf(records) \in Seq(Look) /\ Mirrors(LooksOf(records))
  BY LooksOfRecords DEF LprTypeOK, Mirrors
<1>3. /\ job' \in [Camera -> Locals]
      /\ \A d \in Camera : d # c => job'[d] = job[d]
      /\ job'[c].id = job[c].id /\ job'[c].track = job[c].track
      /\ job'[c].plate = job[c].plate /\ job'[c].look = job[c].look
      /\ job'[c].rows = LooksOf(records)
  BY <1>1, <1>2, WithRows
<1>4. pc' \in [Camera -> Busy \cup {"idle", "ended"}] /\ pc'[c] = "store"
  BY <1>1 DEF LprTypeOK, Busy
<1>5. LprTypeOK'
  BY <1>1, <1>3, <1>4 DEF LprTypeOK
<1>6. Job(c)'
  <2>1. /\ job[c].track \in Track /\ job[c].track[1] = c
        /\ job[c].plate # None => Voted(job[c].track, job[c].plate)
        /\ Seen(job[c].track, job[c].look) /\ Known(job[c].id, job[c].look)
    BY <1>1 DEF Job, Busy
  <2>2. job'[c].plate # None => Voted(job[c].track, job[c].plate)'
    BY <1>1, <1>3, <2>1 DEF Voted
  <2>3. Seen(job[c].track, job[c].look)'
    BY <1>1, <1>3, <2>1 DEF Seen
  <2>4. Known(job[c].id, job[c].look)'
    BY <1>1, <1>3, <2>1 DEF Known
  <2> QED
    BY <1>3, <1>4, <2>1, <2>2, <2>3, <2>4 DEF Job
<1>7. Mirrors(job[c].rows)'
  BY <1>1, <1>2, <1>3 DEF Mirrors
<1> QED
  BY <1>1, <1>3, <1>5, <1>6, <1>7, OwnStep DEF tracks, registry, Busy

LEMMA StoreKeeps ==
  ASSUME LprInv, NEW c \in Camera, Store(c)
  PROVE  LprInv'
<1> USE DEF LprInv
<1> DEFINE t == job[c].track
<1>1. /\ pc[c] = "store" /\ matrix' = job[c].rows
      /\ vehicle' = [vehicle EXCEPT ![t] = job[c].id]
      /\ UNCHANGED <<reads, looks, records, frames, saved, snapshot, save, boots>>
  BY DEF Store, disk
<1>2. /\ t \in Track /\ t[1] = c
      /\ job[c].plate # None => Voted(t, job[c].plate)
      /\ Seen(t, job[c].look) /\ Known(job[c].id, job[c].look)
  BY <1>1 DEF Job, Busy
<1>3. job[c].look \in Look /\ job[c].id \in VehicleId /\ job[c].rows \in Seq(Look)
  <2>1. looks[t] \in Seq(Look)
    BY <1>2 DEF LprTypeOK
  <2>2. job[c].look \in Look
    BY <1>2, <2>1, AveragesLooks DEF Seen
  <2>3. job[c].id \in VehicleId
    <3>1. PICK i \in 1 .. Len(records) : records[i].id = job[c].id
      BY <1>2 DEF Known
    <3>2. records[i] \in Record
      BY ElementOfSeq DEF LprTypeOK
    <3> QED
      BY <3>1, <3>2 DEF Record
  <2> QED
    BY <2>2, <2>3 DEF LprTypeOK, Locals
<1>4. vehicle' \in [Track -> VehicleId \cup {None}] /\ vehicle'[t] = job[c].id
  BY <1>1, <1>2, <1>3 DEF LprTypeOK
<1>5. /\ \A u \in Track : u # t => vehicle'[u] = vehicle[u]
      /\ \A u \in Track : u[1] # c => vehicle'[u] = vehicle[u]
  BY <1>1, <1>2 DEF LprTypeOK
<1>6. Grown
  BY <1>1, SameIsGrown
<1>7. Mirrors(matrix)'
  BY <1>1 DEF Rows, Mirrors
<1>9. \A u \in Track : vehicle'[u] = vehicle[u] \/
        \E l \in Look : Seen(u, l)' /\ Known(vehicle[u], l)'
  <2> SUFFICES ASSUME NEW u \in Track, vehicle'[u] # vehicle[u]
               PROVE  \E l \in Look : Seen(u, l)' /\ Known(vehicle[u], l)'
    OBVIOUS
  <2>1. u = t
    BY <1>5
  <2>2. PICK l \in Look : l = job[c].look
    BY <1>3
  <2>3. Seen(u, l)'
    BY <1>1, <1>2, <2>1, <2>2 DEF Seen
  <2>4. Known(vehicle[u], l)'
    BY <1>1, <1>2, <1>4, <2>1, <2>2 DEF Known
  <2> QED
    BY <2>3, <2>4
<1>10. ASSUME NEW q \in Busy \cup {"idle", "ended"}, pc' = [pc EXCEPT ![c] = q],
              job' \in [Camera -> Locals], \A d \in Camera : d # c => job'[d] = job[d],
              Job(c)', Mirrors(job[c].rows)'
       PROVE  LprInv'
  <2>1. pc' \in [Camera -> Busy \cup {"idle", "ended"}]
    BY <1>10 DEF LprTypeOK
  <2>2. LprTypeOK'
    BY <1>1, <1>3, <1>4, <1>10, <2>1 DEF LprTypeOK
  <2>3. \A d \in Camera : d # c => pc'[d] = pc[d]
    BY <1>10 DEF LprTypeOK
  <2> HIDE DEF t
  <2>4. \A u \in Track : looks'[u] = looks[u] /\ reads'[u] = reads[u]
    BY <1>1
  <2> QED
    BY <1>1, <1>5, <1>6, <1>7, <1>9, <1>10, <2>2, <2>3, <2>4, WorkerKeeps
<1>11. CASE job[c].plate = None
  <2>1. Processed(c)
    BY <1>11 DEF Store
  <2>2. /\ pc' = [pc EXCEPT ![c] = "idle"] /\ job' \in [Camera -> Locals]
        /\ \A d \in Camera : d # c => job'[d] = job[d]
        /\ Job(c)' /\ job'[c].rows = << >>
    BY <2>1, ProcessedEnds
  <2>3. Mirrors(job[c].rows)'
    <3>1. Mirrors(<< >>)
      BY EmptyMirrors
    <3> QED
      BY <1>1, <2>2, <3>1 DEF Mirrors
  <2> QED
    BY <1>10, <2>2, <2>3
<1>12. CASE job[c].plate # None
  <2>1. pc' = [pc EXCEPT ![c] = "check"] /\ job' = [job EXCEPT ![c].rows = << >>]
    BY <1>12 DEF Store
  <2>2. /\ job' \in [Camera -> Locals]
        /\ \A d \in Camera : d # c => job'[d] = job[d]
        /\ job'[c].id = job[c].id /\ job'[c].track = job[c].track
        /\ job'[c].plate = job[c].plate /\ job'[c].rows = << >>
    <3>1. << >> \in Seq(Look)
      BY EmptySeq
    <3> QED
      BY <2>1, <3>1, WithRows
  <2>3. Mirrors(job[c].rows)'
    <3>1. Mirrors(<< >>)
      BY EmptyMirrors
    <3> QED
      BY <1>1, <2>2, <3>1 DEF Mirrors
  <2>4. Voted(job[c].track, job[c].plate)'
    BY <1>1, <1>2, <1>12, <2>2 DEF Voted
  <2>5. pc'[c] = "check"
    BY <2>1 DEF LprTypeOK
  <2>6. Job(c)'
    BY <1>2, <1>4, <1>12, <2>2, <2>4, <2>5 DEF Job, Busy
  <2> QED
    BY <1>10, <2>1, <2>2, <2>3, <2>6 DEF Busy
<1> QED
  BY <1>11, <1>12


LEMMA CheckPlateKeeps ==
  ASSUME LprInv, NEW c \in Camera, CheckPlate(c)
  PROVE  LprInv'
<1> USE DEF LprInv
<1>1. /\ pc[c] = "check"
      /\ UNCHANGED <<reads, looks, vehicle, records, matrix, frames, saved, snapshot, save, boots>>
  BY DEF CheckPlate, tracks, registry, disk
<1>2. CASE Processed(c)
  <2>1. /\ pc' = [pc EXCEPT ![c] = "idle"] /\ job' \in [Camera -> Locals]
        /\ \A d \in Camera : d # c => job'[d] = job[d]
        /\ Job(c)' /\ job'[c].rows = << >>
    BY <1>2, ProcessedEnds
  <2>2. Mirrors(job[c].rows)'
    <3>1. Mirrors(<< >>)
      BY EmptyMirrors
    <3> QED
      BY <1>1, <2>1, <3>1 DEF Mirrors
  <2>3. pc' \in [Camera -> Busy \cup {"idle", "ended"}]
    BY <2>1 DEF LprTypeOK
  <2>4. LprTypeOK'
    BY <1>1, <2>1, <2>3 DEF LprTypeOK
  <2> QED
    BY <1>1, <2>1, <2>2, <2>4, OwnStep DEF tracks, registry
<1>3. CASE Plateless(job[c].id) # {} /\ ~ Processed(c)
  <2> DEFINE P == Plateless(job[c].id)
             row == CHOOSE i \in P : \A j \in P : i <= j
  <2>1. pc' = [pc EXCEPT ![c] = "write"] /\ job' = [job EXCEPT ![c].at = row]
    BY <1>3 DEF CheckPlate
  <2>2. row \in P
    <3>1. DOMAIN records = 1 .. Len(records) /\ Len(records) \in Nat
      BY LenProperties DEF LprTypeOK
    <3>2. P \in SUBSET Nat
      BY <3>1 DEF Plateless
    <3>3. \E i \in P : \A j \in P : i <= j
      BY <1>3, <3>2, Least
    <3> QED
      BY <3>3
  <2> HIDE DEF row
  <2>3. row \in 1 .. Len(records) /\ row \in Nat /\ records[row].id = job[c].id
    BY <2>2, LenProperties DEF Plateless, LprTypeOK
  <2>4. /\ job' \in [Camera -> Locals]
        /\ \A d \in Camera : d # c => job'[d] = job[d]
        /\ job'[c].id = job[c].id /\ job'[c].track = job[c].track
        /\ job'[c].plate = job[c].plate /\ job'[c].rows = job[c].rows /\ job'[c].at = row
    BY <2>1, <2>3, WithAt
  <2>5. pc' \in [Camera -> Busy \cup {"idle", "ended"}] /\ pc'[c] = "write"
    BY <2>1 DEF LprTypeOK, Busy
  <2>6. LprTypeOK'
    BY <1>1, <2>4, <2>5 DEF LprTypeOK
  <2>7. Job(c)'
    <3>1. /\ job[c].track \in Track /\ job[c].track[1] = c
          /\ job[c].plate # None /\ Voted(job[c].track, job[c].plate)
          /\ job[c].id = vehicle[job[c].track]
      BY <1>1 DEF Job, Busy
    <3>2. Voted(job[c].track, job[c].plate)'
      BY <1>1, <2>4, <3>1 DEF Voted
    <3> QED
      BY <1>1, <2>3, <2>4, <2>5, <3>1, <3>2 DEF Job
  <2>8. Mirrors(job[c].rows)'
    BY <1>1, <2>4 DEF Rows, Mirrors
  <2> QED
    BY <1>1, <2>1, <2>4, <2>6, <2>7, <2>8, OwnStep DEF tracks, registry, Busy
<1> QED
  BY <1>2, <1>3 DEF CheckPlate

\* A plate is written over a plate at most: ids and looks stay.
LEMMA PlateWritten ==
  ASSUME LprInv, NEW c \in Camera, WritePlate(c)
  PROVE  /\ records' \in Seq(Record) /\ Grown /\ Len(records') = Len(records)
         /\ job[c].at \in 1 .. Len(records) /\ records[job[c].at].id = job[c].id
         /\ records'[job[c].at].plate = job[c].plate
         /\ \A i \in 1 .. Len(records) : i # job[c].at => records'[i] = records[i]
<1> USE DEF LprInv
<1> DEFINE row == job[c].at
           r == records[row]
           w == [id |-> r.id, look |-> r.look, plate |-> job[c].plate]
<1>1. pc[c] = "write" /\ records' = [records EXCEPT ![row].plate = job[c].plate]
  BY DEF WritePlate
<1>2. row \in 1 .. Len(records) /\ r.id = job[c].id /\ job[c].plate # None
  BY <1>1 DEF Job
<1>3. job[c].plate \in Plate
  BY <1>2 DEF LprTypeOK, Locals
<1>4. r \in Record
  BY <1>2, ElementOfSeq DEF LprTypeOK
<1>5. [r EXCEPT !.plate = job[c].plate] = w
  BY <1>4 DEF Record
<1>6. records' = [records EXCEPT ![row] = w]
  BY <1>1, <1>5
<1>7. w \in Record
  BY <1>3, <1>4 DEF Record
<1> HIDE DEF w, row
<1>8. /\ records' \in Seq(Record) /\ Len(records') = Len(records)
      /\ \A i \in 1 .. Len(records) : records'[i] = IF i = row THEN w ELSE records[i]
  BY <1>2, <1>6, <1>7, ExceptSeq DEF LprTypeOK
<1>9. w.id = r.id /\ w.look = r.look /\ w.plate = job[c].plate
  BY DEF w
<1>10. Len(records) \in Nat
  BY LenProperties DEF LprTypeOK
<1>11. Grown
  BY <1>2, <1>8, <1>9, <1>10 DEF Grown
<1> QED
  BY <1>2, <1>8, <1>9, <1>11 DEF row

LEMMA WritePlateKeeps ==
  ASSUME LprInv, NEW c \in Camera, WritePlate(c)
  PROVE  LprInv'
<1>1. /\ Processed(c)
      /\ UNCHANGED <<reads, looks, vehicle, matrix, frames, saved, snapshot, save, boots>>
  BY DEF WritePlate, tracks, disk
<1>2. records' \in Seq(Record) /\ Grown
  BY PlateWritten
<1>3. /\ pc' = [pc EXCEPT ![c] = "idle"] /\ job' \in [Camera -> Locals]
      /\ \A d \in Camera : d # c => job'[d] = job[d]
      /\ Job(c)' /\ job'[c].rows = << >>
  BY <1>1, ProcessedEnds DEF LprInv
<1>4. /\ pc' \in [Camera -> Busy \cup {"idle", "ended"}]
      /\ \A d \in Camera : d # c => pc'[d] = pc[d]
  BY <1>3 DEF LprInv, LprTypeOK
<1>5. LprTypeOK'
  BY <1>1, <1>2, <1>3, <1>4 DEF LprInv, LprTypeOK
<1>6. Mirrors(matrix)'
  <2>1. matrix \in Seq(Look) /\ Mirrors(matrix) /\ LprTypeOK
    BY DEF LprInv, LprTypeOK, Rows
  <2> QED
    BY <1>1, <1>2, <1>5, <2>1, MirrorsKept
<1>7. Mirrors(job[c].rows)'
  <2>1. Mirrors(<< >>) /\ << >> \in Seq(Look) /\ LprTypeOK
    BY EmptyMirrors, EmptySeq DEF LprInv
  <2>2. Mirrors(<< >>)'
    BY <1>2, <1>5, <2>1, MirrorsKept
  <2> QED
    BY <1>3, <2>2
<1> QED
  BY <1>1, <1>2, <1>3, <1>4, <1>5, <1>6, <1>7, WorkerKeeps

-----------------------------------------------------------------------------
(* Saving and starting again. *)

LEMMA SaveKeeps ==
  ASSUME LprInv, BeginSave \/ DumpRecord \/ OpenSave \/ EndSave
  PROVE  LprInv'
<1> USE DEF LprInv
<1>1. /\ UNCHANGED <<reads, looks, vehicle, records, matrix, pc, job, frames, boots>>
      /\ save # "down" /\ save' \in {"dumping", "writing", "done"}
  BY DEF BeginSave, DumpRecord, OpenSave, EndSave, tracks, registry
<1>2. /\ Len(records) \in Nat /\ snapshot \in Seq(Record) /\ Len(snapshot) \in Nat
      /\ Covers(saved) /\ Covers(snapshot)
  BY <1>1, LenProperties DEF LprTypeOK, Stored
<1>3. /\ saved' \in Seq(Record) /\ snapshot' \in Seq(Record)
      /\ Covers(saved)' /\ Covers(snapshot)'
  <2>1. CASE DumpRecord
    <3> DEFINE n == Len(snapshot) + 1
    <3>1. /\ saved' = saved /\ snapshot' = Append(snapshot, records[n])
          /\ Len(snapshot) < Len(records)
      BY <2>1 DEF DumpRecord
    <3>2. n \in 1 .. Len(records) /\ records[n] \in Record
      BY <1>2, <3>1, ElementOfSeq DEF LprTypeOK
    <3>3. /\ snapshot' \in Seq(Record) /\ Len(snapshot') = n
          /\ \A i \in 1 .. Len(snapshot) : snapshot'[i] = snapshot[i]
          /\ snapshot'[n] = records[n]
      BY <1>2, <3>1, <3>2, AppendProperties
    <3>4. \A i \in 1 .. n : i \in 1 .. Len(snapshot) \/ i = n
      BY <1>2
    <3>5. Covers(snapshot)'
      BY <1>1, <1>2, <3>2, <3>3, <3>4 DEF Covers
    <3> QED
      BY <1>1, <1>2, <3>1, <3>3, <3>5 DEF Covers, LprTypeOK
  <2>2. CASE BeginSave \/ OpenSave
    BY <1>1, <1>2, <2>2 DEF BeginSave, OpenSave, Covers, LprTypeOK
  <2>3. CASE EndSave
    <3>1. saved' = snapshot /\ snapshot' = << >>
      BY <2>3 DEF EndSave
    <3>2. << >> \in Seq(Record) /\ Len(<< >>) = 0
      BY EmptySeq
    <3> QED
      BY <1>1, <1>2, <3>1, <3>2 DEF Covers
  <2> QED
    BY <2>1, <2>2, <2>3
<1>4. LprTypeOK'
  BY <1>1, <1>3 DEF LprTypeOK
<1>5. Rows'
  BY <1>1 DEF Rows, Mirrors
<1>6. ASSUME NEW c \in Camera PROVE Job(c)'
  <2>1. Job(c)
    OBVIOUS
  <2> QED
    BY <1>1, <2>1 DEF Job, Voted, Seen, Known
<1>7. Identity'
  BY <1>1 DEF Identity, Seen, Known
<1>8. Stored'
  BY <1>3 DEF Stored
<1> QED
  BY <1>4, <1>5, <1>6, <1>7, <1>8

LEMMA FreshStart ==
  /\ NoSeqs \in [Track -> Seq(Plate)] /\ NoSeqs \in [Track -> Seq(Look)]
  /\ NoIds \in [Track -> VehicleId \cup {None}]
  /\ AllIdle \in [Camera -> Busy \cup {"idle", "ended"}]
  /\ NoJobs \in [Camera -> Locals] /\ \A c \in Camera : NoJobs[c].rows = << >>
  /\ NoFrames \in [Camera -> Nat]
  /\ \A t \in Track : NoIds[t] = None
  /\ \A c \in Camera : AllIdle[c] = "idle"
<1>1. << >> \in Seq(Plate) /\ << >> \in Seq(Look)
  BY EmptySeq
<1>2. NoJob \in Locals /\ NoJob.rows = << >>
  BY <1>1 DEF NoJob, JobOf, Locals
<1> QED
  BY <1>1, <1>2 DEF NoSeqs, NoIds, AllIdle, NoJobs, NoFrames

\* A process that starts with the records recs, those of the file if it can be
\* read.
LEMMA StartHolds ==
  ASSUME LprTypeOK, vehicle = NoIds, pc \in {AllIdle, [c \in Camera |-> "ended"]},
         job = NoJobs, matrix = LooksOf(records), snapshot = << >>,
         save # "down" => records = saved
  PROVE  LprInv /\ Plates
<1>1. /\ Len(records) \in Nat /\ records \in Seq(Record)
      /\ Len(snapshot) = 0 /\ Len(saved) \in Nat
  BY LenProperties, EmptySeq DEF LprTypeOK
<1>2. Mirrors(matrix)
  BY <1>1, LooksOfRecords DEF Mirrors
<1>3. Rows
  BY <1>2, FreshStart, EmptyMirrors DEF Rows
<1>4. \A c \in Camera : pc[c] \in {"idle", "ended"}
  BY FreshStart
<1>5. \A c \in Camera : Job(c) /\ Blank(c)
  BY <1>4 DEF Job, Busy, Blank
<1>6. Identity
  BY FreshStart DEF Identity
<1>7. Stored
  BY <1>1 DEF Stored, Covers
<1>8. Plates
  BY <1>5 DEF Plates, Unsaved, Loaded
<1> QED
  BY <1>3, <1>5, <1>6, <1>7, <1>8 DEF LprInv

LEMMA InitHolds == LprInit => LprInv /\ Plates
<1> SUFFICES ASSUME LprInit PROVE LprInv /\ Plates
  OBVIOUS
<1>1. << >> \in Seq(Record) /\ << >> \in Seq(Look)
  BY EmptySeq
<1>2. LooksOf(<< >>) = << >>
  <2>1. LooksOf(<< >>) \in Seq(Look) /\ Len(LooksOf(<< >>)) = 0
    BY <1>1, LooksOfRecords
  <2> QED
    BY <2>1, EmptySeq
<1>3. LprTypeOK
  BY <1>1, FreshStart DEF LprInit, LprTypeOK
<1> QED
  BY <1>2, <1>3, StartHolds DEF LprInit

LEMMA RestartKeeps ==
  ASSUME LprInv, Restart \/ RestartFails
  PROVE  LprInv' /\ Plates'
<1>1. PICK recs \in {saved, << >>} :
        /\ Boot(recs)
        /\ \/ save' = "no" /\ recs = saved /\ pc' = AllIdle
           \/ save' = "down" /\ pc' = [c \in Camera |-> "ended"]
  BY DEF Restart, RestartFails
<1>2. /\ reads' = NoSeqs /\ looks' = NoSeqs /\ vehicle' = NoIds
      /\ records' = recs /\ matrix' = LooksOf(recs)
      /\ job' = NoJobs /\ frames' = NoFrames /\ snapshot' = << >>
      /\ boots' = boots + 1 /\ saved' = saved
  BY <1>1 DEF Boot
<1>3. recs \in Seq(Record) /\ LooksOf(recs) \in Seq(Look) /\ << >> \in Seq(Record)
  BY EmptySeq, LooksOfRecords DEF LprInv, LprTypeOK
<1>4. pc' \in [Camera -> Busy \cup {"idle", "ended"}]
  BY <1>1, FreshStart
<1>5. LprTypeOK'
  BY <1>1, <1>2, <1>3, <1>4, FreshStart DEF LprInv, LprTypeOK
<1>6. \A c \in Camera : pc'[c] \in {"idle", "ended"}
  BY <1>1, FreshStart
<1>7. Len(recs) \in Nat
  BY <1>3, LenProperties
<1>8. Rows'
  <2>1. Mirrors(matrix)'
    BY <1>2, <1>3, <1>7, LooksOfRecords DEF Mirrors
  <2>2. Mirrors(<< >>)'
    <3>1. Len(<< >>) = 0
      OBVIOUS
    <3> QED
      BY <1>2, <1>7, <3>1 DEF Mirrors
  <2> QED
    BY <1>2, <2>1, <2>2, FreshStart DEF Rows
<1>9. \A c \in Camera : Job(c)' /\ Blank(c)'
  BY <1>6 DEF Job, Busy, Blank
<1>10. Identity'
  BY <1>2, FreshStart DEF Identity
<1>11. Stored' /\ Plates'
  <2>1. CASE save' = "down"
    BY <2>1 DEF Stored, Plates, Unsaved
  <2>2. CASE recs = saved
    <3>1. Len(<< >>) = 0
      OBVIOUS
    <3> QED
      BY <1>2, <1>7, <1>9, <2>2, <3>1 DEF Stored, Covers, Plates, Unsaved, Loaded
  <2> QED
    BY <1>1, <2>1, <2>2
<1> QED
  BY <1>5, <1>8, <1>9, <1>10, <1>11 DEF LprInv

\* A worker fills in a plate where there was none, and a plate that was loaded
\* is there from the start.
LEMMA PlatesKept ==
  ASSUME LprInv, Plates, NEW c \in Camera, WorkerStep(c), Unsaved
  PROVE  Loaded' /\ \A d \in Camera : Blank(d)'
<1>1. /\ Loaded /\ \A d \in Camera : Blank(d)
      /\ Len(saved) \in Nat /\ Len(records) \in Nat /\ Len(saved) <= Len(records)
  BY LenProperties DEF Plates, LprInv, LprTypeOK, Stored, Covers, Unsaved
<1>2. /\ saved' = saved
      /\ \A d \in Camera : d # c => pc'[d] = pc[d] /\ job'[d] = job[d]
  BY DEF WorkerStep, Process, Found, NotFound, LookupRaises, Create, Rebuild, Store,
         CheckPlate, WritePlate, WorkerEnds, Processed, disk, LprInv, LprTypeOK
<1>3. \A d \in Camera : d # c => Blank(d)'
  BY <1>1, <1>2 DEF Blank
<1>4. CASE WritePlate(c)
  <2>1. pc'[c] = "idle"
    BY <1>4 DEF WritePlate, Processed, LprInv, LprTypeOK
  <2>2. \A i \in 1 .. Len(records) : i # job[c].at => records'[i] = records[i]
    BY <1>4, PlateWritten
  <2>3. job[c].at <= Len(saved) => saved[job[c].at].plate = None
    BY <1>1, <1>4 DEF Blank, WritePlate
  <2>4. Loaded'
    BY <1>1, <1>2, <2>2, <2>3 DEF Loaded
  <2> QED
    BY <1>3, <2>1, <2>4 DEF Blank
<1>5. CASE CheckPlate(c)
  <2>1. records' = records
    BY <1>5 DEF CheckPlate, registry
  <2>2. CASE Processed(c)
    BY <1>1, <1>2, <1>3, <2>1, <2>2 DEF Blank, Loaded, Processed, LprInv, LprTypeOK
  <2>3. CASE ~ Processed(c)
    <3> DEFINE P == Plateless(job[c].id)
               row == CHOOSE i \in P : \A j \in P : i <= j
    <3>1. P # {} /\ job' = [job EXCEPT ![c].at = row]
      BY <1>5, <2>3 DEF CheckPlate
    <3>2. row \in P
      <4>1. DOMAIN records = 1 .. Len(records)
        BY LenProperties DEF LprInv, LprTypeOK
      <4>2. P \in SUBSET Nat
        BY <1>1, <4>1 DEF Plateless
      <4>3. \E i \in P : \A j \in P : i <= j
        BY <3>1, <4>2, Least
      <4> QED
        BY <4>3
    <3> HIDE DEF row
    <3>3. row \in 1 .. Len(records) /\ row \in Nat /\ records[row].plate = None
      BY <3>2, LenProperties DEF Plateless, LprInv, LprTypeOK
    <3>4. job'[c].at = row
      BY <3>1, <3>3, WithAt DEF LprInv
    <3>5. row <= Len(saved) => saved[row].plate = None
      BY <1>1, <3>3 DEF Loaded
    <3> QED
      BY <1>1, <1>2, <1>3, <2>1, <3>4, <3>5 DEF Blank, Loaded
  <2> QED
    BY <2>2, <2>3
<1>6. CASE ~ WritePlate(c) /\ ~ CheckPlate(c)
  <2>1. pc'[c] # "write"
    BY <1>6 DEF WorkerStep, Process, Found, NotFound, LookupRaises, Create, Rebuild, Store,
                WorkerEnds, Processed, LprInv, LprTypeOK
  <2>2. \A i \in 1 .. Len(records) : records'[i] = records[i]
    <3>1. ASSUME NEW v \in VehicleId, Create(c, v)
          PROVE  \A i \in 1 .. Len(records) : records'[i] = records[i]
      BY <3>1, <1>1 DEF Create, LprInv, LprTypeOK
    <3>2. (\E v \in VehicleId : Create(c, v)) \/ records' = records
      BY <1>6 DEF WorkerStep, Process, Found, NotFound, LookupRaises, Rebuild, Store,
                  WorkerEnds, registry
    <3> QED
      BY <3>1, <3>2
  <2>3. Loaded'
    BY <1>1, <1>2, <2>2 DEF Loaded
  <2> QED
    BY <1>3, <2>1, <2>3 DEF Blank
<1> QED
  BY <1>4, <1>5, <1>6

LEMMA StepKeeps == LprInv /\ Plates /\ [LprNext]_vars => LprInv' /\ Plates'
<1> SUFFICES ASSUME LprInv, Plates, [LprNext]_vars PROVE LprInv' /\ Plates'
  OBVIOUS
<1>1. ASSUME NEW c \in Camera, WorkerStep(c) PROVE LprInv' /\ Plates'
  <2>1. LprInv'
    BY <1>1, ProcessKeeps, FoundKeeps, TurnKeeps, CreateKeeps, RebuildKeeps, StoreKeeps,
       CheckPlateKeeps, WritePlateKeeps DEF WorkerStep
  <2>2. save' = save
    BY <1>1 DEF WorkerStep, Process, Found, NotFound, LookupRaises, Create, Rebuild, Store,
                CheckPlate, WritePlate, WorkerEnds, disk
  <2>3. Plates'
    BY <1>1, <2>2, PlatesKept DEF Plates, Unsaved
  <2> QED
    BY <2>1, <2>3
<1>2. CASE BeginSave \/ DumpRecord \/ OpenSave \/ EndSave
  <2>1. /\ UNCHANGED <<records, pc, job>>
        /\ (saved' = saved /\ Unsaved) \/ save' = "done"
    BY <1>2 DEF BeginSave, DumpRecord, OpenSave, EndSave, registry, Unsaved
  <2>2. Plates'
    BY <2>1 DEF Plates, Unsaved, Loaded, Blank
  <2> QED
    BY <1>2, <2>2, SaveKeeps
<1>3. CASE UNCHANGED vars
  <2>1. LprInv'
    BY <1>3 DEF vars, tracks, registry, disk, LprInv, LprTypeOK, Rows, Mirrors, Job, Voted,
                Seen, Known, Identity, Stored, Covers
  <2>2. Plates'
    BY <1>3 DEF vars, tracks, registry, disk, Plates, Unsaved, Loaded, Blank
  <2> QED
    BY <2>1, <2>2
<1> QED
  BY <1>1, <1>2, <1>3, RestartKeeps DEF LprNext

LEMMA LprHolds == LprSpec => [](LprInv /\ Plates)
  BY InitHolds, StepKeeps, PTL DEF LprSpec


-----------------------------------------------------------------------------
(* The theorems. *)

\* Every variable keeps its type: in particular a vote is a plate that was read.
THEOREM LprTyped == LprSpec => []LprTypeOK
<1>1. LprInv => LprTypeOK
  BY DEF LprInv
<1> QED
  BY <1>1, LprHolds, PTL

\* A track of one look has the identity of a vehicle that looks like it, for
\* any interleaving of look-ups, additions and rebuilt matrices.
THEOREM IdentityLooksAlike == LprSpec => []LooksAlike
<1>1. LprInv => LooksAlike
  <2> SUFFICES ASSUME LprInv, NEW t \in Track, vehicle[t] # None, NEW l \in Look,
                      \A i \in 1 .. ToAverage : looks[t][i] = l
               PROVE  \E r \in Range(records) : r.id = vehicle[t] /\ r.look = l
    BY DEF LooksAlike
  <2>1. PICK m \in Look : Seen(t, m) /\ Known(vehicle[t], m)
    BY DEF LprInv, Identity
  <2>2. m = l
    BY <2>1, AverageOfOne DEF Seen
  <2>3. PICK i \in 1 .. Len(records) : records[i].id = vehicle[t] /\ records[i].look = l
    BY <2>1, <2>2 DEF Known
  <2>4. records[i] \in Range(records)
    BY LenProperties DEF LprInv, LprTypeOK, Range
  <2> QED
    BY <2>3, <2>4
<1> QED
  BY <1>1, LprHolds, PTL

\* A vehicle of the file is in the registry at its place, and has the plate it
\* was loaded with, however reads of it and a save interleave, and wherever the
\* process is killed but in the write itself.
THEOREM SavedIsKept == LprSpec => []SavedKept
<1>1. LprInv /\ Plates => SavedKept
  <2> SUFFICES ASSUME LprInv, Plates, save # "down", NEW i \in DOMAIN saved
               PROVE  /\ i \in DOMAIN records
                      /\ records[i].id = saved[i].id /\ records[i].look = saved[i].look
                      /\ saved[i].plate # None =>
                           IF save = "done" THEN records[i].plate # None
                                            ELSE records[i].plate = saved[i].plate
    BY DEF SavedKept
  <2>1. /\ Len(saved) \in Nat /\ Len(records) \in Nat
        /\ DOMAIN saved = 1 .. Len(saved) /\ DOMAIN records = 1 .. Len(records)
    BY LenProperties DEF LprInv, LprTypeOK
  <2>2. save # "done" => Loaded
    BY DEF Plates, Unsaved
  <2> QED
    BY <2>1, <2>2 DEF LprInv, Stored, Covers, Loaded
<1> QED
  BY <1>1, LprHolds, PTL

\* Only WritePlate gives plates, and when it comes to write, the track still has
\* the identity and the votes it had when the plate was chosen.
THEOREM PlatesEarned == LprSpec => PlateEarned
<1> DEFINE Earned == boots' = boots =>
             \A i \in DOMAIN records : records'[i].plate # records[i].plate =>
               \E t \in Track : /\ vehicle[t] = records[i].id
                                /\ Len(reads[t]) >= MinReads
                                /\ records'[i].plate = MostCommon(reads[t])
<1>1. LprInv /\ [LprNext]_vars => [Earned]_vars
  <2> SUFFICES ASSUME LprInv, LprNext, boots' = boots, NEW i \in DOMAIN records,
                      records'[i].plate # records[i].plate
               PROVE  \E t \in Track : /\ vehicle[t] = records[i].id
                                       /\ Len(reads[t]) >= MinReads
                                       /\ records'[i].plate = MostCommon(reads[t])
    OBVIOUS
  <2>1. ~ (Restart \/ RestartFails)
    BY DEF Restart, RestartFails, Boot, LprInv, LprTypeOK
  <2>2. ~ (BeginSave \/ DumpRecord \/ OpenSave \/ EndSave)
    BY DEF BeginSave, DumpRecord, OpenSave, EndSave, registry
  <2>3. PICK c \in Camera : WorkerStep(c)
    BY <2>1, <2>2 DEF LprNext
  <2>4. i \in 1 .. Len(records) /\ Len(records) \in Nat
    BY LenProperties DEF LprInv, LprTypeOK
  <2>5. ASSUME NEW v \in VehicleId, Create(c, v) PROVE FALSE
    <3>1. records' = Append(records, [id |-> v, look |-> job[c].look, plate |-> None])
      BY <2>5 DEF Create
    <3>2. records'[i] = records[i]
      BY <2>4, <3>1 DEF LprInv, LprTypeOK
    <3> QED
      BY <3>2
  <2>6. WritePlate(c)
    <3>1. \/ \E t \in Track, read \in Plate \cup {None}, look \in Look \cup {None} :
               Process(c, t, read, look)
          \/ Found(c) \/ NotFound(c) \/ LookupRaises(c) \/ Rebuild(c) \/ Store(c)
          \/ CheckPlate(c) \/ WorkerEnds(c)
          => records' = records
      BY DEF Process, Found, NotFound, LookupRaises, Rebuild, Store, CheckPlate, WorkerEnds,
             registry
    <3> QED
      BY <2>3, <2>5, <3>1 DEF WorkerStep
  <2>7. /\ i = job[c].at /\ records[i].id = job[c].id
        /\ records'[i].plate = job[c].plate
    BY <2>4, <2>6, PlateWritten
  <2>8. /\ job[c].track \in Track /\ job[c].id = vehicle[job[c].track]
        /\ Voted(job[c].track, job[c].plate)
    BY <2>6 DEF WritePlate, LprInv, Job, Busy
  <2> QED
    BY <2>7, <2>8 DEF Voted
<1> QED
  BY <1>1, LprHolds, PTL DEF LprSpec, PlateEarned

-----------------------------------------------------------------------------
(* The model cache and the stages: their inductive invariants. *)

\* What a crop is known by, or nothing.
Crop == (Source \X Nat \X Nat) \cup {<< >>}
Object == [component : Nat, class : Class, size : Size, parent : Nat, crop : Crop,
           tracked : BOOLEAN, results : SUBSET (Nat \X Crop)]
Places == {"idle", "waiting", "stage", "run", "track", "publish", "failed"}

CascadeTypeOK ==
  /\ at \in [Source -> Places] /\ frame \in [Source -> Nat]
  /\ pass \in [Source -> 1 .. Len(Stage)]
  /\ objects \in [Source -> Seq(Object)] /\ found \in [Source -> Seq(Object)]
  /\ todo \in [Source -> SUBSET Nat]
  /\ lock \in Source \cup {Nobody}
  /\ buffer \in [1 .. Len(Stage) -> Crop]

Visiting(c) == at[c] \in {"stage", "run"}

\* The lock is held while a camera is in a stage, and what the stage has still to
\* visit are targets of it.
Stages ==
  \A c \in Source :
    /\ IF Visiting(c) THEN lock = c /\ todo[c] \subseteq Targets(c, pass[c])
                      ELSE todo[c] = {} /\ found[c] = << >>
    /\ at[c] \in {"idle", "failed"} => objects[c] = << >>

\* What the model runs on is the crop of the object it is run for.
Filled ==
  \A c \in Source : at[c] = "run" =>
    todo[c] # {} /\ buffer[pass[c]] = CropOf(c, Target(c))

\* What a stage has found so far, none of it in the whole frame but for the first.
Children ==
  \A c \in Source : \A i \in 1 .. Len(found[c]) :
    /\ found[c][i].crop = CropOf(c, found[c][i].parent)
    /\ found[c][i].results = {}
    /\ pass[c] # 1 => found[c][i].parent # 0

\* Every primary object with a crop has its embedding once the stage has passed it.
Passed(c, i) ==
  \/ pass[c] > EmbeddingAt \/ at[c] = "publish"
  \/ pass[c] = EmbeddingAt /\ Visiting(c) /\ i \notin todo[c]
Embedded ==
  \A c \in Source : \A i \in 1 .. Len(objects[c]) : LET o == objects[c][i] IN
    o.parent = 0 /\ Wanted(EmbeddingAt, o) /\ o.size = "large" /\ Passed(c, i)
      => <<EmbeddingAt, CropOf(c, i)>> \in o.results

\* As OwnPixels, with the domain of a sequence spelled out.
Pixels ==
  \A c \in Source : \A i \in 1 .. Len(objects[c]) :
    /\ objects[c][i].crop = CropOf(c, objects[c][i].parent)
    /\ \A r \in objects[c][i].results : r[2] = CropOf(c, i)

CascadeInv == CascadeTypeOK /\ Stages /\ Filled /\ Children /\ Embedded /\ Pixels

CacheInv ==
  /\ CacheTypeOK
  /\ \A m \in Custom : file[<<"onnx", m>>] = Whole
  /\ \A p \in Proc : step[p] \in {"exporting", "exported"} => ModelOf[Current(p)] \notin Custom
  /\ BestEffort


-----------------------------------------------------------------------------
(* The cache. *)

LEMMA PlanFacts ==
  ASSUME CacheTypeOK, NEW p \in Proc
  PROVE  /\ Current(p) \in Program /\ ModelOf[Current(p)] \in Model
         /\ Len(Plan[p]) \in Nat /\ stage[p] \in 1 .. Len(Plan[p])
         /\ Onnx(p) \in Path /\ Export(p) \in Path /\ Tmp(p) \in Path /\ Mxr(p) \in Path
<1>1. Plan[p] \in Seq(Program) /\ ModelOf \in [Program -> Model]
  BY CacheAssumption
<1>2. stage[p] \in 1 .. Len(Plan[p])
  BY <1>1 DEF CacheTypeOK
<1>3. Current(p) \in Program
  BY <1>1, <1>2 DEF Current
<1>4. ModelOf[Current(p)] \in Model
  BY <1>1, <1>3
<1> QED
  BY <1>1, <1>2, <1>3, <1>4 DEF Onnx, Export, Tmp, Mxr, Path

LEMMA OpenKeepsType ==
  ASSUME CacheTypeOK, NEW p \in Proc, NEW f \in Path, OpenFile(p, f)
  PROVE  file' \in [Path -> Proc \cup {Absent, Whole}] /\ writing' \in [Proc -> Path \cup {Nowhere}]
BY DEF CacheTypeOK, OpenFile

LEMMA CloseKeepsType ==
  ASSUME CacheTypeOK, NEW p \in Proc, CloseFile(p)
  PROVE  file' \in [Path -> Proc \cup {Absent, Whole}] /\ writing' \in [Proc -> Path \cup {Nowhere}]
BY DEF CacheTypeOK, CloseFile

LEMMA RenameKeepsType ==
  ASSUME CacheTypeOK, NEW from \in Path, NEW to \in Path, RenameFile(from, to)
  PROVE  file' \in [Path -> Proc \cup {Absent, Whole}] /\ writing' \in [Proc -> Path \cup {Nowhere}]
BY DEF CacheTypeOK, RenameFile

LEMMA AdvanceKeepsType ==
  ASSUME CacheTypeOK, NEW p \in Proc, NEW have \in SUBSET Program, Advance(p, have)
  PROVE  /\ compiled' \in [Proc -> SUBSET Program]
         /\ stage' \in [Proc -> Nat] /\ \A q \in Proc : stage'[q] \in DOMAIN Plan[q]
         /\ step' \in [Proc -> {step[q] : q \in Proc} \cup {"resolve", "ready"}]
<1>1. Plan[p] \in Seq(Program) /\ Len(Plan[p]) \in Nat /\ DOMAIN Plan[p] = 1 .. Len(Plan[p])
  BY CacheAssumption
<1>2. compiled' \in [Proc -> SUBSET Program]
  BY DEF CacheTypeOK, Advance
<1>3. step' \in [Proc -> {step[q] : q \in Proc} \cup {"resolve", "ready"}]
  BY DEF CacheTypeOK, Advance, GoTo
<1>4. stage' \in [Proc -> Nat] /\ \A q \in Proc : stage'[q] \in DOMAIN Plan[q]
  <2>1. stage \in [Proc -> Nat] /\ stage[p] \in 1 .. Len(Plan[p])
    BY <1>1 DEF CacheTypeOK
  <2>2. CASE stage[p] < Len(Plan[p])
    <3>1. stage' = [stage EXCEPT ![p] = @ + 1] /\ stage[p] + 1 \in 1 .. Len(Plan[p])
      BY <1>1, <2>1, <2>2 DEF Advance
    <3> QED BY <1>1, <2>1, <3>1 DEF CacheTypeOK
  <2>3. CASE ~ (stage[p] < Len(Plan[p]))
    BY <2>3 DEF CacheTypeOK, Advance
  <2> QED BY <2>2, <2>3
<1> QED
  BY <1>2, <1>3, <1>4

\* Type correctness of the shared files and of every process's way through
\* prepare().
LEMMA CacheTyped ==
  ASSUME CacheTypeOK, NEW p \in Proc, CacheStep(p)
  PROVE  CacheTypeOK'
<1> USE PlanFacts
<1> DEFINE Steps == {"down", "resolve", "exporting", "exported", "load", "compile",
                     "save", "saving", "saved", "ready", "failed"}
<1>0. step \in [Proc -> Steps] /\ \A q \in Proc : step[q] \in Steps
  BY DEF CacheTypeOK
<1>00. \A q \in Proc : 1 \in DOMAIN Plan[q]
  BY CacheAssumption
<1>f. MaxFaults \in Nat /\ Calibration \in Nat /\ faults \in Nat /\ \A q \in Proc : fed[q] \in Nat
  BY CacheAssumption DEF CacheTypeOK
<1>1. CASE Begin(p) \/ ResolveFound(p)
  BY <1>1, <1>0 DEF CacheTypeOK, Begin, ResolveFound, GoTo
<1>2. CASE BeginExport(p)
  <2>1. file' \in [Path -> Proc \cup {Absent, Whole}] /\ writing' \in [Proc -> Path \cup {Nowhere}]
    BY <1>2, OpenKeepsType DEF BeginExport
  <2> QED BY <2>1, <1>2, <1>0 DEF CacheTypeOK, BeginExport, GoTo
<1>3. CASE EndExport(p)
  <2>1. file' \in [Path -> Proc \cup {Absent, Whole}] /\ writing' \in [Proc -> Path \cup {Nowhere}]
    BY <1>3, CloseKeepsType DEF EndExport
  <2> QED BY <2>1, <1>3, <1>0 DEF CacheTypeOK, EndExport, GoTo
<1>4. CASE ExportFails(p)
  BY <1>4, <1>0, <1>f DEF CacheTypeOK, ExportFails, GoTo
<1>5. CASE KeepExport(p)
  <2>1. file' \in [Path -> Proc \cup {Absent, Whole}] /\ writing' \in [Proc -> Path \cup {Nowhere}]
    <3>1. CASE file[Export(p)] = Absent
      BY <1>5, <3>1 DEF KeepExport, CacheTypeOK
    <3>2. CASE file[Export(p)] # Absent
      BY <1>5, <3>2, RenameKeepsType DEF KeepExport
    <3> QED BY <3>1, <3>2
  <2> QED BY <2>1, <1>5, <1>0 DEF CacheTypeOK, KeepExport, GoTo
<1>6. CASE Load(p)
  <2>1. CASE UsesCache(p) /\ file[Mxr(p)] = Whole
    <3>1. Advance(p, {Current(p)}) /\ UNCHANGED <<file, writing, fed, faults>>
      BY <1>6, <2>1 DEF Load
    <3> QED BY <3>1, <1>0, AdvanceKeepsType DEF CacheTypeOK
  <2>2. CASE ~(UsesCache(p) /\ file[Mxr(p)] = Whole)
    BY <1>6, <2>2, <1>0 DEF Load, CacheTypeOK, GoTo
  <2> QED BY <2>1, <2>2
<1>7. CASE Compile(p)
  <2>1. CASE file[Onnx(p)] = Whole /\ ~UsesCache(p)
    <3>1. Advance(p, {Current(p)} \ Int8) /\ UNCHANGED <<file, writing, fed, faults>>
      BY <1>7, <2>1 DEF Compile
    <3> QED BY <3>1, <1>0, AdvanceKeepsType DEF CacheTypeOK
  <2>2. CASE ~(file[Onnx(p)] = Whole /\ ~UsesCache(p))
    BY <1>7, <2>2, <1>0 DEF Compile, CacheTypeOK, GoTo
  <2> QED BY <2>1, <2>2
<1>8. CASE OpenTmp(p)
  <2>1. file' \in [Path -> Proc \cup {Absent, Whole}] /\ writing' \in [Proc -> Path \cup {Nowhere}]
    BY <1>8, OpenKeepsType DEF OpenTmp
  <2> QED BY <2>1, <1>8, <1>0 DEF CacheTypeOK, OpenTmp, GoTo
<1>9. CASE CloseTmp(p)
  <2>1. file' \in [Path -> Proc \cup {Absent, Whole}] /\ writing' \in [Proc -> Path \cup {Nowhere}]
    BY <1>9, CloseKeepsType DEF CloseTmp
  <2> QED BY <2>1, <1>9, <1>0 DEF CacheTypeOK, CloseTmp, GoTo
<1>10. CASE KeepSaved(p)
  <2>1. file' \in [Path -> Proc \cup {Absent, Whole}] /\ writing' \in [Proc -> Path \cup {Nowhere}]
    <3>1. CASE file[Tmp(p)] = Absent
      BY <1>10, <3>1 DEF KeepSaved, CacheTypeOK
    <3>2. CASE file[Tmp(p)] # Absent
      BY <1>10, <3>2, RenameKeepsType DEF KeepSaved
    <3> QED BY <3>1, <3>2
  <2>2. Advance(p, {Current(p)}) /\ UNCHANGED <<fed, faults>>
    BY <1>10 DEF KeepSaved
  <2> QED BY <2>1, <2>2, <1>0, AdvanceKeepsType DEF CacheTypeOK
<1>11. CASE SaveFails(p)
  <2>1. /\ Advance(p, {Current(p)}) /\ UNCHANGED <<file, fed>>
        /\ writing' = [writing EXCEPT ![p] = Nowhere] /\ faults' \in 0 .. MaxFaults
    BY <1>11, <1>f DEF SaveFails
  <2> QED BY <2>1, <1>0, AdvanceKeepsType DEF CacheTypeOK
<1>12. CASE Calibrate(p)
  <2>1. Int8 \in SUBSET Program
    BY CacheAssumption
  <2>2. compiled' \in [Proc -> SUBSET Program]
    BY <1>12, <2>1 DEF CacheTypeOK, Calibrate
  <2>3. fed' \in [Proc -> 0 .. Calibration]
    BY <1>12, <1>f DEF CacheTypeOK, Calibrate
  <2> QED BY <2>2, <2>3, <1>12 DEF CacheTypeOK, Calibrate
<1>13. CASE Exit(p) \/ Crash(p)
  <2>1. Leave(p) /\ faults' \in 0 .. MaxFaults
    BY <1>13, <1>f DEF Exit, Crash, CacheTypeOK
  <2>2. fed' \in [Proc -> 0 .. Calibration] /\ compiled' \in [Proc -> SUBSET Program]
    BY <2>1, <1>f DEF Leave, CacheTypeOK
  <2>3. stage' \in [Proc -> Nat] /\ \A q \in Proc : stage'[q] \in DOMAIN Plan[q]
    BY <2>1, <1>00 DEF Leave, CacheTypeOK
  <2>4. step' \in [Proc -> Steps]
    BY <2>1, <1>0 DEF Leave, GoTo
  <2> QED BY <2>1, <2>2, <2>3, <2>4 DEF Leave, CacheTypeOK
<1> QED
  BY <1>1, <1>2, <1>3, <1>4, <1>5, <1>6, <1>7, <1>8, <1>9, <1>10, <1>11, <1>12, <1>13 DEF CacheStep

\* What a step of a process does to the file of a custom model: nothing.
LEMMA CustomKept ==
  ASSUME CacheInv, NEW p \in Proc, CacheStep(p), NEW m \in Custom
  PROVE  file'[<<"onnx", m>>] = Whole
<1> DEFINE f == <<"onnx", m>>
<1>1. f \in Path /\ file[f] = Whole /\ file \in [Path -> Proc \cup {Absent, Whole}]
  BY CacheAssumption DEF CacheInv, CacheTypeOK, Path
<1>2. /\ Tmp(p) \in Path /\ Mxr(p) \in Path /\ Export(p) \in Path /\ Onnx(p) \in Path
      /\ f # Tmp(p) /\ f # Mxr(p) /\ f # Export(p)
  BY PlanFacts DEF CacheInv, Tmp, Mxr, Export
<1>3. CASE BeginExport(p) \/ OpenTmp(p)
  BY <1>1, <1>2, <1>3 DEF BeginExport, OpenTmp, OpenFile
<1>4. CASE EndExport(p) \/ CloseTmp(p)
  BY <1>1, <1>4 DEF EndExport, CloseTmp, CloseFile
<1>5. CASE KeepExport(p)
  <2>1. f # Onnx(p)
    BY <1>5 DEF KeepExport, CacheInv, Onnx
  <2> QED BY <1>1, <1>2, <1>5, <2>1 DEF KeepExport, RenameFile
<1>6. CASE KeepSaved(p)
  BY <1>1, <1>2, <1>6 DEF KeepSaved, RenameFile
<1>7. CASE ~(\/ BeginExport(p) \/ OpenTmp(p) \/ EndExport(p) \/ CloseTmp(p)
             \/ KeepExport(p) \/ KeepSaved(p))
  BY <1>1, <1>7 DEF CacheStep, Begin, ResolveFound, ExportFails, Load, Compile, SaveFails,
                    Calibrate, Exit, Crash, Leave
<1> QED
  BY <1>3, <1>4, <1>5, <1>6, <1>7

\* Each process exports, and fails over, models of the zoo only.
LEMMA ZooOnly ==
  ASSUME CacheInv, NEW p \in Proc, CacheStep(p), NEW q \in Proc,
         step'[q] \in {"exporting", "exported", "failed"}
  PROVE  ModelOf[Current(q)'] \notin Custom
<1>0. /\ step \in [Proc -> {"down", "resolve", "exporting", "exported", "load", "compile",
                          "save", "saving", "saved", "ready", "failed"}]
      /\ stage \in [Proc -> Nat]
  BY DEF CacheInv, CacheTypeOK
<1>1. CASE q # p
  <2>1. step'[q] = step[q] /\ stage'[q] = stage[q]
    BY <1>0, <1>1 DEF CacheStep, Begin, ResolveFound, BeginExport, EndExport, ExportFails,
      KeepExport, Load, Compile, OpenTmp, CloseTmp, KeepSaved, SaveFails, Calibrate, Exit,
      Crash, Leave, Advance, GoTo
  <2> QED BY <2>1 DEF CacheInv, BestEffort, Current
<1>2. CASE q = p
  <2>1. CASE Compile(p)
    <3>1. step'[p] = "failed" => file[Onnx(p)] # Whole /\ stage'[p] = stage[p]
      BY <1>0, <2>1 DEF Compile, Advance, GoTo
    <3> QED BY <1>0, <1>2, <2>1, <3>1 DEF CacheInv, Compile, Advance, GoTo, Current, Onnx
  <2>2. CASE BeginExport(p) \/ EndExport(p) \/ ExportFails(p) \/ KeepExport(p)
    BY <1>0, <1>2, <2>2 DEF BeginExport, EndExport, ExportFails, KeepExport, GoTo, CacheInv, Current
  <2>3. CASE ~(Compile(p) \/ BeginExport(p) \/ EndExport(p) \/ ExportFails(p) \/ KeepExport(p))
    BY <1>0, <1>2, <2>3 DEF CacheStep, Begin, ResolveFound, Load, OpenTmp, CloseTmp, KeepSaved,
      SaveFails, Calibrate, Exit, Crash, Leave, Advance, GoTo
  <2> QED BY <2>1, <2>2, <2>3
<1> QED BY <1>1, <1>2

LEMMA CacheKept ==
  ASSUME CacheInv, [\E p \in Proc : CacheStep(p)]_cacheVars
  PROVE  CacheInv'
<1>1. CASE UNCHANGED cacheVars
  BY <1>1 DEF cacheVars, CacheInv, CacheTypeOK, BestEffort, Current
<1>2. ASSUME NEW p \in Proc, CacheStep(p) PROVE CacheInv'
  BY <1>2, CacheTyped, CustomKept, ZooOnly DEF CacheInv, BestEffort
<1> QED BY <1>1, <1>2

LEMMA CacheStarts == CacheInit => CacheInv
<1> SUFFICES ASSUME CacheInit PROVE CacheInv
  OBVIOUS
<1>1. CacheTypeOK
  <2>1. \A q \in Proc : 1 \in DOMAIN Plan[q]
    BY CacheAssumption
  <2> QED BY <2>1, CacheAssumption DEF CacheInit, CacheTypeOK
<1>2. \A m \in Custom : file[<<"onnx", m>>] = Whole
  BY CacheAssumption DEF CacheInit, Path
<1> QED BY <1>1, <1>2 DEF CacheInit, CacheInv, BestEffort

-----------------------------------------------------------------------------
(* The stages. *)

LEMMA StageFacts ==
  /\ Len(Stage) \in Nat /\ DOMAIN Stage = 1 .. Len(Stage)
  /\ EmbeddingAt \in 2 .. Len(Stage) /\ 1 \in 1 .. Len(Stage)
  /\ Stage[1].kind = "detect" /\ Stage[EmbeddingAt].kind = "embed"
<1>1. /\ Stage \in Seq([kind : Kinds, on : Nat, classes : SUBSET Class])
      /\ Len(Stage) \in Nat /\ DOMAIN Stage = 1 .. Len(Stage)
  BY CascadeAssumption
<1>2. EmbeddingAt \in 1 .. Len(Stage) /\ EmbeddingAt # 1
  BY <1>1, CascadeAssumption
<1>3. EmbeddingAt \in 2 .. Len(Stage) /\ 1 \in 1 .. Len(Stage)
  BY <1>1, <1>2
<1> QED
  BY <1>1, <1>3, CascadeAssumption

LEMMA TargetIn ==
  ASSUME CascadeTypeOK, NEW c \in Source, todo[c] # {}
  PROVE  Target(c) \in todo[c] /\ Target(c) \in Nat
<1>1. todo[c] \in SUBSET Nat
  BY DEF CascadeTypeOK
<1>2. \E i \in todo[c] : \A j \in todo[c] : i <= j
  BY <1>1, Least
<1> QED
  BY <1>1, <1>2 DEF Target

\* Where a camera visits an object, it is one of the frame's, unless the stage is
\* the first, which visits the frame.
LEMMA Visited ==
  ASSUME CascadeTypeOK, Stages, NEW c \in Source, Visiting(c), todo[c] # {}
  PROVE  /\ Target(c) \in Targets(c, pass[c])
         /\ pass[c] = 1 => Target(c) = 0
         /\ pass[c] # 1 => Target(c) \in 1 .. Len(objects[c])
<1>1. Target(c) \in Targets(c, pass[c])
  BY TargetIn DEF Stages
<1>2. objects[c] \in Seq(Object)
  BY DEF CascadeTypeOK
<1> QED
  BY <1>1, <1>2 DEF Targets

\* Only one camera is in a stage.
LEMMA Alone ==
  ASSUME Stages, NEW c \in Source, NEW d \in Source, Visiting(c), Visiting(d)
  PROVE  c = d
BY DEF Stages

LEMMA ChildTyped ==
  ASSUME CascadeTypeOK, NEW c \in Source, NEW class \in Class, NEW size \in Size,
         Target(c) \in Nat
  PROVE  NewObject(c, class, size) \in Object
<1>1. pass[c] \in Nat /\ pass[c] \in 1 .. Len(Stage)
  BY StageFacts DEF CascadeTypeOK
<1>2. buffer[pass[c]] \in Crop
  BY <1>1 DEF CascadeTypeOK
<1> QED
  BY <1>1, <1>2 DEF NewObject, Object

\* What a detector finds, as new children of the object it was run for.
LEMMA FoundMore ==
  ASSUME CascadeTypeOK, NEW c \in Source, Detect(c), todo[c] # {}
  PROVE  \E new \in Seq(Object) :
           /\ found' = [found EXCEPT ![c] = @ \o new]
           /\ \A i \in 1 .. Len(new) :
                /\ new[i].parent = Target(c) /\ new[i].crop = buffer[pass[c]]
                /\ new[i].results = {}
<1>1. PICK finds \in Finds[c][pass[c]] :
        found' = [found EXCEPT ![c] =
                    @ \o [i \in DOMAIN finds |-> NewObject(c, finds[i][1], finds[i][2])]]
  BY DEF Detect, Detections
<1> DEFINE new == [i \in DOMAIN finds |-> NewObject(c, finds[i][1], finds[i][2])]
<1>2. pass[c] \in DOMAIN Stage
  BY StageFacts DEF CascadeTypeOK
<1>3. finds \in Seq(Class \X Size)
  BY <1>2, CascadeAssumption
<1>4. Len(finds) \in Nat /\ DOMAIN finds = 1 .. Len(finds)
  BY <1>3
<1>5. \A i \in 1 .. Len(finds) : NewObject(c, finds[i][1], finds[i][2]) \in Object
  <2> TAKE i \in 1 .. Len(finds)
  <2>1. finds[i][1] \in Class /\ finds[i][2] \in Size
    BY <1>3, <1>4
  <2> QED BY <2>1, TargetIn, ChildTyped
<1>6. new \in [1 .. Len(finds) -> Object]
  BY <1>4, <1>5
<1>7. new \in Seq(Object) /\ Len(new) = Len(finds)
  BY <1>4, <1>6
<1>8. \A i \in 1 .. Len(new) :
        /\ new[i].parent = Target(c) /\ new[i].crop = buffer[pass[c]]
        /\ new[i].results = {}
  BY <1>4, <1>7 DEF NewObject
<1> QED
  BY <1>1, <1>7, <1>8

\* A classifier or an embedding stage attaches what it computed to its object.
LEMMA AttachedTo ==
  ASSUME CascadeTypeOK, Stages, NEW c \in Source, Attach(c), todo[c] # {}
  PROVE  /\ pass[c] # 1 /\ Target(c) \in 1 .. Len(objects[c])
         /\ \E result \in SUBSET {<<pass[c], buffer[pass[c]]>>} :
              /\ objects' = [objects EXCEPT ![c][Target(c)].results = @ \cup result]
              /\ Doing(c).kind = "embed" => result = {<<pass[c], buffer[pass[c]]>>}
<1>1. pass[c] # 1
  BY StageFacts DEF Attach, Doing
<1>2. Target(c) \in 1 .. Len(objects[c])
  BY <1>1, Visited DEF Attach, Ran, Visiting
<1>3. PICK result \in Results(c) :
        objects' = [objects EXCEPT ![c][Target(c)].results = @ \cup result]
  BY DEF Attach
<1>4. result \in SUBSET {<<pass[c], buffer[pass[c]]>>}
  BY <1>3 DEF Results
<1>5. Doing(c).kind = "embed" => result = {<<pass[c], buffer[pass[c]]>>}
  BY <1>3 DEF Results
<1> QED
  BY <1>1, <1>2, <1>3, <1>4, <1>5

\* The objects of camera c are the same ones, at the same places: only results and
\* track ids may be new.
SameObjects(c) ==
  /\ Len(objects'[c]) = Len(objects[c])
  /\ \A i \in 1 .. Len(objects[c]) :
       /\ objects'[c][i].component = objects[c][i].component
       /\ objects'[c][i].class = objects[c][i].class
       /\ objects'[c][i].size = objects[c][i].size
       /\ objects'[c][i].parent = objects[c][i].parent
       /\ objects'[c][i].crop = objects[c][i].crop

LEMMA SameTargets ==
  ASSUME CascadeTypeOK, NEW c \in Source, SameObjects(c), NEW k,
         objects' \in [Source -> Seq(Object)], pass' = pass
  PROVE  Targets(c, k)' = Targets(c, k)
<1>1. DOMAIN objects[c] = 1 .. Len(objects[c]) /\ DOMAIN objects'[c] = 1 .. Len(objects'[c])
  BY DEF CascadeTypeOK
<1> QED
  BY <1>1 DEF Targets, Wanted, SameObjects

\* Attaching a result changes the results of one object, by that result.
LEMMA Attaches ==
  ASSUME CascadeTypeOK, Stages, NEW c \in Source, Attach(c), todo[c] # {}
  PROVE  /\ pass[c] # 1 /\ Target(c) \in 1 .. Len(objects[c])
         /\ objects' \in [Source -> Seq(Object)]
         /\ \A d \in Source \ {c} : objects'[d] = objects[d]
         /\ SameObjects(c)
         /\ \E result \in SUBSET {<<pass[c], buffer[pass[c]]>>} :
              /\ \A i \in 1 .. Len(objects[c]) :
                   objects'[c][i].results =
                     IF i = Target(c) THEN objects[c][i].results \cup result
                                      ELSE objects[c][i].results
              /\ Doing(c).kind = "embed" => result = {<<pass[c], buffer[pass[c]]>>}
<1>1. pass[c] # 1 /\ Target(c) \in 1 .. Len(objects[c])
  BY AttachedTo
<1>2. PICK result \in SUBSET {<<pass[c], buffer[pass[c]]>>} :
        /\ objects' = [objects EXCEPT ![c][Target(c)].results = @ \cup result]
        /\ Doing(c).kind = "embed" => result = {<<pass[c], buffer[pass[c]]>>}
  BY AttachedTo
<1> DEFINE T == Target(c)
           old == objects[c]
           obj == [old[T] EXCEPT !.results = @ \cup result]
           new == [old EXCEPT ![T] = obj]
<1>3. old \in Seq(Object) /\ Len(old) \in Nat /\ T \in 1 .. Len(old) /\ old[T] \in Object
  <2>1. old \in Seq(Object)
    BY DEF CascadeTypeOK
  <2> QED BY <1>1, <2>1
<1>4. result \in SUBSET (Nat \X Crop)
  <2>1. pass[c] \in 1 .. Len(Stage) /\ pass[c] \in Nat
    BY StageFacts DEF CascadeTypeOK
  <2>2. buffer[pass[c]] \in Crop
    BY <2>1 DEF CascadeTypeOK
  <2> QED BY <2>1, <2>2
<1>5. obj \in Object
  BY <1>3, <1>4 DEF Object
<1>6. new \in Seq(Object) /\ Len(new) = Len(old) /\ DOMAIN new = 1 .. Len(old)
  BY <1>3, <1>5
<1>7. objects' = [objects EXCEPT ![c] = new]
  BY <1>2
<1>8. objects' \in [Source -> Seq(Object)] /\ objects'[c] = new
      /\ \A d \in Source \ {c} : objects'[d] = objects[d]
  BY <1>6, <1>7 DEF CascadeTypeOK
<1>9. \A i \in 1 .. Len(old) : new[i] = IF i = T THEN obj ELSE old[i]
  BY <1>3
<1>10. /\ obj.component = old[T].component /\ obj.class = old[T].class
       /\ obj.size = old[T].size /\ obj.parent = old[T].parent /\ obj.crop = old[T].crop
       /\ obj.results = old[T].results \cup result
  BY <1>3 DEF Object
<1> HIDE DEF obj, new
<1>11. SameObjects(c)
  BY <1>6, <1>8, <1>9, <1>10 DEF SameObjects
<1>12. \A i \in 1 .. Len(old) :
         objects'[c][i].results =
           IF i = Target(c) THEN old[i].results \cup result ELSE old[i].results
  BY <1>8, <1>9, <1>10
<1> QED
  BY <1>1, <1>2, <1>8, <1>11, <1>12

\* The tracker changes nothing but which objects have an id.
LEMMA Tracks ==
  ASSUME CascadeTypeOK, NEW c \in Source, TrackObjects(c)
  PROVE  /\ objects' \in [Source -> Seq(Object)]
         /\ \A d \in Source \ {c} : objects'[d] = objects[d]
         /\ SameObjects(c)
         /\ \A i \in 1 .. Len(objects[c]) : objects'[c][i].results = objects[c][i].results
<1>1. PICK ids \in SUBSET Primary(c) :
        objects' = [objects EXCEPT ![c] = [i \in DOMAIN @ |-> [@[i] EXCEPT !.tracked = i \in ids]]]
  BY DEF TrackObjects
<1> DEFINE old == objects[c]
           new == [i \in DOMAIN old |-> [old[i] EXCEPT !.tracked = i \in ids]]
<1>2. old \in Seq(Object) /\ Len(old) \in Nat /\ DOMAIN old = 1 .. Len(old)
  BY DEF CascadeTypeOK
<1>3. \A i \in 1 .. Len(old) :
        /\ new[i] \in Object
        /\ new[i].component = old[i].component /\ new[i].class = old[i].class
        /\ new[i].size = old[i].size /\ new[i].parent = old[i].parent
        /\ new[i].crop = old[i].crop /\ new[i].results = old[i].results
  <2> TAKE i \in 1 .. Len(old)
  <2>1. old[i] \in Object /\ new[i] = [old[i] EXCEPT !.tracked = i \in ids]
    BY <1>2
  <2>2. (i \in ids) \in BOOLEAN
    OBVIOUS
  <2> QED BY <2>1, <2>2 DEF Object
<1>4. new \in Seq(Object) /\ Len(new) = Len(old)
  <2>1. new \in [1 .. Len(old) -> Object]
    BY <1>2, <1>3
  <2> QED BY <1>2, <2>1
<1>5. objects' = [objects EXCEPT ![c] = new]
  BY <1>1
<1> HIDE DEF new
<1>6. objects' \in [Source -> Seq(Object)] /\ objects'[c] = new
      /\ \A d \in Source \ {c} : objects'[d] = objects[d]
  BY <1>4, <1>5 DEF CascadeTypeOK
<1> QED
  BY <1>3, <1>4, <1>6 DEF SameObjects

-----------------------------------------------------------------------------
(* Every action of a camera's worker keeps the invariant. *)

\* The fields of the other cameras, which no action of a camera's worker touches.
Others(c) ==
  \A d \in Source \ {c} :
    /\ at'[d] = at[d] /\ frame'[d] = frame[d] /\ pass'[d] = pass[d]
    /\ objects'[d] = objects[d] /\ found'[d] = found[d] /\ todo'[d] = todo[d]

\* What the invariant says of one camera.
StagesOf(c) ==
  /\ IF Visiting(c) THEN lock = c /\ todo[c] \subseteq Targets(c, pass[c])
                    ELSE todo[c] = {} /\ found[c] = << >>
  /\ at[c] \in {"idle", "failed"} => objects[c] = << >>
FilledOf(c) ==
  at[c] = "run" => todo[c] # {} /\ buffer[pass[c]] = CropOf(c, Target(c))
ChildrenOf(c) ==
  \A i \in 1 .. Len(found[c]) :
    /\ found[c][i].crop = CropOf(c, found[c][i].parent)
    /\ found[c][i].results = {}
    /\ pass[c] # 1 => found[c][i].parent # 0
EmbeddedOf(c) ==
  \A i \in 1 .. Len(objects[c]) : LET o == objects[c][i] IN
    o.parent = 0 /\ Wanted(EmbeddingAt, o) /\ o.size = "large" /\ Passed(c, i)
      => <<EmbeddingAt, CropOf(c, i)>> \in o.results
PixelsOf(c) ==
  \A i \in 1 .. Len(objects[c]) :
    /\ objects[c][i].crop = CropOf(c, objects[c][i].parent)
    /\ \A r \in objects[c][i].results : r[2] = CropOf(c, i)
CameraOf(c) == StagesOf(c) /\ FilledOf(c) /\ ChildrenOf(c) /\ EmbeddedOf(c) /\ PixelsOf(c)

LEMMA ByCamera == CascadeInv <=> CascadeTypeOK /\ \A c \in Source : CameraOf(c)
BY DEF CascadeInv, CameraOf, Stages, Filled, Children, Embedded, Pixels,
       StagesOf, FilledOf, ChildrenOf, EmbeddedOf, PixelsOf

LEMMA CamerasKept ==
  ASSUME NEW c \in Source, CascadeTypeOK', CameraOf(c)', \A d \in Source \ {c} : CameraOf(d)'
  PROVE  CascadeInv'
<1>1. \A d \in Source : CameraOf(d)'
  OBVIOUS
<1> QED
  BY <1>1 DEF CascadeInv, CameraOf, Stages, Filled, Children, Embedded, Pixels,
              StagesOf, FilledOf, ChildrenOf, EmbeddedOf, PixelsOf

\* A step of one camera leaves the others' part of the invariant alone if it changes
\* the lock and the buffers only while no other camera is in a stage.
LEMMA OthersKept ==
  ASSUME CascadeInv, NEW c \in Source, Others(c),
         (lock' = lock /\ buffer' = buffer) \/ \A d \in Source \ {c} : ~ Visiting(d)
  PROVE  \A d \in Source \ {c} : CameraOf(d)'
<1> SUFFICES ASSUME NEW d \in Source \ {c} PROVE CameraOf(d)'
  OBVIOUS
<1>1. CameraOf(d)
  BY ByCamera
<1>2. Visiting(d)' <=> Visiting(d)
  BY DEF Others, Visiting
<1>3. Targets(d, pass[d])' = Targets(d, pass[d])
  BY DEF Others, Targets
<1>4. Target(d)' = Target(d)
  BY DEF Others, Target
<1>5. \A i : CropOf(d, i)' = CropOf(d, i)
  BY DEF Others, CropOf
<1>6. StagesOf(d)'
  BY <1>1, <1>2, <1>3 DEF CameraOf, StagesOf, Others
<1>7. FilledOf(d)'
  BY <1>1, <1>2, <1>4, <1>5 DEF CameraOf, FilledOf, Others, Visiting
<1>8. ChildrenOf(d)'
  BY <1>1, <1>5 DEF CameraOf, ChildrenOf, Others
<1>9. \A i : Passed(d, i)' <=> Passed(d, i)
  BY <1>2 DEF Passed, Others
<1>10. EmbeddedOf(d)'
  BY <1>1, <1>5, <1>9 DEF CameraOf, EmbeddedOf, Others, Wanted
<1>11. PixelsOf(d)'
  BY <1>1, <1>5 DEF CameraOf, PixelsOf, Others
<1> QED
  BY <1>6, <1>7, <1>8, <1>10, <1>11 DEF CameraOf

\* While one camera is in a stage no other is; while the lock is free, none is.
LEMMA NoOther ==
  ASSUME CascadeInv, NEW c \in Source, Visiting(c) \/ lock = Nobody
  PROVE  \A d \in Source \ {c} : ~ Visiting(d)
BY NobodyAssumption DEF CascadeInv, Stages

\* A camera that has no frame after a step satisfies its part.
LEMMA NothingHeld ==
  ASSUME NEW c \in Source, at'[c] \in Places \ {"stage", "run"},
         objects'[c] = << >>, found'[c] = << >>, todo'[c] = {}
  PROVE  CameraOf(c)'
<1>1. Len(objects'[c]) = 0 /\ Len(found'[c]) = 0
  OBVIOUS
<1> QED
  BY <1>1 DEF CameraOf, StagesOf, FilledOf, ChildrenOf, EmbeddedOf, PixelsOf, Visiting

LEMMA BeginFrameKept ==
  ASSUME CascadeInv, NEW c \in Source, BeginFrame(c)
  PROVE  CascadeInv'
<1>1. CascadeTypeOK'
  BY DEF CascadeInv, CascadeTypeOK, BeginFrame, Places
<1>2. \A d \in Source \ {c} : CameraOf(d)'
  <2>1. Others(c) /\ lock' = lock /\ buffer' = buffer
    BY DEF BeginFrame, Others, CascadeInv, CascadeTypeOK
  <2> QED BY <2>1, OthersKept
<1>3. CameraOf(c)'
  <2>1. objects[c] = << >> /\ found[c] = << >> /\ todo[c] = {}
    BY DEF BeginFrame, CascadeInv, Stages, Visiting
  <2>2. at'[c] = "waiting" /\ objects'[c] = << >> /\ found'[c] = << >> /\ todo'[c] = {}
    BY <2>1 DEF BeginFrame, CascadeInv, CascadeTypeOK
  <2> QED BY <2>2, NothingHeld DEF Places
<1> QED
  BY <1>1, <1>2, <1>3, CamerasKept

LEMMA EnterStageKept ==
  ASSUME CascadeInv, NEW c \in Source, EnterStage(c)
  PROVE  CascadeInv'
<1>1. objects[c] \in Seq(Object) /\ DOMAIN objects[c] = 1 .. Len(objects[c])
  BY DEF CascadeInv, CascadeTypeOK
<1>2. CascadeTypeOK'
  <2>1. Targets(c, pass[c]) \in SUBSET Nat
    BY <1>1 DEF Targets
  <2> QED BY <2>1 DEF CascadeInv, CascadeTypeOK, EnterStage, Places
<1>3. \A d \in Source \ {c} : CameraOf(d)'
  <2>1. Others(c)
    BY DEF EnterStage, Others, CascadeInv, CascadeTypeOK
  <2> QED BY <2>1, OthersKept, NoOther DEF EnterStage, Locked
<1>4. /\ at[c] = "waiting" /\ at'[c] = "stage" /\ lock' = c
      /\ todo'[c] = Targets(c, pass[c]) /\ UNCHANGED <<frame, pass, objects, found, buffer>>
  BY DEF EnterStage, CascadeInv, CascadeTypeOK
<1>5. CameraOf(c) /\ found[c] = << >>
  BY <1>4, ByCamera DEF CameraOf, StagesOf, Visiting
<1>6. StagesOf(c)' /\ FilledOf(c)' /\ ChildrenOf(c)' /\ PixelsOf(c)'
  BY <1>4, <1>5 DEF CameraOf, StagesOf, FilledOf, ChildrenOf, PixelsOf, Visiting, Targets, CropOf
<1>7. EmbeddedOf(c)'
  <2>1. ASSUME NEW i \in 1 .. Len(objects[c]), Wanted(EmbeddingAt, objects[c][i]), Passed(c, i)'
        PROVE  Passed(c, i)
    <3>1. CASE pass[c] = EmbeddingAt
      <4>1. i \in Targets(c, pass[c])
        BY <1>1, <2>1, <3>1, StageFacts DEF Targets
      <4> QED BY <1>4, <2>1, <3>1, <4>1, StageFacts DEF Passed
    <3>2. CASE pass[c] # EmbeddingAt
      BY <1>4, <2>1, <3>2 DEF Passed
    <3> QED BY <3>1, <3>2
  <2>2. \A i : CropOf(c, i)' = CropOf(c, i)
    BY <1>4 DEF CropOf
  <2> QED BY <1>4, <1>5, <2>1, <2>2 DEF CameraOf, EmbeddedOf, Wanted
<1> QED
  BY <1>2, <1>3, <1>6, <1>7, CamerasKept DEF CameraOf

LEMMA SkipObjectKept ==
  ASSUME CascadeInv, NEW c \in Source, SkipObject(c)
  PROVE  CascadeInv'
<1>1. CascadeTypeOK'
  BY DEF CascadeInv, CascadeTypeOK, SkipObject
<1>2. \A d \in Source \ {c} : CameraOf(d)'
  <2>1. Others(c) /\ lock' = lock /\ buffer' = buffer
    BY DEF SkipObject, Others, CascadeInv, CascadeTypeOK
  <2> QED BY <2>1, OthersKept
<1>3. /\ at[c] = "stage" /\ at'[c] = "stage" /\ objects[c][Target(c)].size = "outside"
      /\ todo'[c] = todo[c] \ {Target(c)}
      /\ UNCHANGED <<frame, pass, objects, found, lock, buffer>>
  BY DEF SkipObject, CascadeInv, CascadeTypeOK
<1>4. CameraOf(c)
  BY ByCamera
<1>5. StagesOf(c)' /\ FilledOf(c)' /\ ChildrenOf(c)' /\ PixelsOf(c)'
  BY <1>3, <1>4 DEF CameraOf, StagesOf, FilledOf, ChildrenOf, PixelsOf, Visiting, Targets, CropOf
<1>6. EmbeddedOf(c)'
  <2>1. ASSUME NEW i \in 1 .. Len(objects[c]), objects[c][i].size = "large", Passed(c, i)'
        PROVE  Passed(c, i)
    <3>1. i # Target(c)
      BY <1>3, <2>1
    <3> QED BY <1>3, <2>1, <3>1 DEF Passed, Visiting
  <2>2. \A i : CropOf(c, i)' = CropOf(c, i)
    BY <1>3 DEF CropOf
  <2> QED BY <1>3, <1>4, <2>1, <2>2 DEF CameraOf, EmbeddedOf, Wanted
<1> QED
  BY <1>1, <1>2, <1>5, <1>6, CamerasKept DEF CameraOf

LEMMA FillBufferKept ==
  ASSUME CascadeInv, NEW c \in Source, FillBuffer(c)
  PROVE  CascadeInv'
<1>0. CascadeTypeOK /\ Visiting(c) /\ pass[c] \in 1 .. Len(Stage)
  BY DEF CascadeInv, CascadeTypeOK, FillBuffer, Visiting
<1>1. Target(c) \in Nat
  BY <1>0, TargetIn DEF FillBuffer
<1>2. CropOf(c, Target(c)) \in Crop
  BY <1>0, <1>1 DEF CropOf, Crop, CascadeTypeOK
<1>3. CascadeTypeOK'
  BY <1>0, <1>2 DEF CascadeTypeOK, FillBuffer, Places
<1>4. \A d \in Source \ {c} : CameraOf(d)'
  <2>1. Others(c)
    BY DEF FillBuffer, Others, CascadeInv, CascadeTypeOK
  <2> QED BY <1>0, <2>1, OthersKept, NoOther
<1>5. /\ at[c] = "stage" /\ at'[c] = "run" /\ todo[c] # {}
      /\ buffer'[pass[c]] = CropOf(c, Target(c))
      /\ UNCHANGED <<frame, pass, objects, found, todo, lock>>
  BY <1>0 DEF FillBuffer, CascadeTypeOK
<1>6. CameraOf(c)
  BY ByCamera
<1>7. StagesOf(c)' /\ ChildrenOf(c)' /\ PixelsOf(c)'
  BY <1>5, <1>6 DEF CameraOf, StagesOf, ChildrenOf, PixelsOf, Visiting, Targets, CropOf
<1>8. FilledOf(c)'
  BY <1>5 DEF FilledOf, Target, CropOf
<1>9. EmbeddedOf(c)'
  <2>1. \A i : Passed(c, i)' <=> Passed(c, i)
    BY <1>5 DEF Passed, Visiting
  <2>2. \A i : CropOf(c, i)' = CropOf(c, i)
    BY <1>5 DEF CropOf
  <2> QED BY <1>5, <1>6, <2>1, <2>2 DEF CameraOf, EmbeddedOf, Wanted
<1> QED
  BY <1>3, <1>4, <1>7, <1>8, <1>9, CamerasKept DEF CameraOf

\* What running a model does, whatever is made of its output.
LEMMA RanFacts ==
  ASSUME CascadeInv, NEW c \in Source, Ran(c)
  PROVE  /\ Visiting(c) /\ Visiting(c)' /\ at[c] = "run" /\ at'[c] = "stage"
         /\ pass[c] \in 1 .. Len(Stage) /\ todo[c] # {}
         /\ Target(c) \in todo[c] /\ Target(c) \in Nat
         /\ buffer[pass[c]] = CropOf(c, Target(c))
         /\ todo'[c] = todo[c] \ {Target(c)} /\ lock' = lock /\ lock = c
         /\ frame' = frame /\ pass' = pass
         /\ at' \in [Source -> Places] /\ todo' \in [Source -> SUBSET Nat]
         /\ buffer' \in [1 .. Len(Stage) -> Crop]
         /\ \A d \in Source \ {c} : at'[d] = at[d] /\ todo'[d] = todo[d]
         /\ \A i : CropOf(c, i)' = CropOf(c, i)
<1>1. at[c] = "run" /\ Visiting(c) /\ pass[c] \in 1 .. Len(Stage)
  BY DEF Ran, Visiting, CascadeInv, CascadeTypeOK
<1>2. todo[c] # {} /\ buffer[pass[c]] = CropOf(c, Target(c))
  BY <1>1 DEF CascadeInv, Filled
<1>3. Target(c) \in todo[c] /\ Target(c) \in Nat
  BY <1>2, TargetIn DEF CascadeInv
<1>4. /\ at'[c] = "stage" /\ todo'[c] = todo[c] \ {Target(c)}
      /\ at' \in [Source -> Places] /\ todo' \in [Source -> SUBSET Nat]
      /\ \A d \in Source \ {c} : at'[d] = at[d] /\ todo'[d] = todo[d]
  BY DEF Ran, CascadeInv, CascadeTypeOK, Places
<1>5. buffer' \in [1 .. Len(Stage) -> Crop]
  BY <1>1 DEF Ran, CascadeInv, CascadeTypeOK, Crop
<1>6. lock = c
  BY <1>1 DEF CascadeInv, Stages
<1>7. frame' = frame /\ pass' = pass /\ lock' = lock
  BY DEF Ran
<1>8. \A i : CropOf(c, i)' = CropOf(c, i)
  BY <1>7 DEF CropOf
<1> QED
  BY <1>1, <1>2, <1>3, <1>4, <1>5, <1>6, <1>7, <1>8 DEF Visiting

LEMMA DetectKept ==
  ASSUME CascadeInv, NEW c \in Source, Detect(c)
  PROVE  CascadeInv'
<1>0. CascadeTypeOK /\ Stages /\ CameraOf(c) /\ Ran(c) /\ Doing(c).kind = "detect" /\ objects' = objects
  BY ByCamera DEF CascadeInv, Detect
<1>1. PICK new \in Seq(Object) :
        /\ found' = [found EXCEPT ![c] = @ \o new]
        /\ \A i \in 1 .. Len(new) :
             /\ new[i].parent = Target(c) /\ new[i].crop = buffer[pass[c]]
             /\ new[i].results = {}
  BY <1>0, RanFacts, FoundMore
<1>2. found[c] \in Seq(Object) /\ found'[c] = found[c] \o new /\ found'[c] \in Seq(Object)
      /\ found' \in [Source -> Seq(Object)] /\ \A d \in Source \ {c} : found'[d] = found[d]
  BY <1>0, <1>1 DEF CascadeTypeOK
<1>3. CascadeTypeOK'
  BY <1>0, <1>2, RanFacts DEF CascadeTypeOK
<1>4. \A d \in Source \ {c} : CameraOf(d)'
  <2>1. Others(c)
    BY <1>0, <1>2, RanFacts DEF Others
  <2> QED BY <1>0, <2>1, RanFacts, OthersKept, NoOther
<1>5. StagesOf(c)' /\ FilledOf(c)'
  BY <1>0, RanFacts DEF CameraOf, StagesOf, FilledOf, Targets, Visiting
<1>6. ChildrenOf(c)'
  <2> SUFFICES ASSUME NEW i \in 1 .. Len(found'[c])
               PROVE  /\ found'[c][i].crop = CropOf(c, found'[c][i].parent)
                      /\ found'[c][i].results = {}
                      /\ pass[c] # 1 => found'[c][i].parent # 0
    BY <1>0, RanFacts DEF ChildrenOf
  <2>1. CASE i \in 1 .. Len(found[c])
    <3>1. found'[c][i] = found[c][i]
      BY <1>1, <1>2, <2>1
    <3> QED BY <1>0, <2>1, <3>1 DEF CameraOf, ChildrenOf
  <2>2. CASE i \notin 1 .. Len(found[c])
    <3>1. /\ i - Len(found[c]) \in 1 .. Len(new)
          /\ found'[c][i] = new[i - Len(found[c])]
      BY <1>1, <1>2, <2>2
    <3>2. /\ found'[c][i].parent = Target(c) /\ found'[c][i].crop = CropOf(c, Target(c))
          /\ found'[c][i].results = {}
      BY <1>0, <1>1, <3>1, RanFacts
    <3>3. pass[c] # 1 => Target(c) # 0
      BY <1>0, RanFacts, Visited
    <3> QED BY <3>2, <3>3
  <2> QED BY <2>1, <2>2
<1>7. EmbeddedOf(c)'
  <2>1. pass[c] # EmbeddingAt
    BY <1>0, StageFacts DEF Doing
  <2>2. \A i : Passed(c, i)' => Passed(c, i)
    BY <1>0, <2>1, RanFacts DEF Passed
  <2> QED BY <1>0, <2>2, RanFacts DEF CameraOf, EmbeddedOf, Wanted
<1>8. PixelsOf(c)'
  BY <1>0, RanFacts DEF CameraOf, PixelsOf
<1> QED
  BY <1>3, <1>4, <1>5, <1>6, <1>7, <1>8, CamerasKept DEF CameraOf

LEMMA AttachKept ==
  ASSUME CascadeInv, NEW c \in Source, Attach(c)
  PROVE  CascadeInv'
<1>0. CascadeTypeOK /\ Stages /\ CameraOf(c) /\ Ran(c) /\ found' = found /\ todo[c] # {}
  BY ByCamera, RanFacts DEF CascadeInv, Attach
<1>1. /\ pass[c] # 1 /\ Target(c) \in 1 .. Len(objects[c])
      /\ objects' \in [Source -> Seq(Object)]
      /\ \A d \in Source \ {c} : objects'[d] = objects[d]
      /\ SameObjects(c)
  BY <1>0, Attaches
<1>2. PICK result \in SUBSET {<<pass[c], buffer[pass[c]]>>} :
        /\ \A i \in 1 .. Len(objects[c]) :
             objects'[c][i].results =
               IF i = Target(c) THEN objects[c][i].results \cup result
                                ELSE objects[c][i].results
        /\ Doing(c).kind = "embed" => result = {<<pass[c], buffer[pass[c]]>>}
  BY <1>0, Attaches
<1>3. CascadeTypeOK'
  BY <1>0, <1>1, RanFacts DEF CascadeTypeOK
<1>4. \A d \in Source \ {c} : CameraOf(d)'
  <2>1. Others(c)
    BY <1>0, <1>1, RanFacts DEF Others
  <2> QED BY <1>0, <2>1, RanFacts, OthersKept, NoOther
<1>5. Targets(c, pass[c])' = Targets(c, pass[c])
  <2>1. pass' = pass
    BY <1>0, RanFacts
  <2>2. \A k : Targets(c, k)' = Targets(c, k)
    BY <1>0, <1>1, <2>1, SameTargets
  <2> QED BY <2>1, <2>2
<1>6. StagesOf(c)' /\ FilledOf(c)' /\ ChildrenOf(c)'
  BY <1>0, <1>5, RanFacts DEF CameraOf, StagesOf, FilledOf, ChildrenOf
<1>7. PixelsOf(c)'
  <2> SUFFICES ASSUME NEW i \in 1 .. Len(objects[c])
               PROVE  /\ objects'[c][i].crop = CropOf(c, objects'[c][i].parent)
                      /\ \A r \in objects'[c][i].results : r[2] = CropOf(c, i)
    BY <1>0, <1>1, RanFacts DEF PixelsOf, SameObjects
  <2>1. objects'[c][i].crop = CropOf(c, objects'[c][i].parent)
    BY <1>0, <1>1 DEF CameraOf, PixelsOf, SameObjects
  <2>2. \A r \in objects[c][i].results : r[2] = CropOf(c, i)
    BY <1>0 DEF CameraOf, PixelsOf
  <2>3. \A r \in result : r[2] = CropOf(c, Target(c))
    BY <1>0, RanFacts
  <2> QED BY <1>2, <2>1, <2>2, <2>3
<1>8. EmbeddedOf(c)'
  <2> SUFFICES ASSUME NEW i \in 1 .. Len(objects[c]),
                      objects'[c][i].parent = 0, Wanted(EmbeddingAt, objects'[c][i]),
                      objects'[c][i].size = "large", Passed(c, i)'
               PROVE  <<EmbeddingAt, CropOf(c, i)>> \in objects'[c][i].results
    <3>1. Len(objects'[c]) = Len(objects[c]) /\ \A i : CropOf(c, i)' = CropOf(c, i)
      BY <1>0, <1>1, RanFacts DEF SameObjects
    <3> QED BY <3>1 DEF EmbeddedOf, Wanted
  <2>1. Passed(c, i) => <<EmbeddingAt, CropOf(c, i)>> \in objects[c][i].results
    BY <1>0, <1>1 DEF CameraOf, EmbeddedOf, SameObjects, Wanted
  <2>2. CASE pass[c] = EmbeddingAt /\ i = Target(c)
    <3>1. Doing(c).kind = "embed"
      BY <2>2, StageFacts DEF Doing
    <3>2. result = {<<EmbeddingAt, CropOf(c, i)>>}
      BY <1>0, <1>2, <2>2, <3>1, RanFacts
    <3> QED BY <1>2, <2>2, <3>2
  <2>3. CASE ~ (pass[c] = EmbeddingAt /\ i = Target(c))
    <3>1. Passed(c, i)
      BY <1>0, <2>3, RanFacts DEF Passed
    <3> QED BY <1>2, <2>1, <3>1
  <2> QED BY <2>2, <2>3
<1> QED
  BY <1>3, <1>4, <1>6, <1>7, <1>8, CamerasKept DEF CameraOf

LEMMA StageRaisesKept ==
  ASSUME CascadeInv, NEW c \in Source, StageRaises(c)
  PROVE  CascadeInv'
<1>1. CascadeTypeOK /\ pass[c] \in 1 .. Len(Stage)
  BY DEF CascadeInv, CascadeTypeOK
<1>2. CascadeTypeOK'
  <2>1. 1 \in 1 .. Len(Stage)
    BY StageFacts
  <2>2. buffer' \in [1 .. Len(Stage) -> Crop]
    BY <1>1 DEF CascadeTypeOK, StageRaises, Crop
  <2>3. << >> \in Seq(Object)
    OBVIOUS
  <2> QED BY <1>1, <2>1, <2>2, <2>3 DEF CascadeTypeOK, StageRaises, Places
<1>3. \A d \in Source \ {c} : CameraOf(d)'
  <2>1. Others(c)
    BY <1>1 DEF StageRaises, Others, CascadeTypeOK
  <2>2. CASE lock = c
    <3>1. \A d \in Source \ {c} : ~ Visiting(d)
      BY <2>2 DEF CascadeInv, Stages
    <3> QED BY <2>1, <3>1, OthersKept
  <2>3. CASE lock # c
    <3>1. lock' = lock /\ buffer' = buffer
      BY <2>3 DEF StageRaises, Visiting, CascadeInv, Stages
    <3> QED BY <2>1, <3>1, OthersKept
  <2> QED BY <2>2, <2>3
<1>4. CameraOf(c)'
  <2>1. at'[c] = "failed" /\ objects'[c] = << >> /\ found'[c] = << >> /\ todo'[c] = {}
    BY <1>1 DEF StageRaises, CascadeTypeOK
  <2> QED BY <2>1, NothingHeld DEF Places
<1> QED
  BY <1>2, <1>3, <1>4, CamerasKept

LEMMA PublishFrameKept ==
  ASSUME CascadeInv, NEW c \in Source, PublishFrame(c)
  PROVE  CascadeInv'
<1>1. CascadeTypeOK
  BY DEF CascadeInv
<1>2. CascadeTypeOK'
  <2>1. 1 \in 1 .. Len(Stage) /\ << >> \in Seq(Object)
    BY StageFacts
  <2> QED BY <1>1, <2>1 DEF CascadeTypeOK, PublishFrame, Places
<1>3. \A d \in Source \ {c} : CameraOf(d)'
  <2>1. Others(c) /\ lock' = lock /\ buffer' = buffer
    BY <1>1 DEF PublishFrame, Others, CascadeTypeOK
  <2> QED BY <2>1, OthersKept
<1>4. CameraOf(c)'
  <2>1. found[c] = << >> /\ todo[c] = {}
    BY DEF PublishFrame, CascadeInv, Stages, Visiting
  <2>2. at'[c] = "idle" /\ objects'[c] = << >> /\ found'[c] = << >> /\ todo'[c] = {}
    BY <1>1, <2>1 DEF PublishFrame, CascadeTypeOK
  <2> QED BY <2>2, NothingHeld DEF Places
<1> QED
  BY <1>2, <1>3, <1>4, CamerasKept

LEMMA TrackObjectsKept ==
  ASSUME CascadeInv, NEW c \in Source, TrackObjects(c)
  PROVE  CascadeInv'
<1>0. CascadeTypeOK /\ CameraOf(c) /\ at[c] = "track" /\ at' = [at EXCEPT ![c] = "waiting"]
      /\ UNCHANGED <<frame, pass, found, todo, lock, buffer>>
  BY ByCamera DEF CascadeInv, TrackObjects
<1>1. /\ objects' \in [Source -> Seq(Object)]
      /\ \A d \in Source \ {c} : objects'[d] = objects[d]
      /\ SameObjects(c)
      /\ \A i \in 1 .. Len(objects[c]) : objects'[c][i].results = objects[c][i].results
  BY <1>0, Tracks
<1>2. CascadeTypeOK'
  BY <1>0, <1>1 DEF CascadeTypeOK, Places
<1>3. \A d \in Source \ {c} : CameraOf(d)'
  <2>1. Others(c)
    BY <1>0, <1>1 DEF Others, CascadeTypeOK
  <2> QED BY <1>0, <2>1, OthersKept
<1>4. at'[c] = "waiting"
  BY <1>0 DEF CascadeTypeOK
<1>5. StagesOf(c)' /\ FilledOf(c)'
  BY <1>0, <1>4 DEF CameraOf, StagesOf, FilledOf, Visiting
<1>6. \A i : CropOf(c, i)' = CropOf(c, i)
  BY <1>0 DEF CropOf
<1>7. ChildrenOf(c)'
  BY <1>0, <1>6 DEF CameraOf, ChildrenOf
<1>8. PixelsOf(c)'
  <2> SUFFICES ASSUME NEW i \in 1 .. Len(objects[c])
               PROVE  /\ objects'[c][i].crop = CropOf(c, objects'[c][i].parent)
                      /\ \A r \in objects'[c][i].results : r[2] = CropOf(c, i)
    BY <1>1, <1>6 DEF PixelsOf, SameObjects
  <2>1. objects'[c][i].crop = CropOf(c, objects'[c][i].parent)
    BY <1>0, <1>1 DEF CameraOf, PixelsOf, SameObjects
  <2>2. \A r \in objects'[c][i].results : r[2] = CropOf(c, i)
    BY <1>0, <1>1 DEF CameraOf, PixelsOf
  <2> QED BY <2>1, <2>2
<1>9. EmbeddedOf(c)'
  <2>1. \A i : Passed(c, i)' => Passed(c, i)
    BY <1>0, <1>4 DEF Passed, Visiting
  <2> SUFFICES ASSUME NEW i \in 1 .. Len(objects[c]),
                      objects'[c][i].parent = 0, Wanted(EmbeddingAt, objects'[c][i]),
                      objects'[c][i].size = "large", Passed(c, i)'
               PROVE  <<EmbeddingAt, CropOf(c, i)>> \in objects'[c][i].results
    BY <1>1, <1>6 DEF EmbeddedOf, SameObjects, Wanted
  <2> QED BY <1>0, <1>1, <2>1 DEF CameraOf, EmbeddedOf, SameObjects, Wanted
<1> QED
  BY <1>2, <1>3, <1>5, <1>7, <1>8, <1>9, CamerasKept DEF CameraOf

LEMMA Appended ==
  ASSUME NEW S, NEW s \in Seq(S), NEW t \in Seq(S), NEW i \in 1 .. Len(s \o t)
  PROVE  \/ i \in 1 .. Len(s) /\ (s \o t)[i] = s[i]
         \/ i - Len(s) \in 1 .. Len(t) /\ (s \o t)[i] = t[i - Len(s)]
<1>1. Len(s \o t) = Len(s) + Len(t) /\ Len(s) \in Nat /\ Len(t) \in Nat /\ i \in Nat
  OBVIOUS
<1>2. CASE i <= Len(s)
  BY <1>1, <1>2
<1>3. CASE ~ (i <= Len(s))
  BY <1>1, <1>3
<1> QED
  BY <1>2, <1>3

LEMMA LeaveStageKept ==
  ASSUME CascadeInv, NEW c \in Source, LeaveStage(c)
  PROVE  CascadeInv'
<1>0. /\ CascadeTypeOK /\ CameraOf(c) /\ at[c] = "stage" /\ Visiting(c) /\ todo[c] = {}
      /\ lock' = Nobody /\ buffer' = buffer /\ frame' = frame /\ todo' = todo
      /\ objects' = [objects EXCEPT ![c] = @ \o found[c]]
      /\ found' = [found EXCEPT ![c] = << >>]
  BY ByCamera DEF CascadeInv, LeaveStage, Visiting
<1> DEFINE old == objects[c]
           new == found[c]
<1>1. /\ old \in Seq(Object) /\ new \in Seq(Object) /\ Len(old) \in Nat /\ Len(new) \in Nat
      /\ objects'[c] = old \o new /\ objects' \in [Source -> Seq(Object)]
      /\ \A d \in Source \ {c} : objects'[d] = objects[d]
      /\ found'[c] = << >> /\ found' \in [Source -> Seq(Object)]
      /\ \A d \in Source \ {c} : found'[d] = found[d]
  <2>1. old \in Seq(Object) /\ new \in Seq(Object) /\ Len(old) \in Nat /\ Len(new) \in Nat
    BY <1>0 DEF CascadeTypeOK
  <2>2. old \o new \in Seq(Object) /\ << >> \in Seq(Object)
    BY <2>1
  <2> QED BY <1>0, <2>1, <2>2 DEF CascadeTypeOK
<1>2. /\ pass[c] \in 1 .. Len(Stage) /\ pass' \in [Source -> 1 .. Len(Stage)]
      /\ at'[c] \in {"track", "waiting", "publish"} /\ at' \in [Source -> Places]
      /\ \A d \in Source \ {c} : pass'[d] = pass[d] /\ at'[d] = at[d]
  <2>1. Len(Stage) \in Nat /\ pass[c] \in 1 .. Len(Stage)
    BY <1>0, StageFacts DEF CascadeTypeOK
  <2>2. CASE pass[c] < Len(Stage)
    <3>1. pass[c] + 1 \in 1 .. Len(Stage)
      BY <2>1, <2>2
    <3> QED BY <1>0, <2>1, <2>2, <3>1 DEF LeaveStage, CascadeTypeOK, Places
  <2>3. CASE ~ (pass[c] < Len(Stage))
    BY <1>0, <2>1, <2>3 DEF LeaveStage, CascadeTypeOK, Places
  <2> QED BY <2>2, <2>3
<1>3. CascadeTypeOK'
  BY <1>0, <1>1, <1>2 DEF CascadeTypeOK
<1>4. \A d \in Source \ {c} : CameraOf(d)'
  <2>1. Others(c)
    BY <1>0, <1>1, <1>2 DEF Others
  <2> QED BY <1>0, <2>1, OthersKept, NoOther
<1>5. StagesOf(c)' /\ FilledOf(c)' /\ ChildrenOf(c)'
  <2>1. Len(found'[c]) = 0
    BY <1>1
  <2> QED BY <1>0, <1>1, <1>2, <2>1 DEF StagesOf, FilledOf, ChildrenOf, Visiting
<1>6. \A i : CropOf(c, i)' = CropOf(c, i)
  BY <1>0 DEF CropOf
\* What was an object stays it, what is new is one of the children.
<1>7. \A i \in 1 .. Len(objects'[c]) :
        \/ i \in 1 .. Len(old) /\ objects'[c][i] = old[i]
        \/ i - Len(old) \in 1 .. Len(new) /\ objects'[c][i] = new[i - Len(old)]
  <2>1. \A i \in 1 .. Len(old \o new) :
          \/ i \in 1 .. Len(old) /\ (old \o new)[i] = old[i]
          \/ i - Len(old) \in 1 .. Len(new) /\ (old \o new)[i] = new[i - Len(old)]
    <3>1. old \in Seq(Object) /\ new \in Seq(Object)
      BY <1>1
    <3> HIDE DEF old, new
    <3> QED BY <3>1, Appended
  <2> QED BY <1>1, <2>1
<1>8. PixelsOf(c)'
  <2> SUFFICES ASSUME NEW i \in 1 .. Len(objects'[c])
               PROVE  /\ objects'[c][i].crop = CropOf(c, objects'[c][i].parent)
                      /\ \A r \in objects'[c][i].results : r[2] = CropOf(c, i)
    BY <1>6 DEF PixelsOf
  <2> QED BY <1>0, <1>7 DEF CameraOf, PixelsOf, ChildrenOf
<1>9. EmbeddedOf(c)'
  <2> SUFFICES ASSUME NEW i \in 1 .. Len(objects'[c]),
                      objects'[c][i].parent = 0, Wanted(EmbeddingAt, objects'[c][i]),
                      objects'[c][i].size = "large", Passed(c, i)'
               PROVE  <<EmbeddingAt, CropOf(c, i)>> \in objects'[c][i].results
    BY <1>6 DEF EmbeddedOf, Wanted
  \* A step that passes the embedding stage was in it or behind it.
  <2>1. Passed(c, i) /\ pass[c] # 1
    <3>1. CASE pass[c] < Len(Stage)
      <4>1. pass'[c] = pass[c] + 1 /\ at'[c] # "publish"
        BY <1>0, <3>1 DEF LeaveStage, CascadeTypeOK
      <4>2. pass'[c] > EmbeddingAt
        BY <1>2, <4>1 DEF Passed, Visiting
      <4> QED BY <1>0, <1>2, <4>1, <4>2, StageFacts DEF Passed
    <3>2. CASE ~ (pass[c] < Len(Stage))
      BY <1>0, <1>2, <3>2, StageFacts DEF Passed
    <3> QED BY <3>1, <3>2
  <2>2. i \in 1 .. Len(old) /\ objects'[c][i] = old[i]
    BY <1>0, <1>7, <2>1 DEF CameraOf, ChildrenOf
  <2> QED BY <1>0, <2>1, <2>2 DEF CameraOf, EmbeddedOf
<1> QED
  BY <1>3, <1>4, <1>5, <1>8, <1>9, CamerasKept DEF CameraOf

LEMMA CascadeKept ==
  ASSUME CascadeInv, NEW c \in Source, CascadeStep(c)
  PROVE  CascadeInv'
BY BeginFrameKept, EnterStageKept, SkipObjectKept, FillBufferKept, DetectKept, AttachKept,
   StageRaisesKept, LeaveStageKept, TrackObjectsKept, PublishFrameKept DEF CascadeStep

\* A process that ends, and one that begins, has no frame anywhere.
LEMMA NoFramesYet ==
  ASSUME at = [c \in Source |-> "idle"], frame = [c \in Source |-> 0],
         pass = [c \in Source |-> 1],
         objects = [c \in Source |-> << >>], found = [c \in Source |-> << >>],
         todo = [c \in Source |-> {}],
         lock = Nobody, buffer = [k \in DOMAIN Stage |-> << >>]
  PROVE  CascadeInv
<1>1. CascadeTypeOK
  <2>1. << >> \in Seq(Object) /\ << >> \in Crop
    BY DEF Crop
  <2> QED BY <2>1, StageFacts DEF CascadeTypeOK, Places
<1>2. \A c \in Source : CameraOf(c)
  <2> TAKE c \in Source
  <2>1. Len(objects[c]) = 0 /\ Len(found[c]) = 0 /\ at[c] = "idle"
    OBVIOUS
  <2> QED BY <2>1 DEF CameraOf, StagesOf, FilledOf, ChildrenOf, EmbeddedOf, PixelsOf, Visiting
<1> QED
  BY <1>1, <1>2, ByCamera

LEMMA NoFramesNext ==
  ASSUME at' = [c \in Source |-> "idle"], frame' = [c \in Source |-> 0],
         pass' = [c \in Source |-> 1],
         objects' = [c \in Source |-> << >>], found' = [c \in Source |-> << >>],
         todo' = [c \in Source |-> {}],
         lock' = Nobody, buffer' = [k \in DOMAIN Stage |-> << >>]
  PROVE  CascadeInv'
<1>1. CascadeTypeOK'
  <2>1. << >> \in Seq(Object) /\ << >> \in Crop
    BY DEF Crop
  <2> QED BY <2>1, StageFacts DEF CascadeTypeOK, Places
<1>2. \A c \in Source : CameraOf(c)'
  <2> TAKE c \in Source
  <2>1. /\ at'[c] = "idle" /\ objects'[c] = << >> /\ found'[c] = << >> /\ todo'[c] = {}
    OBVIOUS
  <2> QED BY <2>1, NothingHeld DEF Places
<1> QED
  BY <1>1, <1>2 DEF CascadeInv, CameraOf, Stages, Filled, Children, Embedded, Pixels,
                    StagesOf, FilledOf, ChildrenOf, EmbeddedOf, PixelsOf

LEMMA CascadeUnchanged ==
  ASSUME CascadeInv, UNCHANGED cascadeVars
  PROVE  CascadeInv'
<1>1. UNCHANGED <<at, frame, pass, objects, found, todo, lock, buffer>>
  BY DEF cascadeVars
<1>2. \A c \in Source : CameraOf(c)'
  <2> TAKE c \in Source
  <2>1. CameraOf(c)
    BY ByCamera
  <2>2. Target(c)' = Target(c) /\ Targets(c, pass[c])' = Targets(c, pass[c])
    BY <1>1 DEF Target, Targets
  <2>3. \A i : (CropOf(c, i)' = CropOf(c, i)) /\ (Passed(c, i)' <=> Passed(c, i))
    BY <1>1 DEF CropOf, Passed, Visiting
  <2>4. StagesOf(c)' /\ FilledOf(c)'
    BY <1>1, <2>1, <2>2, <2>3 DEF CameraOf, StagesOf, FilledOf, Visiting
  <2>5. ChildrenOf(c)' /\ PixelsOf(c)'
    BY <1>1, <2>1, <2>3 DEF CameraOf, ChildrenOf, PixelsOf
  <2>6. EmbeddedOf(c)'
    BY <1>1, <2>1, <2>3 DEF CameraOf, EmbeddedOf, Wanted
  <2> QED BY <2>4, <2>5, <2>6 DEF CameraOf
<1>3. CascadeTypeOK'
  BY <1>1 DEF CascadeInv, CascadeTypeOK
<1> QED
  BY <1>2, <1>3 DEF CascadeInv, CameraOf, Stages, Filled, Children, Embedded, Pixels,
                    StagesOf, FilledOf, ChildrenOf, EmbeddedOf, PixelsOf

-----------------------------------------------------------------------------
(* The theorems about cache and stages. *)

LEMMA CascadeStepKept ==
  ASSUME CacheInv, CascadeInv, [Next]_stageVars
  PROVE  CacheInv' /\ CascadeInv'
<1>1. ASSUME NEW c \in Source, CascadeStep(c), UNCHANGED cacheVars
      PROVE  CacheInv' /\ CascadeInv'
  BY <1>1, CacheKept, CascadeKept
<1>2. ASSUME NEW p \in Proc, ProcessStep(p)
      PROVE  CacheInv' /\ CascadeInv'
  <2>1. CacheInv'
    <3>1. CacheStep(p)
      BY <1>2 DEF ProcessStep
    <3> QED BY <3>1, CacheKept
  <2>2. CascadeInv'
    <3>1. CASE p = Me /\ step'[p] = "down" /\ step[p] = "ready"
      BY <1>2, <3>1, NoFramesNext DEF ProcessStep
    <3>2. CASE ~ (p = Me /\ step'[p] = "down" /\ step[p] = "ready")
      <4>1. UNCHANGED cascadeVars
        BY <1>2, <3>2 DEF ProcessStep
      <4> QED BY <4>1, CascadeUnchanged
    <3> QED BY <3>1, <3>2
  <2> QED BY <2>1, <2>2
<1>3. CASE UNCHANGED stageVars
  BY <1>3, CacheKept, CascadeUnchanged DEF stageVars
<1> QED
  BY <1>1, <1>2, <1>3 DEF Next

LEMMA CascadeInvariant == Spec => [](CacheInv /\ CascadeInv)
<1>1. Init => CacheInv /\ CascadeInv
  BY CacheStarts, NoFramesYet DEF Init, CascadeInit
<1>2. CacheInv /\ CascadeInv /\ [Next]_stageVars => (CacheInv /\ CascadeInv)'
  BY CascadeStepKept
<1> QED
  BY <1>1, <1>2, PTL DEF Spec

\* The files, the processes' ways through prepare(), and the workers' ways through
\* the stages keep their types.
THEOREM StagesTyped == Spec => [](CacheTypeOK /\ CascadeTypeOK)
<1>1. CacheInv /\ CascadeInv => CacheTypeOK /\ CascadeTypeOK
  BY DEF CacheInv, CascadeInv
<1> QED
  BY <1>1, CascadeInvariant, PTL

\* compile_or_load: a cache shared by any number of processes, any of which may
\* crash at any point or fail to write, never costs a process a program whose model
\* file is given.
THEOREM CacheIsBestEffort == Spec => []BestEffort
<1>1. CacheInv => BestEffort
  BY DEF CacheInv
<1> QED
  BY <1>1, CascadeInvariant, PTL

\* _infer_lock over DeviceModel: whatever the other cameras do, an object is found in
\* the crop of its parent and a result computed from the crop of its object.
THEOREM PixelsAreOwn == Spec => []OwnPixels
<1>1. CascadeInv => OwnPixels
  <2> SUFFICES ASSUME CascadeInv, NEW c \in Source, NEW i \in DOMAIN objects[c]
               PROVE  /\ objects[c][i].crop = CropOf(c, objects[c][i].parent)
                      /\ \A r \in objects[c][i].results : r[2] = CropOf(c, i)
    BY DEF OwnPixels
  <2>1. i \in 1 .. Len(objects[c])
    BY DEF CascadeInv, CascadeTypeOK
  <2> QED BY <2>1 DEF CascadeInv, Pixels
<1> QED
  BY <1>1, CascadeInvariant, PTL

\* LPRStage gets the embedding of every vehicle that has a crop, and reads of plates
\* that were found in that vehicle only.
THEOREM EvidenceIsWhole == Spec => []EvidenceWhole
<1>1. CascadeInv => EvidenceWhole
  <2> SUFFICES ASSUME CascadeInv, NEW c \in Source, at[c] = "publish", NEW i \in Vehicles(c)
               PROVE  /\ Wanted(EmbeddingAt, objects[c][i]) /\ objects[c][i].size = "large"
                           => Evidence(c, i).embedding = {CropOf(c, i)}
                      /\ \A crop \in Evidence(c, i).plates :
                           \E j \in DOMAIN objects[c] :
                             crop = CropOf(c, j) /\ objects[c][j].crop = CropOf(c, i)
    BY DEF EvidenceWhole
  <2>1. /\ DOMAIN objects[c] = 1 .. Len(objects[c])
        /\ \A j \in 1 .. Len(objects[c]) :
             objects[c][j].results \in SUBSET (Nat \X Crop)
    <3>1. objects[c] \in Seq(Object)
      BY DEF CascadeInv, CascadeTypeOK
    <3>2. \A j \in 1 .. Len(objects[c]) : objects[c][j] \in Object
      BY <3>1
    <3> QED BY <3>1, <3>2 DEF Object
  <2>2. i \in 1 .. Len(objects[c]) /\ objects[c][i].parent = 0
    BY <2>1 DEF Vehicles, Primary
  <2>3. \A k : \A j \in 1 .. Len(objects[c]) : ResultsOf(objects[c][j], k) \subseteq {CropOf(c, j)}
    BY DEF CascadeInv, Pixels, ResultsOf
  <2>4. ASSUME Wanted(EmbeddingAt, objects[c][i]), objects[c][i].size = "large"
        PROVE  Evidence(c, i).embedding = {CropOf(c, i)}
    <3>1. <<EmbeddingAt, CropOf(c, i)>> \in objects[c][i].results
      BY <2>2, <2>4 DEF CascadeInv, Embedded, Passed
    <3>2. CropOf(c, i) \in ResultsOf(objects[c][i], EmbeddingAt)
      BY <3>1 DEF ResultsOf
    <3> QED BY <2>2, <2>3, <3>2 DEF Evidence
  <2>5. ASSUME NEW crop \in Evidence(c, i).plates
        PROVE  \E j \in DOMAIN objects[c] :
                 crop = CropOf(c, j) /\ objects[c][j].crop = CropOf(c, i)
    <3>1. PICK j \in DOMAIN objects[c] :
            objects[c][j].parent = i /\ crop \in ResultsOf(objects[c][j], OcrAt)
      BY <2>5 DEF Evidence, PlateReads
    <3>2. crop = CropOf(c, j) /\ objects[c][j].crop = CropOf(c, i)
      BY <2>1, <2>3, <3>1 DEF CascadeInv, Pixels
    <3> QED BY <3>2
  <2> QED BY <2>4, <2>5
<1> QED
  BY <1>1, CascadeInvariant, PTL

=============================================================================
