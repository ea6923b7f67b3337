-------------------------- MODULE PlateRecognition --------------------------
(***************************************************************************)
(* Plates and vehicles of the advanced pipeline: LPRStage, PlateVoter and  *)
(* VehicleReID of advanced/lpr.py.                                         *)
(*                                                                         *)
(* Every camera's worker runs LPRStage.process for its own tracks, outside *)
(* the inference lock; the registry of vehicles (_records and the matrix   *)
(* rebuilt from it) is shared by all workers without a lock.  A step of a  *)
(* worker is what it does between two reads or writes of the registry.     *)
(* run() saves the registry when the workers it joined have ended; the     *)
(* process may end or be killed at any time, and its successor loads it.   *)
(*                                                                         *)
(* An embedding is abstracted to the look of the vehicle: two embeddings   *)
(* are within the similarity threshold when their looks are equal, and the *)
(* average of different looks may be any look.  A record is averaged with  *)
(* embeddings of its own look only, so its look stays; that embeddings     *)
(* which are similar pairwise may carry it away from where it began is     *)
(* left out, and so is a second worker of one camera.                      *)
(***************************************************************************)
EXTENDS Naturals, Sequences, FiniteSets, Functions

CONSTANTS
  Camera,      \* camera ids, a worker each
  Left,        \* cameras removed while their worker runs: run() joins them not
  TrackId,     \* ids a camera's tracker hands out
  Look, Plate, \* what embeddings and plate reads tell
  VehicleId,   \* ids uuid4 draws from: six digits of it, so they may collide
  MinReads,    \* min_plate_reads
  ToAverage,   \* EMBEDDINGS_TO_AVERAGE
  MaxFrames,   \* bound: frames of a camera in the first process, the second ...
  MaxBoots     \* bound: starts of the process

ASSUME LprAssumption ==
  /\ Left \subseteq Camera
  /\ MinReads \in Nat \ {0} /\ ToAverage \in Nat \ {0}
  /\ MaxBoots \in Nat \ {0} /\ MaxFrames \in [Camera -> [1 .. MaxBoots -> Nat]]

None == "none"
ASSUME NoneAssumption == None \notin Plate \cup VehicleId \cup Look

Track == Camera \X TrackId
Record == [id : VehicleId, look : Look, plate : Plate \cup {None}]

VARIABLES
  reads,     \* PlateVoter._track_reads
  looks,     \* _track_embeddings, as looks
  vehicle,   \* _track_vehicle_ids
  records,   \* VehicleReID._records
  matrix,    \* VehicleReID._matrix, a row per record, as looks
  pc,        \* where a camera's worker is
  job,       \* its locals in process and lookup_or_create
  frames,    \* frames a camera has had in this process
  saved,     \* what embeddings.json held when its last write was complete
  snapshot,  \* the records that save() has serialized
  save,      \* "no", save() is "dumping" records or "writing" them, which
             \* empties the file first, "done"; "down": the file is cut off
  boots      \* starts of the process

registry == <<records, matrix>>
tracks == <<reads, looks, vehicle>>
disk == <<saved, snapshot, save>>
vars == <<tracks, registry, pc, job, frames, disk, boots>>

Busy == {"lookup", "create", "rebuild", "store", "check", "write"}
JobOf(t, plate, look, id) ==
  [track |-> t, plate |-> plate, look |-> look, id |-> id, rows |-> << >>, at |-> 0]
NoJob == JobOf(<< >>, None, None, None)
Locals == [track : Track \cup {<< >>}, plate : Plate \cup {None},
           look : Look \cup {None}, id : VehicleId \cup {None},
           rows : Seq(Look), at : Nat]

LooksOf(recs) == [i \in DOMAIN recs |-> recs[i].look]

\* PlateVoter.vote: the most common read, among equals the one read first.
Votes(s, p) == Cardinality({i \in DOMAIN s : s[i] = p})
MostCommon(s) ==
  s[CHOOSE i \in DOMAIN s :
      \A j \in DOMAIN s : IF j < i THEN Votes(s, s[j]) < Votes(s, s[i])
                                   ELSE Votes(s, s[j]) <= Votes(s, s[i])]
\* Fault: the first read is enough.
Vote_First(s) == IF s = << >> THEN None ELSE MostCommon(s)
Vote(s) == IF Len(s) < MinReads THEN None ELSE MostCommon(s)

\* What the average of the first embeddings of a track may look like.
Averages(s) ==
  LET first == {s[i] : i \in 1 .. ToAverage} IN
  IF \E l \in first : first = {l} THEN first ELSE Look

-----------------------------------------------------------------------------
NoSeqs == [t \in Track |-> << >>]
NoIds == [t \in Track |-> None]
AllIdle == [c \in Camera |-> "idle"]
NoJobs == [c \in Camera |-> NoJob]
NoFrames == [c \in Camera |-> 0]

LprInit ==
  /\ reads = NoSeqs /\ looks = NoSeqs /\ vehicle = NoIds
  /\ records = << >> /\ matrix = << >>
  /\ pc = AllIdle /\ job = NoJobs /\ frames = NoFrames
  /\ saved = << >> /\ snapshot = << >> /\ save = "no"
  /\ boots = 1

\* The worker is through with the vehicle.
Processed(c) ==
  /\ pc' = [pc EXCEPT ![c] = "idle"]
  /\ job' = [job EXCEPT ![c] = NoJob]

\* One vehicle of a frame, up to the registry: a confident read is added to
\* the votes, an embedding to the track's; the first ToAverage of a track that
\* has no identity are looked up.
Process(c, t, read, look) ==
  /\ pc[c] = "idle" /\ t[1] = c
  /\ frames[c] < MaxFrames[c][boots]
  /\ frames' = [frames EXCEPT ![c] = @ + 1]
  /\ reads' = IF read = None THEN reads
              ELSE [reads EXCEPT ![t] = Append(@, read)]
  /\ looks' = IF look = None THEN looks
              ELSE [looks EXCEPT ![t] = Append(@, look)]
  /\ LET plate == Vote(reads'[t]) IN
     \/ /\ look # None /\ vehicle[t] = None /\ Len(looks'[t]) >= ToAverage
        /\ \E average \in Averages(looks'[t]) :
             job' = [job EXCEPT ![c] = JobOf(t, plate, average, None)]
        /\ pc' = [pc EXCEPT ![c] = "lookup"]
     \/ /\ look = None \/ vehicle[t] # None \/ Len(looks'[t]) < ToAverage
        /\ IF look = None \/ vehicle[t] = None \/ plate = None
           THEN UNCHANGED <<pc, job>>
           ELSE /\ pc' = [pc EXCEPT ![c] = "check"]
                /\ job' = [job EXCEPT ![c] = JobOf(t, plate, None, vehicle[t])]
  /\ UNCHANGED <<vehicle, registry, disk, boots>>

\* Fault: the newest vehicle is taken, near or not.
Hits_Newest(l) == {i \in DOMAIN matrix : i = Len(matrix)}

\* lookup_or_create: the nearest row of the matrix, if it is near enough.
Hits(l) == {i \in DOMAIN matrix : matrix[i] = l}

Found(c) ==
  /\ pc[c] = "lookup"
  /\ records # << >>
  /\ Hits(job[c].look) # {}
  /\ LET i == CHOOSE i \in Hits(job[c].look) :
                \A j \in Hits(job[c].look) : i <= j IN
     job' = [job EXCEPT ![c].id = records[i].id]
  /\ pc' = [pc EXCEPT ![c] = "rebuild"]
  /\ UNCHANGED <<tracks, registry, frames, disk, boots>>

NotFound(c) ==
  /\ pc[c] = "lookup"
  /\ records # << >> => matrix # << >>
  /\ Hits(job[c].look) = {}
  /\ pc' = [pc EXCEPT ![c] = "create"]
  /\ UNCHANGED <<tracks, registry, job, frames, disk, boots>>

\* argmax of no rows raises: the first record is there, its matrix is not yet.
\* The worker of the camera ends, the track keeps no identity.
LookupRaises(c) ==
  /\ pc[c] = "lookup"
  /\ records # << >> /\ matrix = << >>
  /\ pc' = [pc EXCEPT ![c] = "ended"]
  /\ UNCHANGED <<tracks, registry, job, frames, disk, boots>>

\* _create
Create(c, v) ==
  /\ pc[c] = "create"
  /\ records' = Append(records, [id |-> v, look |-> job[c].look, plate |-> None])
  /\ job' = [job EXCEPT ![c].id = v]
  /\ pc' = [pc EXCEPT ![c] = "rebuild"]
  /\ UNCHANGED <<tracks, matrix, frames, disk, boots>>

\* _rebuild reads every record, and then replaces the matrix.
Rebuild(c) ==
  /\ pc[c] = "rebuild"
  /\ job' = [job EXCEPT ![c].rows = LooksOf(records)]
  /\ pc' = [pc EXCEPT ![c] = "store"]
  /\ UNCHANGED <<tracks, registry, frames, disk, boots>>

Store(c) ==
  /\ pc[c] = "store"
  /\ matrix' = job[c].rows
  /\ vehicle' = [vehicle EXCEPT ![job[c].track] = job[c].id]
  /\ IF job[c].plate = None THEN Processed(c)
     ELSE /\ pc' = [pc EXCEPT ![c] = "check"]
          /\ job' = [job EXCEPT ![c].rows = << >>]
  /\ UNCHANGED <<reads, looks, records, frames, disk, boots>>

\* update_plate: the first record of that id without a plate gets one.
Plateless(v) == {i \in DOMAIN records : records[i].id = v /\ records[i].plate = None}

CheckPlate(c) ==
  /\ pc[c] = "check"
  /\ \/ /\ Plateless(job[c].id) = {}
        /\ Processed(c)
     \/ /\ Plateless(job[c].id) # {}
        /\ pc' = [pc EXCEPT ![c] = "write"]
        /\ job' = [job EXCEPT ![c].at =
             CHOOSE i \in Plateless(job[c].id) :
               \A j \in Plateless(job[c].id) : i <= j]
  /\ UNCHANGED <<tracks, registry, frames, disk, boots>>

WritePlate(c) ==
  /\ pc[c] = "write"
  /\ records' = [records EXCEPT ![job[c].at].plate = job[c].plate]
  /\ Processed(c)
  /\ UNCHANGED <<tracks, matrix, frames, disk, boots>>

\* The camera's stream is over.
WorkerEnds(c) ==
  /\ pc[c] = "idle"
  /\ pc' = [pc EXCEPT ![c] = "ended"]
  /\ UNCHANGED <<tracks, registry, job, frames, disk, boots>>

\* run() has joined its workers and calls save().
BeginSave ==
  /\ save = "no"
  /\ \A c \in Camera \ Left : pc[c] = "ended"
  /\ save' = "dumping"
  /\ UNCHANGED <<tracks, registry, pc, job, frames, saved, snapshot, boots>>

\* The records are serialized, one after the other.
DumpRecord ==
  /\ save = "dumping" /\ Len(snapshot) < Len(records)
  /\ snapshot' = Append(snapshot, records[Len(snapshot) + 1])
  /\ UNCHANGED <<tracks, registry, pc, job, frames, saved, save, boots>>

\* write_text opens the file, which empties it, and writes.
OpenSave ==
  /\ save = "dumping" /\ Len(snapshot) >= Len(records)
  /\ save' = "writing"
  /\ UNCHANGED <<tracks, registry, pc, job, frames, saved, snapshot, boots>>

EndSave ==
  /\ save = "writing"
  /\ save' = "done"
  /\ saved' = snapshot /\ snapshot' = << >>
  /\ UNCHANGED <<tracks, registry, pc, job, frames, boots>>

\* The process ends, after run() or killed, and another one starts with the
\* records recs.
Boot(recs) ==
  /\ boots < MaxBoots
  /\ reads' = NoSeqs /\ looks' = NoSeqs /\ vehicle' = NoIds
  /\ records' = recs /\ matrix' = LooksOf(recs)
  /\ job' = NoJobs /\ frames' = NoFrames
  /\ snapshot' = << >>
  /\ boots' = boots + 1
  /\ UNCHANGED saved

\* Fault: the registry is not loaded.
Restart_Forgets ==
  /\ save \notin {"writing", "down"}
  /\ Boot(<< >>)
  /\ pc' = AllIdle /\ save' = "no"

\* load() finds the file whole.
Restart ==
  /\ save \notin {"writing", "down"}
  /\ Boot(saved)
  /\ pc' = AllIdle /\ save' = "no"

\* The file was cut off and does not parse: load() raises, and no stage is built.
RestartFails ==
  /\ save \in {"writing", "down"}
  /\ Boot(<< >>)
  /\ pc' = [c \in Camera |-> "ended"] /\ save' = "down"

WorkerStep(c) ==
  \/ \E t \in Track, read \in Plate \cup {None}, look \in Look \cup {None} :
       Process(c, t, read, look)
  \/ Found(c) \/ NotFound(c) \/ LookupRaises(c)
  \/ \E v \in VehicleId : Create(c, v)
  \/ Rebuild(c) \/ Store(c)
  \/ CheckPlate(c) \/ WritePlate(c)
  \/ WorkerEnds(c)

LprNext ==
  \/ \E c \in Camera : WorkerStep(c)
  \/ BeginSave \/ DumpRecord \/ OpenSave \/ EndSave
  \/ Restart \/ RestartFails

LprSpec == LprInit /\ [][LprNext]_vars

-----------------------------------------------------------------------------
LprTypeOK ==
  /\ reads \in [Track -> Seq(Plate)] /\ looks \in [Track -> Seq(Look)]
  /\ vehicle \in [Track -> VehicleId \cup {None}]
  /\ records \in Seq(Record) /\ matrix \in Seq(Look)
  /\ saved \in Seq(Record) /\ snapshot \in Seq(Record)
  /\ pc \in [Camera -> Busy \cup {"idle", "ended"}]
  /\ job \in [Camera -> Locals]
  /\ frames \in [Camera -> Nat] /\ boots \in Nat
  /\ save \in {"no", "dumping", "writing", "done", "down"}

\* A track of one look has the identity of a vehicle that looks like it, also
\* when ids collide, and across restarts.
LooksAlike ==
  \A t \in Track : vehicle[t] # None =>
    \A l \in Look : (\A i \in 1 .. ToAverage : looks[t][i] = l) =>
      \E r \in Range(records) : r.id = vehicle[t] /\ r.look = l

\* Unless a process was killed while it wrote the file, which no later one can
\* read then, every vehicle of the last complete save is in the registry at its
\* place, with the same id and look.  If it was loaded with a plate, it has that
\* plate; in the process that saved it a worker run() did not join may still
\* put another in its place.
SavedKept ==
  save # "down" =>
    \A i \in DOMAIN saved :
      /\ i \in DOMAIN records
      /\ records[i].id = saved[i].id /\ records[i].look = saved[i].look
      /\ saved[i].plate # None =>
           IF save = "done" THEN records[i].plate # None
                            ELSE records[i].plate = saved[i].plate

\* A vehicle gets a plate only from a track with its identity, from which
\* enough reads were taken and of which it is the most common.
PlateEarned ==
  [][boots' = boots =>
       \A i \in DOMAIN records : records'[i].plate # records[i].plate =>
         \E t \in Track : /\ vehicle[t] = records[i].id
                          /\ Len(reads[t]) >= MinReads
                          /\ records'[i].plate = MostCommon(reads[t])]_vars

=============================================================================
