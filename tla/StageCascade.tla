---------------------------- MODULE StageCascade ----------------------------
(***************************************************************************)
(* The inference stages of the advanced pipeline (advanced/stages.py,      *)
(* meta.py, device.py) as process_image runs them on the frames of every   *)
(* camera, in the process "Me", which prepares its programs with            *)
(* ModelCache beside other processes.                                      *)
(*                                                                         *)
(* The first stage finds objects in the whole frame, a detection stage      *)
(* finds children in the crops of objects, classifiers and embedding        *)
(* stages attach a result to an object.  Each stage has one DeviceModel    *)
(* whose input buffer all cameras' workers fill and run; the lock of the   *)
(* pipeline is held for one stage of one frame at a time.                  *)
(*                                                                         *)
(* Pixels are abstracted to the crop they were taken from: a frame and an  *)
(* object of it, 0 for the whole frame.  What a detector finds in a crop is *)
(* any of a set of sequences of classes and sizes (Finds).                  *)
(***************************************************************************)
EXTENDS ModelCache

CONSTANTS
  Me,           \* the process of the pipeline
  Source,       \* its sources, a worker each
  Stage,        \* its stages in order: what they do (kind) and to which objects
  PlateAt, OcrAt, EmbeddingAt,   \* components plate recognition is told to read
  Class,        \* what objects are told apart by
  Finds,        \* what a detector may find in a crop of a camera
  FramesOf     \* bound: frames of a camera

\* Kind of a stage, component_id of what it works on (0: the frame), and the
\* classes it is told to work on.
Kinds == {"detect", "classify", "embed"}
\* Below the least size for stages on objects, or large enough but all of it
\* outside the frame, where the crop is empty.
Size == {"large", "small", "outside"}
ASSUME CascadeAssumption ==
  /\ Me \in Proc
  /\ Stage \in Seq([kind : Kinds, on : Nat, classes : SUBSET Class])
  /\ Len(Stage) = Len(Plan[Me])
  /\ Stage[1].kind = "detect"
  /\ \A k \in DOMAIN Stage : Stage[k].on <= Len(Stage) /\ (Stage[k].on = 0 <=> k = 1)
  /\ {PlateAt, OcrAt, EmbeddingAt} \subseteq DOMAIN Stage
  /\ Stage[OcrAt].kind = "classify" /\ Stage[EmbeddingAt].kind = "embed"
  /\ \A i \in DOMAIN Plan[Me] : Plan[Me][i] \notin Int8
  /\ \A c \in Source, k \in DOMAIN Stage : Finds[c][k] \subseteq Seq(Class \X Size)
  /\ FramesOf \in [Source -> Nat]

Nobody == "none"
ASSUME NobodyAssumption == Nobody \notin Source

VARIABLES
  at,       \* where a camera's worker is
  frame,    \* number of its frame
  pass,     \* the stage that frame is at
  objects,  \* AdvFrameMeta.objects
  found,    \* new_children, until the stage is over
  todo,     \* the objects the stage has still to visit
  lock,     \* _infer_lock: the camera that holds it, or Nobody
  buffer    \* the input buffer of each stage's DeviceModel

cascadeVars == <<at, frame, pass, objects, found, todo, lock, buffer>>
stageVars == <<cacheVars, cascadeVars>>

CascadeInit ==
  /\ at = [c \in Source |-> "idle"] /\ frame = [c \in Source |-> 0]
  /\ pass = [c \in Source |-> 1]
  /\ objects = [c \in Source |-> << >>] /\ found = [c \in Source |-> << >>]
  /\ todo = [c \in Source |-> {}]
  /\ lock = Nobody /\ buffer = [k \in DOMAIN Stage |-> << >>]

-----------------------------------------------------------------------------
Doing(c) == Stage[pass[c]]
CropOf(c, i) == <<c, frame[c], i>>
Primary(c) == {i \in DOMAIN objects[c] : objects[c][i].parent = 0}

\* _targets: by component, class and size.
Wanted(k, o) ==
  /\ o.component = Stage[k].on
  /\ o.class \in Stage[k].classes
  /\ o.size # "small"
Targets(c, k) ==
  IF k = 1 THEN {0} ELSE {i \in DOMAIN objects[c] : Wanted(k, objects[c][i])}

\* The stage goes through them in the order of the frame's objects.
Target(c) == CHOOSE i \in todo[c] : \A j \in todo[c] : i <= j

\* process_image of a decoded frame.
BeginFrame(c) ==
  /\ step[Me] = "ready"
  /\ at[c] = "idle" /\ frame[c] < FramesOf[c]
  /\ frame' = [frame EXCEPT ![c] = @ + 1]
  /\ at' = [at EXCEPT ![c] = "waiting"]
  /\ UNCHANGED <<pass, objects, found, todo, lock, buffer>>

\* Fault: a stage runs outside the lock.
Locked_Never == FALSE

\* with self._infer_lock.
Locked == lock # Nobody

EnterStage(c) ==
  /\ at[c] = "waiting" /\ ~Locked
  /\ lock' = c
  /\ todo' = [todo EXCEPT ![c] = Targets(c, pass[c])]
  /\ at' = [at EXCEPT ![c] = "stage"]
  /\ UNCHANGED <<frame, pass, objects, found, buffer>>

\* Fault: the stage stops at an object without a crop.
SkipObject_Stops(c) ==
  /\ at[c] = "stage" /\ todo[c] # {} /\ Target(c) # 0
  /\ objects[c][Target(c)].size = "outside"
  /\ todo' = [todo EXCEPT ![c] = {}]
  /\ UNCHANGED <<at, frame, pass, objects, found, lock, buffer>>

\* _infer_bbox of an object whose crop is empty: the next one.
SkipObject(c) ==
  /\ at[c] = "stage" /\ todo[c] # {} /\ Target(c) # 0
  /\ objects[c][Target(c)].size = "outside"
  /\ todo' = [todo EXCEPT ![c] = @ \ {Target(c)}]
  /\ UNCHANGED <<at, frame, pass, objects, found, lock, buffer>>

\* run_crop: the crop goes into the input buffer ...
FillBuffer(c) ==
  /\ at[c] = "stage" /\ todo[c] # {}
  /\ Target(c) # 0 => objects[c][Target(c)].size # "outside"
  /\ buffer' = [buffer EXCEPT ![pass[c]] = CropOf(c, Target(c))]
  /\ at' = [at EXCEPT ![c] = "run"]
  /\ UNCHANGED <<frame, pass, objects, found, todo, lock>>

\* ... and the model runs on what is there.  What is left in the buffer is
\* never looked at again.
Ran(c) ==
  /\ at[c] = "run"
  /\ buffer' = [buffer EXCEPT ![pass[c]] = << >>]
  /\ todo' = [todo EXCEPT ![c] = @ \ {Target(c)}]
  /\ at' = [at EXCEPT ![c] = "stage"]
  /\ UNCHANGED <<frame, pass, lock>>

NewObject(c, class, size) ==
  [component |-> pass[c], class |-> class, size |-> size, parent |-> Target(c),
   crop |-> buffer[pass[c]], tracked |-> FALSE, results |-> {}]

\* What the parsers make of the model's output; a classifier's may have nothing
\* to tell, an embedding is taken as it is.
Detections(c) == Finds[c][pass[c]]
Results(c) ==
  {{<<pass[c], buffer[pass[c]]>>}} \cup (IF Doing(c).kind = "classify" THEN {{}} ELSE {})

\* PrimaryStage and DetectionStage: the detections become objects.
Detect(c) ==
  /\ Ran(c) /\ Doing(c).kind = "detect"
  /\ \E finds \in Detections(c) :
       found' = [found EXCEPT ![c] =
                   @ \o [i \in DOMAIN finds |-> NewObject(c, finds[i][1], finds[i][2])]]
  /\ UNCHANGED objects

\* ClassifierStage and EmbeddingStage.
Attach(c) ==
  /\ Ran(c) /\ Doing(c).kind # "detect"
  /\ \E result \in Results(c) :
       objects' = [objects EXCEPT ![c][Target(c)].results = @ \cup result]
  /\ UNCHANGED found

\* Import, kernel, model or parser raises, or the tracker, a probe, or plate
\* recognition: a lock that is held is given back, the worker ends, and its
\* frame goes no further.
StageRaises(c) ==
  /\ at[c] \notin {"idle", "failed"}
  /\ lock' = IF lock = c THEN Nobody ELSE lock
  /\ at' = [at EXCEPT ![c] = "failed"]
  /\ objects' = [objects EXCEPT ![c] = << >>]
  /\ found' = [found EXCEPT ![c] = << >>]
  /\ todo' = [todo EXCEPT ![c] = {}]
  /\ buffer' = IF at[c] = "run" THEN [buffer EXCEPT ![pass[c]] = << >>] ELSE buffer
  /\ pass' = [pass EXCEPT ![c] = 1]
  /\ UNCHANGED frame

\* What it found is now part of the frame: a stage does not visit its own finds.
LeaveStage(c) ==
  /\ at[c] = "stage" /\ todo[c] = {}
  /\ lock' = Nobody
  /\ objects' = [objects EXCEPT ![c] = @ \o found[c]]
  /\ found' = [found EXCEPT ![c] = << >>]
  /\ IF pass[c] < Len(Stage)
     THEN /\ pass' = [pass EXCEPT ![c] = @ + 1]
          /\ at' = [at EXCEPT ![c] = IF pass[c] = 1 THEN "track" ELSE "waiting"]
     ELSE pass' = pass /\ at' = [at EXCEPT ![c] = "publish"]
  /\ UNCHANGED <<frame, todo, buffer>>

\* The tracker gives an id to some of the primary objects.
TrackObjects(c) ==
  /\ at[c] = "track"
  /\ \E ids \in SUBSET Primary(c) :
       objects' = [objects EXCEPT ![c] =
                     [i \in DOMAIN @ |-> [@[i] EXCEPT !.tracked = i \in ids]]]
  /\ at' = [at EXCEPT ![c] = "waiting"]
  /\ UNCHANGED <<frame, pass, found, todo, lock, buffer>>

\* classification_from, tensors.get: the crop a component's result came from.
ResultsOf(o, k) == {r[2] : r \in {x \in o.results : x[1] = k}}

\* best_child_classification: the best of the reads on an object's plates.
PlateReads(c, i) ==
  UNION {ResultsOf(objects[c][j], OcrAt) :
           j \in {x \in DOMAIN objects[c] : /\ objects[c][x].parent = i
                                            /\ objects[c][x].component = PlateAt}}

\* LPRStage.process takes plate and embedding of every tracked vehicle.
Vehicles(c) == {i \in Primary(c) : objects[c][i].tracked /\ objects[c][i].class = "vehicle"}
Evidence(c, i) ==
  [object |-> i, plates |-> PlateReads(c, i),
   embedding |-> ResultsOf(objects[c][i], EmbeddingAt)]

\* The frame goes to plate recognition and to the publisher.
PublishFrame(c) ==
  /\ at[c] = "publish"
  /\ at' = [at EXCEPT ![c] = "idle"]
  /\ pass' = [pass EXCEPT ![c] = 1]
  /\ objects' = [objects EXCEPT ![c] = << >>]
  /\ UNCHANGED <<frame, found, todo, lock, buffer>>

CascadeStep(c) ==
  \/ BeginFrame(c) \/ EnterStage(c) \/ SkipObject(c) \/ FillBuffer(c) \/ Detect(c)
  \/ Attach(c) \/ StageRaises(c) \/ LeaveStage(c) \/ TrackObjects(c) \/ PublishFrame(c)

\* The workers end with their process.
ProcessStep(p) ==
  /\ CacheStep(p)
  /\ IF p = Me /\ step'[p] = "down" /\ step[p] = "ready"
     THEN /\ at' = [c \in Source |-> "idle"] /\ frame' = [c \in Source |-> 0]
          /\ pass' = [c \in Source |-> 1]
          /\ objects' = [c \in Source |-> << >>] /\ found' = [c \in Source |-> << >>]
          /\ todo' = [c \in Source |-> {}]
          /\ lock' = Nobody /\ buffer' = [k \in DOMAIN Stage |-> << >>]
     ELSE UNCHANGED cascadeVars

Init == CacheInit /\ CascadeInit
Next ==
  \/ \E c \in Source : CascadeStep(c) /\ UNCHANGED cacheVars
  \/ \E p \in Proc : ProcessStep(p)
Spec == Init /\ [][Next]_stageVars

-----------------------------------------------------------------------------
(* Properties. *)

\* Everything found or read is about the pixels it is attached to, in a frame
\* of the camera's own: an object was found in the crop of its parent, and a
\* result was computed from the crop of its object.  The stages' buffers are
\* shared by all cameras (DeviceModel: not thread-safe).
OwnPixels ==
  \A c \in Source : \A i \in DOMAIN objects[c] : LET o == objects[c][i] IN
    /\ o.crop = CropOf(c, o.parent)
    /\ \A r \in o.results : r[2] = CropOf(c, i)

\* What plate recognition takes of a vehicle is complete and its own: there is an
\* embedding whenever the embedding stage wants the vehicle (its class, its least
\* size) and the vehicle has a crop, whatever the stages passed over before it,
\* and every read is of a plate that was found in the vehicle's crop.
EvidenceWhole ==
  \A c \in Source : at[c] = "publish" => \A i \in Vehicles(c) :
    /\ Wanted(EmbeddingAt, objects[c][i]) /\ objects[c][i].size = "large"
         => Evidence(c, i).embedding = {CropOf(c, i)}
    /\ \A crop \in Evidence(c, i).plates :
         \E j \in DOMAIN objects[c] :
           crop = CropOf(c, j) /\ objects[c][j].crop = CropOf(c, i)

=============================================================================
