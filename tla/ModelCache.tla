----------------------------- MODULE ModelCache -----------------------------
(***************************************************************************)
(* The model files and the cache of compiled programs (model_zoo.py), which *)
(* several processes share: resolve_model exports a zoo model on first use, *)
(* compile_or_load compiles a model file or loads the compiled program from *)
(* the cache.  A process prepares the programs of its Plan one by one, as   *)
(* prepare() of the advanced pipeline and the constructor of AMDStream do.  *)
(* There is no lock between processes: they meet in the file system only.   *)
(*                                                                         *)
(* A file that is being written is known by its last opener, since opening  *)
(* truncates it: it is whole when that process has written it to the end.   *)
(* Renaming takes a file along with those who write it.  A file that is not *)
(* whole is not accepted: migraphx.load and parse_onnx raise.               *)
(* A zoo model is a name with one batch and one image size; exports of one  *)
(* name for several of them, which write the same file, are left out.       *)
(*                                                                         *)
(* These are actions without a specification of their own; StageCascade    *)
(* composes them.                                                          *)
(***************************************************************************)
EXTENDS Naturals, Sequences, FiniteSets

CONSTANTS
  Proc,         \* processes that use the cache
  Model,        \* model files: of the zoo, or custom ones
  Custom,       \* custom .onnx paths
  Program,      \* a model compiled with a quantization: the cache key
  ModelOf,      \* the model of a program
  Int8,         \* programs with int8 quantization: calibrated on the stream
  Uncached,     \* processes with AVAP_NO_MXR_CACHE=1
  Plan,         \* the programs a process prepares, in order
  Calibration,  \* INT8_CALIBRATION_FRAMES
  MaxFaults     \* bound: crashes and failing writes

ASSUME CacheAssumption ==
  /\ Custom \subseteq Model /\ ModelOf \in [Program -> Model]
  /\ Int8 \subseteq Program /\ Uncached \subseteq Proc
  /\ Plan \in [Proc -> Seq(Program) \ {<<>>}]
  /\ Calibration \in Nat \ {0} /\ MaxFaults \in Nat

Absent == "absent"
Whole == "whole"
ASSUME FileAssumption == {Absent, Whole} \cap Proc = {}

\* The paths: what YOLO.export writes and where it is moved to, the temporary
\* file of a program and its place in the cache.
Path == ({"export", "onnx"} \X Model) \cup ({"tmp", "mxr"} \X Program)
Nowhere == <<>>

VARIABLES
  file,     \* [Path -> Absent, Whole or the last opener]
  writing,  \* the path of the file a process has open
  step,     \* where a process is
  stage,    \* the program of its Plan it is at
  compiled, \* the programs it can run
  fed,      \* tensors collected for the calibration of an int8 program
  faults    \* crashes and failing writes so far

cacheVars == <<file, writing, step, stage, compiled, fed, faults>>

CacheInit ==
  /\ file = [f \in Path |-> IF f[1] = "onnx" /\ f[2] \in Custom THEN Whole ELSE Absent]
  /\ writing = [p \in Proc |-> Nowhere]
  /\ step = [p \in Proc |-> "down"]
  /\ stage = [p \in Proc |-> 1]
  /\ compiled = [p \in Proc |-> {}]
  /\ fed = [p \in Proc |-> 0]
  /\ faults = 0

-----------------------------------------------------------------------------
(* The file system. *)

OpenFile(p, f) ==
  /\ file' = [file EXCEPT ![f] = p]
  /\ writing' = [writing EXCEPT ![p] = f]

\* The file is whole unless another process has opened it since.
CloseFile(p) ==
  LET f == writing[p] IN
  /\ file' = IF f # Nowhere /\ file[f] = p THEN [file EXCEPT ![f] = Whole] ELSE file
  /\ writing' = [writing EXCEPT ![p] = Nowhere]

\* os.replace: the file that was there has no name any more.
RenameFile(from, to) ==
  /\ file' = [file EXCEPT ![to] = file[from], ![from] = Absent]
  /\ writing' = [p \in Proc |-> IF writing[p] = from THEN to
                                   ELSE IF writing[p] = to THEN Nowhere
                                   ELSE writing[p]]

-----------------------------------------------------------------------------
\* The stages of a pipeline take their programs in order, the models of a
\* ModelChain as well.
Current(p) == Plan[p][stage[p]]
Onnx(p) == <<"onnx", ModelOf[Current(p)]>>
Export(p) == <<"export", ModelOf[Current(p)]>>
Tmp(p) == <<"tmp", Current(p)>>
Mxr(p) == <<"mxr", Current(p)>>
UsesCache(p) == p \notin Uncached /\ Current(p) \notin Int8

GoTo(p, s) == step' = [step EXCEPT ![p] = s]

\* The current program is there (an int8 program is parsed only): the next one.
Advance(p, have) ==
  /\ compiled' = [compiled EXCEPT ![p] = @ \cup have]
  /\ IF stage[p] < Len(Plan[p])
     THEN stage' = [stage EXCEPT ![p] = @ + 1] /\ GoTo(p, "resolve")
     ELSE stage' = stage /\ GoTo(p, "ready")

\* prepare() of a new process.
Begin(p) ==
  /\ step[p] = "down"
  /\ GoTo(p, "resolve")
  /\ UNCHANGED <<file, writing, stage, compiled, fed, faults>>

\* resolve_model: a custom path is taken as it is, an exported model too.
ResolveFound(p) ==
  /\ step[p] = "resolve"
  /\ ModelOf[Current(p)] \in Custom \/ file[Onnx(p)] # Absent
  /\ GoTo(p, "load")
  /\ UNCHANGED <<file, writing, stage, compiled, fed, faults>>

\* The first use of a zoo model: YOLO.export writes its file.
BeginExport(p) ==
  /\ step[p] = "resolve"
  /\ ModelOf[Current(p)] \notin Custom /\ file[Onnx(p)] = Absent
  /\ OpenFile(p, Export(p))
  /\ GoTo(p, "exporting")
  /\ UNCHANGED <<stage, compiled, fed, faults>>

EndExport(p) ==
  /\ step[p] = "exporting"
  /\ CloseFile(p)
  /\ GoTo(p, "exported")
  /\ UNCHANGED <<stage, compiled, fed, faults>>

\* There is no ultralytics, the export raises, or its file cannot be moved (to
\* another device): prepare() raises too.
ExportFails(p) ==
  /\ step[p] \in {"exporting", "exported"}
  /\ faults < MaxFaults /\ faults' = faults + 1
  /\ writing' = [writing EXCEPT ![p] = Nowhere]
  /\ GoTo(p, "failed")
  /\ UNCHANGED <<file, stage, compiled, fed>>

\* os.replace(exported, out), which raises when another process has moved the
\* file already.
KeepExport(p) ==
  /\ step[p] = "exported"
  /\ IF file[Export(p)] = Absent
     THEN GoTo(p, "failed") /\ UNCHANGED <<file, writing>>
     ELSE GoTo(p, "load") /\ RenameFile(Export(p), Onnx(p))
  /\ UNCHANGED <<stage, compiled, fed, faults>>

\* compile_or_load: a cached program that can be loaded is all that is needed.
Load(p) ==
  /\ step[p] = "load"
  /\ IF UsesCache(p) /\ file[Mxr(p)] = Whole
     THEN Advance(p, {Current(p)})
     ELSE GoTo(p, "compile") /\ UNCHANGED <<stage, compiled>>
  /\ UNCHANGED <<file, writing, fed, faults>>

\* parse_onnx raises on a file that is not whole.  An int8 program is not
\* compiled yet.
Compile(p) ==
  /\ step[p] = "compile"
  /\ \/ /\ file[Onnx(p)] # Whole
        /\ GoTo(p, "failed") /\ UNCHANGED <<stage, compiled>>
     \/ /\ file[Onnx(p)] = Whole
        /\ IF UsesCache(p)
           THEN GoTo(p, "save") /\ UNCHANGED <<stage, compiled>>
           ELSE Advance(p, {Current(p)} \ Int8)
  /\ UNCHANGED <<file, writing, fed, faults>>

\* Saving: the temporary file of a program is one for all processes.
OpenTmp(p) ==
  /\ step[p] = "save"
  /\ OpenFile(p, Tmp(p))
  /\ GoTo(p, "saving")
  /\ UNCHANGED <<stage, compiled, fed, faults>>

CloseTmp(p) ==
  /\ step[p] = "saving"
  /\ CloseFile(p)
  /\ GoTo(p, "saved")
  /\ UNCHANGED <<stage, compiled, fed, faults>>

\* Fault: the except clause does not span the replacement.
KeepSaved_Raises(p) ==
  /\ step[p] = "saved"
  /\ IF file[Tmp(p)] = Absent
     THEN GoTo(p, "failed") /\ UNCHANGED <<file, writing, stage, compiled>>
     ELSE RenameFile(Tmp(p), Mxr(p)) /\ Advance(p, {Current(p)})
  /\ UNCHANGED <<fed, faults>>

\* os.replace(tmp, mxr).  That another process has taken the file is passed over.
KeepSaved(p) ==
  /\ step[p] = "saved"
  /\ IF file[Tmp(p)] = Absent THEN UNCHANGED <<file, writing>>
                              ELSE RenameFile(Tmp(p), Mxr(p))
  /\ Advance(p, {Current(p)})
  /\ UNCHANGED <<fed, faults>>

\* mkdir, migraphx.save in the middle or os.replace raises, and the program is
\* used all the same.
SaveFails(p) ==
  /\ step[p] \in {"save", "saving", "saved"}
  /\ faults < MaxFaults /\ faults' = faults + 1
  /\ writing' = [writing EXCEPT ![p] = Nowhere]
  /\ Advance(p, {Current(p)})
  /\ UNCHANGED <<file, fed>>

\* calibrate: one tensor of the stream more, and with enough of them the int8
\* programs of the process are compiled.
Calibrate(p) ==
  /\ step[p] = "ready" /\ fed[p] < Calibration
  /\ LET wanted == {Plan[p][i] : i \in DOMAIN Plan[p]} \cap Int8 IN
     /\ wanted # {}
     /\ fed' = [fed EXCEPT ![p] = @ + 1]
     /\ compiled' = IF fed'[p] = Calibration
                    THEN [compiled EXCEPT ![p] = @ \cup wanted] ELSE compiled
  /\ UNCHANGED <<file, writing, step, stage, faults>>

\* The process goes down, with a program that is up or with one that failed.
Leave(p) ==
  /\ writing' = [writing EXCEPT ![p] = Nowhere]
  /\ GoTo(p, "down")
  /\ stage' = [stage EXCEPT ![p] = 1]
  /\ compiled' = [compiled EXCEPT ![p] = {}]
  /\ fed' = [fed EXCEPT ![p] = 0]
  /\ file' = file

Exit(p) == step[p] \in {"ready", "failed"} /\ Leave(p) /\ faults' = faults

\* It is killed at any other point, with the files as they are.
Crash(p) ==
  /\ step[p] \notin {"down", "ready", "failed"}
  /\ faults < MaxFaults /\ faults' = faults + 1
  /\ Leave(p)

CacheStep(p) ==
  \/ Begin(p) \/ ResolveFound(p) \/ BeginExport(p) \/ EndExport(p) \/ ExportFails(p) \/ KeepExport(p)
  \/ Load(p) \/ Compile(p) \/ OpenTmp(p) \/ CloseTmp(p) \/ KeepSaved(p) \/ SaveFails(p)
  \/ Calibrate(p) \/ Exit(p) \/ Crash(p)

-----------------------------------------------------------------------------
(* Properties. *)

CacheTypeOK ==
  /\ file \in [Path -> Proc \cup {Absent, Whole}]
  /\ writing \in [Proc -> Path \cup {Nowhere}]
  /\ step \in [Proc -> {"down", "resolve", "exporting", "exported", "load", "compile",
                           "save", "saving", "saved", "ready", "failed"}]
  /\ \A p \in Proc : stage[p] \in DOMAIN Plan[p]
  /\ stage \in [Proc -> Nat]
  /\ compiled \in [Proc -> SUBSET Program]
  /\ fed \in [Proc -> 0 .. Calibration] /\ faults \in 0 .. MaxFaults

\* The cache is best effort (compile_or_load): whatever other processes, crashes
\* and failing writes do to it, a program whose model file is given is there in
\* the end.  A process fails over a model of the zoo only.
BestEffort ==
  \A p \in Proc : step[p] = "failed" => ModelOf[Current(p)] \notin Custom

=============================================================================
