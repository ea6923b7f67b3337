-------------------------- MODULE MC_StageCascade ---------------------------
(* A small instance of StageCascade: a pipeline of four stages on two models *)
(* beside a stream of the streaming API, whose model is an int8 one.         *)
EXTENDS StageCascade

CONSTANTS pipeline, stream

TwoProcesses == {pipeline, stream}
ZooModel == "yolo26m"
PlateModel == "plates.onnx"
Files == {ZooModel, PlateModel}
Detector == <<ZooModel, "fp16">>
Plates == <<PlateModel, "fp16">>
Quantized == <<PlateModel, "int8">>
Programs == {Detector, Plates, Quantized}
OnlyQuantized == {Quantized}
FileOf == [g \in Programs |-> g[1]]
Plans == [p \in TwoProcesses |-> IF p = pipeline THEN <<Detector, Plates, Plates, Plates>>
                                 ELSE <<Plates, Detector, Quantized>>]

Cascade ==
  <<[kind |-> "detect", on |-> 0, classes |-> {}],
    [kind |-> "detect", on |-> 1, classes |-> {"vehicle"}],
    [kind |-> "classify", on |-> 2, classes |-> {"plate"}],
    [kind |-> "embed", on |-> 1, classes |-> {"vehicle"}]>>
Cameras == {"north", "south"}
OneFrame == [c \in Cameras |-> 1]

Vehicle == <<"vehicle", "large">>
Plate == <<<<"plate", "large">>>>
Scenes ==
  [c \in Cameras |->
     <<IF c = "north"
       THEN {<<<<"vehicle", "outside">>, Vehicle>>,
             <<<<"person", "large">>, <<"vehicle", "small">>>>}
       ELSE {<<>>, <<Vehicle>>},
       IF c = "north" THEN {<<>>, Plate} ELSE {Plate}, {}, {}>>]

=============================================================================
