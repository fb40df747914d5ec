----------------------------- MODULE ModelStore -----------------------------
(***************************************************************************)
(* The directory of model files.  scripts/prepare_models.py writes it, may *)
(* be interrupted, and is run again, perhaps with other flags; the model   *)
(* services read it when they start, each by rules of its own, on machines *)
(* with and without an accelerator.  A service looks at a directory first  *)
(* and loads from it later.  The services do not interact: one of them,    *)
(* any, is followed here.  Hugging Face, optimum, PaddleX and the runtimes *)
(* are external: a download completes what is there, an export makes       *)
(* model.onnx, and loading a model that is not complete raises.            *)
(***************************************************************************)
EXTENDS Naturals, Sequences

CONSTANTS
    Devices,   \* values of MODEL_DEVICE, "auto" when it is not set
    MaxRuns    \* bound: runs of prepare_models.py

ASSUME ModelStoreAssumption == Devices \subseteq {"auto", "cpu", "cuda"} /\ MaxRuns \in Nat

Downloads == <<"siglip", "florence">>
Exports == <<"splade", "cat">>
PADDLE_MODELS == <<"det", "layout", "vl">>
Models == {"siglip", "florence", "splade", "cat", "det", "layout", "vl"}
Flags == {"skip_download", "skip_onnx", "skip_paddle"}

\* What each service loads, in this order.
Parts == [dense |-> <<"siglip">>, sparse |-> <<"splade">>,
          ocr |-> PADDLE_MODELS, caption |-> <<"florence", "cat">>]

VARIABLES
    content,   \* of each directory: "absent", "part", "weights" or "onnx"
    todo,      \* models that the script has still to prepare
    begun,     \* whether it has begun with the first of them
    full,      \* whether its latest run had no flag and was not interrupted
    runs,
    torchCuda, ortCuda,   \* what the machine offers torch and onnxruntime
    service, device,      \* the service and its MODEL_DEVICE
    loading,   \* what it has still to load
    route,     \* how it is about to load the first of them, or "look"
    state,     \* "down", "starting", "serving" or "failed"
    runsOn,    \* [model, runtime, device] of what it has loaded
    safe       \* history: its parts have been complete ever since it began to start

store == <<content, todo, begun, full, runs>>
machine == <<torchCuda, ortCuda, service, device>>
process == <<loading, route, state, runsOn>>
storeVars == <<store, machine, process, safe>>

StoreInit ==
    /\ content = [m \in Models |-> "absent"] /\ todo = <<>> /\ begun = FALSE
    /\ full = FALSE /\ runs = 0
    /\ torchCuda \in BOOLEAN /\ ortCuda \in BOOLEAN
    /\ service \in DOMAIN Parts /\ device \in Devices
    /\ loading = <<>> /\ route = "look" /\ state = "down" /\ runsOn = {} /\ safe = FALSE

-----------------------------------------------------------------------------
(***************************************************************************)
(* prepare_models.py.                                                      *)
(***************************************************************************)
\* What an export or a download that came to its end leaves.
Complete(m) == content[m] = IF m \in {"splade", "cat"} THEN "onnx" ELSE "weights"
Whole == \A n \in DOMAIN Parts[service] : Complete(Parts[service][n])

Chosen(models, flag, flags) == IF flag \in flags THEN <<>> ELSE models

Prepare(flags) ==
    /\ todo = <<>> /\ runs < MaxRuns /\ runs' = runs + 1
    /\ todo' = Chosen(Downloads, "skip_download", flags) \o Chosen(Exports, "skip_onnx", flags)
               \o Chosen(PADDLE_MODELS, "skip_paddle", flags)
    /\ full' = (flags = {})
    /\ UNCHANGED <<content, begun, machine, process, safe>>

Writes(result) == content' = [content EXCEPT ![Head(todo)] = result]
Done == todo' = Tail(todo) /\ begun' = FALSE
GoOn == todo' = todo /\ begun' = TRUE
IsExport == todo # <<>> /\ Head(todo) \in {"splade", "cat"}

\* download_hf_model and download_paddlex_model: snapshot_download goes on with
\* what an earlier run left.
Download ==
    /\ todo # <<>> /\ ~IsExport
    /\ \/ ~begun /\ GoOn /\ IF content[Head(todo)] = "absent" THEN Writes("part") ELSE UNCHANGED content
       \/ begun /\ Done /\ Writes("weights")
    /\ UNCHANGED <<full, runs, machine, process>> /\ safe' = (safe /\ Whole')

\* Mistake: a directory that exists is taken for an export.
ExportOnce ==
    /\ IsExport
    /\ \/ ~begun /\ content[Head(todo)] = "absent" /\ GoOn /\ Writes("part")
       \/ ~begun /\ content[Head(todo)] # "absent" /\ Done /\ UNCHANGED content
       \/ begun /\ Done /\ Writes("onnx")
    /\ UNCHANGED <<full, runs, machine, process>> /\ safe' = (safe /\ Whole')

\* export_hf_to_onnx: rmtree of the directory, and main_export.
Export ==
    /\ IsExport
    /\ \/ ~begun /\ GoOn /\ Writes("absent")
       \/ begun /\ content[Head(todo)] = "absent" /\ GoOn /\ Writes("part")
       \/ begun /\ content[Head(todo)] = "part" /\ Done /\ Writes("onnx")
    /\ UNCHANGED <<full, runs, machine, process>> /\ safe' = (safe /\ Whole')

\* The script is killed, or one of its libraries raises.
Interrupt ==
    /\ todo # <<>> /\ todo' = <<>> /\ begun' = FALSE /\ full' = FALSE
    /\ UNCHANGED <<content, runs, machine, process, safe>>

-----------------------------------------------------------------------------
(***************************************************************************)
(* A service.                                                              *)
(***************************************************************************)

\* run_*_service.py, which makes its models before it listens.
Start ==
    /\ state # "starting" /\ state' = "starting"
    /\ loading' = Parts[service] /\ route' = "look" /\ runsOn' = {}
    /\ safe' = Whole
    /\ UNCHANGED <<store, machine>>

Raise == state' = "failed" /\ loading' = <<>> /\ UNCHANGED <<route, runsOn>>
Take(r) == route' = r /\ UNCHANGED <<loading, state, runsOn>>

\* Where a directory that is not complete may have a model.onnx, or not.
HasOnnx(m) == IF content[m] = "part" THEN BOOLEAN ELSE {content[m] = "onnx"}

Looking(m) ==
    /\ state = "starting" /\ route = "look" /\ Head(loading) = m
    /\ UNCHANGED <<store, machine, safe>>

\* resolve_transformers_model_source wants the directory of a model given by
\* its path.
LookForSiglip ==
    Looking("siglip") /\ IF content["siglip"] = "absent" THEN Raise ELSE Take("torch")

LookForSplade ==
    /\ Looking("splade")
    /\ IF content["splade"] = "absent" THEN Raise
       ELSE \E onnx \in HasOnnx("splade") : Take(IF onnx THEN "ort" ELSE "torch")

\* _resolve_required_paddlex_model_dir, of all three models before the first is
\* loaded.
LookForPaddle ==
    /\ Looking("det")
    /\ IF \E d \in {"det", "layout", "vl"} : content[d] = "absent" THEN Raise ELSE Take("torch")

\* _is_local_model_dir leaves a directory that is absent to the hub.
LookForFlorence ==
    Looking("florence") /\ Take(IF content["florence"] = "absent" THEN "hub" ELSE "torch")

LookForCat ==
    /\ Looking("cat")
    /\ \E onnx \in HasOnnx("cat") :
          Take(IF onnx THEN "ort" ELSE IF content["cat"] = "absent" THEN "hub" ELSE "torch")

Look == LookForSiglip \/ LookForSplade \/ LookForPaddle \/ LookForFlorence \/ LookForCat

\* Of a service that is not told a device: the dense and sparse models stay on
\* the CPU, those of the caption service look for CUDA, and PaddleX chooses for
\* itself, with the CPU build of paddlepaddle that is installed.
PaddleChoice == "cpu"
Device ==
    IF device # "auto" THEN device
    ELSE IF service = "ocr" THEN PaddleChoice
    ELSE IF service = "caption" /\ torchCuda THEN "cuda" ELSE "cpu"

\* Where a model can run, if anywhere: torch's .to(device), ort_provider_for_device
\* with require_accelerator, and PaddleX, of which "cuda" names no device.
HasCuda(runtime) == (runtime = "torch" /\ torchCuda) \/ (runtime = "ort" /\ ortCuda)
DeviceOf(runtime) == IF Device = "cuda" /\ ~HasCuda(runtime) THEN {} ELSE {Device}

\* from_pretrained, or PaddleX's loading.  A path is no name of the hub's.
Load ==
    /\ state = "starting" /\ route # "look"
    /\ LET m == Head(loading)
           runtime == IF service = "ocr" THEN "paddle" ELSE IF route = "ort" THEN "ort" ELSE "torch"
       IN IF content[m] = (IF runtime = "ort" THEN "onnx" ELSE "weights") /\ DeviceOf(runtime) # {}
          THEN /\ loading' = Tail(loading)
               /\ runsOn' = runsOn \cup {[model |-> m, runtime |-> runtime, device |-> d] : d \in DeviceOf(runtime)}
               /\ state' = IF Tail(loading) = <<>> THEN "serving" ELSE "starting"
               /\ route' = IF service = "ocr" THEN route ELSE "look"
          ELSE Raise
    /\ UNCHANGED <<store, machine, safe>>

StoreNext ==
    \/ \E flags \in SUBSET Flags : Prepare(flags)
    \/ Download \/ Export \/ Interrupt
    \/ Start \/ Look \/ Load

StoreSpec == StoreInit /\ [][StoreNext]_storeVars

-----------------------------------------------------------------------------
FullyPrepared == full /\ todo = <<>>

\* The service is told CUDA, or chooses it, where one of its runtimes has none.
LacksItsDevice ==
    /\ Device = "cuda"
    /\ CASE service = "dense" -> ~torchCuda
         [] service = "sparse" -> ~ortCuda
         [] service = "caption" -> ~(torchCuda /\ ortCuda)
         [] service = "ocr" -> TRUE

\* A run without flags that came to its end leaves every model complete, whatever
\* runs before it were interrupted.  A service whose parts are complete from its
\* first look on starts, whatever the script does to the other models meanwhile;
\* all that may stop it is a device that one of its runtimes does not have, as
\* "cuda" stops the OCR service.  And a service that serves has all its parts, on
\* the device it was told to use.
StartsAsAsked ==
    /\ FullyPrepared => \A m \in Models : Complete(m)
    /\ state = "failed" /\ safe => LacksItsDevice
    /\ state = "serving" =>
          /\ {p.model : p \in runsOn} = {Parts[service][n] : n \in DOMAIN Parts[service]}
          /\ \A p \in runsOn : device \in {"auto", p.device}
=============================================================================
