---------------------------- MODULE ModelLoading ----------------------------
(***************************************************************************)
(* Loading and unloading a model with one of the example backends: the     *)
(* callbacks for the model create a ModelState (a BackendModel) and delete *)
(* it, those for its instances do so with ModelInstanceStates, which own a *)
(* CUDA stream each, and the batching strategy keeps data of its own.  Any *)
(* call of the Triton or CUDA API may fail on the way.                     *)
(*                                                                         *)
(* Triton calls back for the model and its instances in the order that     *)
(* src/README.md describes, and forms batches while the model is loaded.   *)
(* Initializing the backend as a whole and executing are not part of this. *)
(***************************************************************************)
EXTENDS BackendModel, BatchingStrategy

CONSTANTS
    Backends,   \* of "recommended", "minimal" and "bls"
    Instances,  \* the instances of the model
    Kind,       \* the kind of each: "cpu", "model", "gpu", or another
    DeviceId,   \* and its device
    Device,     \* the device that the loading thread has selected at first
    Completed,  \* configurations that a backend makes of the one it got
    ControlKinds

ASSUME LoadingAssumption ==
    /\ Backends \subseteq {"recommended", "minimal", "bls"}
    /\ Completed \subseteq Configs

VARIABLES
    backend,   \* the backend of the model
    pc,        \* how far loading or unloading has got
    state,     \* the ModelState: "none", "live", "set" as Triton's, or "lost"
    instance,  \* each ModelInstanceState: "none", "set", "gone" when it was finalized,
               \* "unmade" or "abandoned" by its constructor, or "lost"
    stream,    \* the device of the stream of each instance, <<>> without one
    device,    \* the device selected on the loading thread
    unrestored,  \* history: instances for which selecting that device again failed
    control    \* the result of the last look-up of a sequence control

cudaVars == <<stream, device, unrestored>>
loadVars == <<backend, pc, state, instance, cudaVars>>
vars == <<modelVars, batchVars, loadVars, control>>

NoControl == [kind |-> "none", required |-> FALSE, typed |-> FALSE, result |-> NothingSeen("none", FALSE)]

Init ==
    /\ ModelInit /\ BatchInit
    /\ backend \in Backends
    /\ pc = "idle" /\ state = "none"
    /\ instance = [i \in Instances |-> "none"]
    /\ stream = [i \in Instances |-> <<>>]
    /\ device = Device /\ unrestored = {}
    /\ control = NoControl

InstancesUnchanged == UNCHANGED <<backend, instance, cudaVars, batchVars>>
-----------------------------------------------------------------------------
(* ModelInitialize.  The constructor of BackendModel throws when a call it  *)
(* makes fails, or the model is not in the file system; then there is no    *)
(* ModelState.                                                              *)
Construct ==
    /\ pc = "idle"
    /\ ParseModelConfig(server) /\ UNCHANGED server
    /\ pc' = IF fresh' THEN "complete" ELSE "unloading"
    /\ state' = IF fresh' THEN "live" ELSE "none"
    /\ UNCHANGED control /\ InstancesUnchanged

ConstructFails ==
    /\ pc = "idle"
    /\ ParseFails /\ UNCHANGED server
    /\ pc' = "unloading"
    /\ UNCHANGED <<state, control>> /\ InstancesUnchanged

\* A backend may complete the configuration and give it back to Triton ...
AutoComplete(config, mbs) ==
    /\ pc = "complete"
    /\ CompleteConfig(config, mbs)
    /\ pc' = "completed" /\ control' = NoControl
    /\ UNCHANGED state /\ InstancesUnchanged

SetConfig ==
    /\ pc = "completed"
    /\ SetModelConfig
    /\ pc' = IF fresh' THEN "complete" ELSE "unloading"
    /\ state' = IF fresh' THEN "live" ELSE "none"
    /\ UNCHANGED control /\ InstancesUnchanged

SetConfigFails ==
    /\ pc = "completed"
    /\ SetModelConfigFailsBefore \/ SetModelConfigFailsAfter
    /\ pc' = "unloading" /\ state' = "none"
    /\ UNCHANGED control /\ InstancesUnchanged

\* ... and look up how the controls of a sequence are passed to the model.
GetSequenceControl(kind, required, typed) ==
    /\ pc = "complete" /\ control = NoControl
    /\ control' = [kind |-> kind, required |-> required, typed |-> typed,
                   result |-> SequenceControl(model_config, kind, required, typed)]
    /\ UNCHANGED <<modelVars, batchVars, loadVars>>

\* recommended validates the configuration in the constructor of ModelState; bls does
\* so when Triton has the state already and will finalize it.
ValidateModel ==
    /\ pc = IF backend = "bls" THEN "validate" ELSE "complete"
    /\ IF ValidateModelConfig(backend, model_config)
       THEN /\ pc' = IF backend = "bls" THEN "ready" ELSE "setstate"
            /\ UNCHANGED state
       ELSE /\ pc' = "unloading"
            /\ state' = IF backend = "bls" THEN state ELSE "none"
    /\ control' = NoControl
    /\ UNCHANGED modelVars /\ InstancesUnchanged

\* If ModelSetState fails nobody has the pointer any more.
SetState(succeeds) ==
    /\ pc = IF backend = "bls" THEN "complete" ELSE "setstate"
    /\ pc' = IF ~succeeds THEN "unloading" ELSE IF backend = "bls" THEN "validate" ELSE "ready"
    /\ state' = IF succeeds THEN "set" ELSE "lost"
    /\ control' = NoControl
    /\ UNCHANGED modelVars /\ InstancesUnchanged

\* ModelFinalize is called after the instances are finalized, also for a model that
\* failed to load.  Deleting the state that nobody set does nothing.
ModelFinalize ==
    /\ pc = "unloading"
    /\ strategy = "none" /\ \A i \in Instances : instance[i] # "set"
    /\ pc' = "unloaded"
    /\ state' = IF state = "set" THEN "none" ELSE state
    /\ UNCHANGED <<modelVars, control>> /\ InstancesUnchanged
-----------------------------------------------------------------------------
(* ModelInstanceInitialize, whose constructor is that of                    *)
(* BackendModelInstance: it reads the properties of the instance, makes a   *)
(* stream for a GPU, and asks for the host policy.                          *)

\* CreateCudaStream makes the stream on the device that is selected: that of the
\* instance, if it could be selected or was so before.
Selected(i, overridden, chosen) == IF overridden /\ chosen THEN DeviceId[i] ELSE device

\* It then selects again what was selected before, and does not look whether it could.
\* mutant
NotRestored(overridden, selected, restored) == selected
Restored(overridden, selected, restored) ==
    IF overridden /\ restored THEN device ELSE selected

\* Each of the calls may fail: getting the device, selecting that of the instance,
\* making the stream, selecting the device again.
CreateCudaStream(i, created) ==
    \E got, chosen, restored \in BOOLEAN :
        LET overridden == got /\ device # DeviceId[i]
            selected == Selected(i, overridden, chosen)
        IN  /\ created => got /\ (overridden => chosen)
            /\ stream' = IF created THEN [stream EXCEPT ![i] = <<selected>>] ELSE stream
            /\ device' = Restored(overridden, selected, restored)
            /\ unrestored' =
                   IF overridden /\ ~restored THEN unrestored \cup {i} ELSE unrestored

MakeStream(i) ==
    IF Kind[i] = "gpu" THEN CreateCudaStream(i, TRUE) ELSE UNCHANGED cudaVars

ToInitialize(i) == pc = "ready" /\ instance[i] = "none"
OfKnownKind(i) == Kind[i] \in {"cpu", "model", "gpu"}

ModelInstanceInitialize(i) ==
    /\ ToInitialize(i) /\ OfKnownKind(i)
    /\ MakeStream(i)
    /\ instance' = [instance EXCEPT ![i] = "set"]
    /\ UNCHANGED <<modelVars, backend, pc, state, batchVars, control>>

\* An error of an instance makes loading the model fail.
InitializeFails(i, how) ==
    /\ pc' = "unloading"
    /\ instance' = [instance EXCEPT ![i] = how]
    /\ UNCHANGED <<modelVars, backend, state, batchVars, control>>

\* A property cannot be read, or the kind is an unknown one.
PropertiesFail(i) ==
    /\ ToInitialize(i)
    /\ InitializeFails(i, "unmade")
    /\ UNCHANGED cudaVars

CudaStreamFails(i) ==
    /\ ToInitialize(i) /\ Kind[i] = "gpu"
    /\ CreateCudaStream(i, FALSE)
    /\ InitializeFails(i, "unmade")

\* The host policy does not have one name: the constructor throws, and the destructor
\* that would destroy the stream does not run.
HostPolicyUnexpected(i) ==
    /\ ToInitialize(i) /\ OfKnownKind(i)
    /\ MakeStream(i)
    /\ InitializeFails(i, "abandoned")

\* A call for the host policy fails: what is thrown is a BackendModelException, which
\* ModelInstanceState::Create does not catch.
HostPolicyFails(i) ==
    /\ ToInitialize(i) /\ OfKnownKind(i)
    /\ MakeStream(i)
    /\ pc' = "terminated"
    /\ instance' = [instance EXCEPT ![i] = "abandoned"]
    /\ UNCHANGED <<modelVars, backend, state, batchVars, control>>

InstanceSetStateFails(i) ==
    /\ ToInitialize(i) /\ OfKnownKind(i)
    /\ MakeStream(i)
    /\ InitializeFails(i, "lost")

\* The destructor destroys the stream.
\* mutant
StreamKept(i) == stream
StreamDestroyed(i) == [stream EXCEPT ![i] = <<>>]

ModelInstanceFinalize(i) ==
    /\ pc = "unloading" /\ instance[i] = "set"
    /\ instance' = [instance EXCEPT ![i] = "gone"]
    /\ stream' = StreamDestroyed(i)
    /\ UNCHANGED <<modelVars, backend, pc, state, device, unrestored, batchVars, control>>
-----------------------------------------------------------------------------
(* The batching strategy of the model, if there is one.                     *)
LoadStrategy(s, l) ==
    /\ pc = "ready" /\ \A i \in Instances : instance[i] = "none"
    /\ BatcherInitialize(s, l)
    /\ UNCHANGED <<modelVars, loadVars, control>>

\* Without the parameter ModelBatcherInitialize returns an error.
LoadStrategyFails ==
    /\ pc = "ready" /\ strategy = "none" /\ NoLimit \in Limits
    /\ \A i \in Instances : instance[i] = "none"
    /\ pc' = "unloading"
    /\ UNCHANGED <<modelVars, backend, state, instance, cudaVars, batchVars, control>>

Served == pc = "ready" /\ \A i \in Instances : instance[i] = "set"
FormBatch ==
    /\ Served
    /\ \/ ModelBatchInitialize
       \/ \E r \in Requests : ModelBatchIncludeRequest(r)
       \/ ModelBatchFinalize
    /\ UNCHANGED <<modelVars, loadVars, control>>

UnloadStrategy ==
    /\ pc = "unloading"
    /\ BatcherFinalize
    /\ UNCHANGED <<modelVars, loadVars, control>>

\* external: Triton unloads a model when no batch is being formed.
Unload ==
    /\ Served /\ userp = <<>>
    /\ pc' = "unloading"
    /\ UNCHANGED <<modelVars, backend, state, instance, cudaVars, batchVars, control>>

Next ==
    \/ Construct \/ ConstructFails
    \/ \E config \in Completed : \E mbs \in {0, config.max_batch_size} : AutoComplete(config, mbs)
    \/ SetConfig \/ SetConfigFails
    \/ \E kind \in ControlKinds, required, typed \in BOOLEAN :
           GetSequenceControl(kind, required, typed)
    \/ ValidateModel
    \/ \E succeeds \in BOOLEAN : SetState(succeeds)
    \/ \E s \in {"volume", "single"}, l \in Limits : LoadStrategy(s, l)
    \/ LoadStrategyFails
    \/ \E i \in Instances :
           \/ ModelInstanceInitialize(i) \/ PropertiesFail(i) \/ CudaStreamFails(i)
           \/ HostPolicyUnexpected(i) \/ HostPolicyFails(i) \/ InstanceSetStateFails(i)
           \/ ModelInstanceFinalize(i)
    \/ FormBatch
    \/ Unload \/ UnloadStrategy \/ ModelFinalize

Spec == Init /\ [][Next]_vars
-----------------------------------------------------------------------------
\* Type invariant.
TypeOK ==
    /\ backend \in Backends
    /\ allow_optional \in BOOLEAN
    /\ {server, model_config} \subseteq Configs
    /\ max_batch_size \in Int /\ capacity \in Nat /\ storage \in Nat
    /\ Len(batch_outputs) <= capacity
    /\ \A n \in DOMAIN batch_output_map : batch_output_map[n][1] <= storage
    /\ pc \in {"idle", "complete", "completed", "setstate", "validate", "ready",
               "unloading", "unloaded", "terminated"}
    /\ state \in {"none", "live", "set", "lost"}
    /\ instance \in [Instances -> {"none", "set", "gone", "unmade", "abandoned", "lost"}]
    /\ \A i \in Instances : Len(stream[i]) <= 1
    /\ unrestored \subseteq Instances
    /\ userp # <<>> => userp[1] \in 0 .. VolumeModulus - 1

\* A model that was unloaded leaves nothing allocated but what the code cannot free any
\* more: a state Triton did not take, and the stream of an instance whose constructor
\* threw after making it, or which Triton did not take.
FreedWhenUnloaded ==
    pc = "unloaded" =>
        /\ state \in {"none", "lost"}
        /\ batcher = <<>> /\ userp = <<>>
        /\ \A i \in Instances : stream[i] # <<>> => instance[i] \in {"abandoned", "lost"}

\* An instance that serves has a stream if and only if it is one of a GPU, and has it on
\* its own device, also when the device of an instance before it is still selected.  The
\* loading thread keeps the device it had selected, whether the streams could be made or
\* not, unless selecting that device again failed: then it may have that of an instance
\* for which this failed.
StreamsOfInstances ==
    /\ device \in {Device} \cup {DeviceId[i] : i \in unrestored}
    /\ \A i \in Instances : instance[i] = "set" =>
           stream[i] = IF Kind[i] = "gpu" THEN <<DeviceId[i]>> ELSE <<>>

\* Streams, states and the batcher's data are held by whom they are for, and no longer.
ResourcesHeld == StreamsOfInstances /\ FreedWhenUnloaded

\* Instances serve only with members parsed from the configuration the server has then,
\* and only if that is one the backend supports.
ServedAsSupported ==
    (\E i \in Instances : instance[i] = "set") =>
        /\ fresh /\ state = "set"
        /\ ValidateModelConfig(backend, server)
        /\ max_batch_size = server.max_batch_size

\* While the batch outputs are those of the first parse, FindBatchOutput finds the first
\* one with the name as a target, with the shape of the output of that name if it is
\* the only target; nothing it returns has been freed.
WithTarget(name) ==
    {i \in DOMAIN server.batch_output : \E k \in DOMAIN server.batch_output[i].target_name :
        server.batch_output[i].target_name[k] = name}
FoundOutputs ==
    fresh /\ (\A k \in DOMAIN parsed : parsed[k].batch_output = server.batch_output) =>
        \A k \in DOMAIN server.output :
            LET io == server.output[k]
                i == FindBatchOutput(io.name)
                dims == IF io.reshape # NoReshape THEN io.reshape ELSE io.dims
            IN  /\ i = 0 <=> WithTarget(io.name) = {}
                /\ i # 0 => /\ i \in WithTarget(io.name)
                            /\ \A j \in WithTarget(io.name) : i <= j
                            /\ /\ batch_outputs[i].target_names = <<io.name>>
                               /\ \A j \in 1 .. k - 1 : server.output[j].name # io.name
                               => batch_outputs[i].shape =
                                       IF server.max_batch_size = 0 THEN dims ELSE <<-1>> \o dims

\* An input is taken to be ragged, or optional, if and only if a configuration parsed so
\* far says so: completing a configuration takes neither back.
FlagsAsParsed ==
    fresh =>
        /\ ragged_inputs = UNION {RaggedIn(parsed[k].input) : k \in DOMAIN parsed}
        /\ optional_inputs = UNION {OptionalIn(parsed[k].input) : k \in DOMAIN parsed}
        /\ ~allow_optional => optional_inputs = {}

\* The members agree with the configurations they were parsed from.
MembersAsParsed == TypeOK /\ FoundOutputs /\ FlagsAsParsed

\* The look-up of a control succeeds if and only if the tensors have different names, at
\* most one control of that kind is there (exactly one if it is required), and it has the
\* one list of two values that its datatype comes from (none, if it is typed).
Matches(kind) ==
    LET inputs == model_config.control_input
    IN  UNION {{<<j, k>> : k \in {k \in DOMAIN inputs[j].control : inputs[j].control[k].kind = kind}} :
                  j \in DOMAIN inputs}
GoodControl(c, typed) ==
    IF typed THEN c.int32 + c.fp32 + c.bool = 0
    ELSE \E t \in {"int32", "fp32", "bool"} :
             c[t] = 2 /\ \A u \in {"int32", "fp32", "bool"} \ {t} : c[u] = 0
ControlsAsConfigured ==
    control.kind # "none" =>
        LET inputs == model_config.control_input
            found == Matches(control.kind)
            At(jk) == inputs[jk[1]].control[jk[2]]
        IN  /\ ~control.result.error <=>
                   /\ \A j \in DOMAIN inputs : inputs[j].name # ""
                   /\ \A j, k \in DOMAIN inputs : inputs[j].name = inputs[k].name => j = k
                   /\ \A x, y \in found : x = y
                   /\ control.required => found # {}
                   /\ \A x \in found : GoodControl(At(x), control.typed)
            /\ ~control.result.error => \A x \in found :
                   /\ control.result.tensor_name = inputs[x[1]].name
                   /\ control.result.tensor_datatype =
                          IF control.typed THEN At(x).data_type
                          ELSE CASE At(x).int32 = 2 -> "TYPE_INT32"
                                 [] At(x).fp32 = 2 -> "TYPE_FP32"
                                 [] OTHER -> "TYPE_BOOL"
            /\ ~control.result.error /\ found = {} => control.result.tensor_name = ""
=============================================================================
