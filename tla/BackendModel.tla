---------------------------- MODULE BackendModel ----------------------------
(***************************************************************************)
(* The class BackendModel: a copy of the model configuration that the      *)
(* server holds, and members derived from it by ParseModelConfig, first in *)
(* the constructor and again each time a backend has completed the copy    *)
(* and sent it back with SetModelConfig.                                   *)
(*                                                                         *)
(* batch_output_map_ holds pointers into the vector batch_outputs_: a      *)
(* pointer is the vector's storage and an index, and the storage is a new  *)
(* one whenever the vector outgrows its capacity.                          *)
(***************************************************************************)
EXTENDS ModelConfig

CONSTANTS
    Configs,       \* model configurations
    Normalized,    \* external: what the server makes of a configuration it is sent
    MaxParses      \* bound: calls of ParseModelConfig

ASSUME NormalizedAssumption == Normalized \in [Configs -> Configs]
ASSUME ParsesAssumption == MaxParses \in Nat

\* Members have their types; the capacities of Room() are enough for 8 batch outputs.
ASSUME ConfigsAssumption ==
    \A c \in Configs :
        /\ c.max_batch_size \in Int
        /\ c.batch_output \in Seq(Range(c.batch_output)) /\ Len(c.batch_output) <= 8
        /\ c.output \in Seq(Range(c.output))
        /\ \A k \in DOMAIN c.output :
              /\ c.output[k].dims \in Seq(Int)
              /\ c.output[k].reshape = NoReshape \/ c.output[k].reshape \in Seq(Int)
        /\ c.control_input \in Seq(Range(c.control_input))
        /\ \A j \in DOMAIN c.control_input :
              LET controls == c.control_input[j].control
              IN  /\ controls \in Seq(Range(controls))
                  /\ \A k \in DOMAIN controls :
                         {controls[k].int32, controls[k].fp32, controls[k].bool} \subseteq Nat

VARIABLES
    allow_optional, \* allow_optional_, which the constructor is given
    server,        \* the configuration the server holds
    model_config,  \* the copy: model_config_
    max_batch_size, enable_pinned, batch_inputs, batch_outputs,
    storage, capacity,  \* of the vector batch_outputs_
    batch_output_map, ragged_inputs, optional_inputs,
    parsed,        \* history: the configurations parsed so far
    fresh          \* history: the members come from the last parse, which succeeded

derived == <<max_batch_size, enable_pinned, batch_inputs, batch_outputs, storage,
             capacity, batch_output_map, ragged_inputs, optional_inputs>>
modelVars == <<allow_optional, server, model_config, derived, parsed, fresh>>

\* The members before the constructor has parsed anything.
ModelInit ==
    /\ allow_optional \in BOOLEAN
    /\ server \in Configs
    /\ model_config = server
    /\ max_batch_size = 0 /\ enable_pinned = <<FALSE, FALSE>>
    /\ batch_inputs = <<>> /\ batch_outputs = <<>>
    /\ storage = 0 /\ capacity = 0
    /\ batch_output_map = <<>> /\ ragged_inputs = {} /\ optional_inputs = {}
    /\ parsed = <<>> /\ fresh = FALSE
-----------------------------------------------------------------------------
\* clear() keeps the storage; it is replaced when n elements do not fit into it.
Room(n) ==
    IF n <= capacity THEN UNCHANGED <<storage, capacity>>
    ELSE /\ storage' = storage + 1
         /\ capacity' = CHOOSE c \in {1, 2, 4, 8} : n <= c /\ c < 2 * n

\* The first batch output with a target of this name; emplace() does not replace
\* an entry the map has.
Targets == UNION {{batch_outputs'[i].target_names[k] : k \in DOMAIN batch_outputs'[i].target_names} :
                     i \in DOMAIN batch_outputs'}
FirstWithTarget(name) ==
    CHOOSE i \in DOMAIN batch_outputs' :
        /\ \E k \in DOMAIN batch_outputs'[i].target_names : batch_outputs'[i].target_names[k] = name
        /\ \A j \in 1 .. i - 1 : \A k \in DOMAIN batch_outputs'[j].target_names :
               batch_outputs'[j].target_names[k] # name

\* mutant: operator[] for emplace(), so that the last batch output stays.
EmplacedLast ==
    [name \in Targets |-> <<storage', Max({i \in DOMAIN batch_outputs' :
        \E k \in DOMAIN batch_outputs'[i].target_names : batch_outputs'[i].target_names[k] = name})>>]
Emplaced ==
    [name \in DOMAIN batch_output_map \cup Targets |->
        IF name \in DOMAIN batch_output_map THEN batch_output_map[name]
        ELSE <<storage', FirstWithTarget(name)>>]

\* The loop over the inputs returns at the first optional one if those are not
\* supported, after looking whether it is ragged.
Refused(ios) == {i \in DOMAIN ios : ios[i].optional /\ ~allow_optional}
RaggedIn(inputs) == {inputs[i].name : i \in {k \in DOMAIN inputs : inputs[k].ragged}}
OptionalIn(inputs) == {inputs[i].name : i \in {k \in DOMAIN inputs : inputs[k].optional}}

ParseInputs(config) ==
    /\ ragged_inputs' = ragged_inputs \cup RaggedIn(UpToBad(config.input, Refused(config.input)))
    /\ optional_inputs' =
           optional_inputs \cup (IF allow_optional THEN OptionalIn(config.input) ELSE {})
    /\ fresh' = (Refused(config.input) = {})

ParseBatchOutputs(config) ==
    LET bad == BadBatchOutputs(config.batch_output)
        read == UpToBad(config.batch_output, bad)
    IN  /\ batch_outputs' = [i \in DOMAIN read |-> MadeBatchOutput(config, read[i])]
        /\ Room(Len(read))
        /\ IF bad = {}
           THEN /\ batch_output_map' = Emplaced
                /\ ParseInputs(config)
           ELSE /\ fresh' = FALSE
                /\ UNCHANGED <<batch_output_map, ragged_inputs, optional_inputs>>

\* ParseModelConfig of the configuration the server holds; an error is fresh' FALSE,
\* with the members that were reached changed.
ParseModelConfig(config) ==
    /\ Len(parsed) < MaxParses
    /\ parsed' = Append(parsed, config)
    /\ UNCHANGED allow_optional
    /\ model_config' = config
    /\ max_batch_size' = config.max_batch_size
    /\ enable_pinned' = [k \in {1, 2} |-> config.pinned[k] = "on"]
    /\ batch_inputs' = UpToBad(config.batch_input, BadBatchInputs(config.batch_input))
    /\ IF BadBatchInputs(config.batch_input) = {}
       THEN ParseBatchOutputs(config)
       ELSE /\ fresh' = FALSE
            /\ UNCHANGED <<batch_outputs, storage, capacity, batch_output_map,
                           ragged_inputs, optional_inputs>>

\* An API call fails before anything was parsed.
ParseFails ==
    /\ fresh' = FALSE
    /\ UNCHANGED <<allow_optional, model_config, derived, parsed>>

\* A backend fills in the copy it gets from ModelConfig(), and sets the batch size.
CompleteConfig(config, mbs) ==
    /\ fresh
    /\ model_config' = config
    /\ max_batch_size' = mbs
    /\ UNCHANGED <<allow_optional, server, enable_pinned, batch_inputs, batch_outputs, storage, capacity,
                   batch_output_map, ragged_inputs, optional_inputs, parsed, fresh>>

\* The calls of SetModelConfig, in their order; the ones up to ModelSetConfig may
\* fail before the server has changed anything, the ones after it do afterwards.
SetModelConfigFailsBefore == ParseFails /\ UNCHANGED server
SetModelConfigFailsAfter ==
    /\ server' = Normalized[model_config]
    /\ ParseFails
\* mutant: the copy is used as it was sent.
SetModelConfigUnparsed ==
    /\ server' = Normalized[model_config]
    /\ ParseModelConfig(model_config)
SetModelConfig ==
    /\ server' = Normalized[model_config]
    /\ ParseModelConfig(Normalized[model_config])
-----------------------------------------------------------------------------
SupportsFirstDimBatching == max_batch_size > 0

\* FindBatchOutput: what the pointer in the map points to now, 0 for nullptr, and
\* -1 when the batch output it pointed to is gone.
FindBatchOutput(name) ==
    IF name \notin DOMAIN batch_output_map THEN 0
    ELSE LET p == batch_output_map[name]
         IN  IF p[1] = storage /\ p[2] <= Len(batch_outputs) THEN p[2] ELSE -1
=============================================================================
