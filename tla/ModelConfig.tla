---------------------------- MODULE ModelConfig ----------------------------
(***************************************************************************)
(* Model configurations, and what the library and the example backends     *)
(* read out of them.  A configuration is a record:                         *)
(*   max_batch_size   a number                                             *)
(*   pinned           <<input, output>>, each "on", "off" or "absent"     *)
(*   batch_input      sequence of [target_name, kind, data_type,           *)
(*                    source_input]                                        *)
(*   batch_output     sequence of [target_name, kind, source_input]        *)
(*   input, output    sequences of [name, data_type, dims, reshape,        *)
(*                    ragged, optional]; reshape is "absent" in a tuple of *)
(*                    its own or the shape                                 *)
(*   control_input    sequence of [name, control], with control a sequence *)
(*                    of [kind, int32, fp32, bool, data_type]: the numbers *)
(*                    of entries in the three false-true lists             *)
(* Triton hands out configurations with every member there and of its      *)
(* type, so that the errors of TritonJson are left out.                    *)
(***************************************************************************)
EXTENDS Integers, FiniteSets, SequencesExt

BatchInputKinds ==
    {"BATCH_ELEMENT_COUNT", "BATCH_ACCUMULATED_ELEMENT_COUNT",
     "BATCH_ACCUMULATED_ELEMENT_COUNT_WITH_ZERO", "BATCH_MAX_ELEMENT_COUNT_AS_SHAPE",
     "BATCH_ITEM_SHAPE", "BATCH_ITEM_SHAPE_FLATTEN"}
BatchOutputKinds == {"BATCH_SCATTER_WITH_INPUT_SHAPE"}
DataTypes ==
    {"TYPE_BOOL", "TYPE_UINT8", "TYPE_UINT16", "TYPE_UINT32", "TYPE_UINT64",
     "TYPE_INT8", "TYPE_INT16", "TYPE_INT32", "TYPE_INT64", "TYPE_FP16",
     "TYPE_FP32", "TYPE_FP64", "TYPE_STRING", "TYPE_BF16"}

NoReshape == <<"absent">>

\* A loop that appends an element and then looks whether it is good: the elements
\* up to the first of the bad ones, which is there as well.
UpToBad(s, bad) == IF bad = {} THEN s ELSE SubSeq(s, 1, Min(bad))
-----------------------------------------------------------------------------
(* BatchInput::Init and BatchOutput::ParseFromModelConfig.                  *)
BadBatchInputs(bis) ==
    {i \in DOMAIN bis : bis[i].kind \notin BatchInputKinds \/ bis[i].data_type \notin DataTypes}
BadBatchOutputs(bos) == {i \in DOMAIN bos : bos[i].kind \notin BatchOutputKinds}

\* The output that the first target of a batch output names, as a set of at most
\* one element: the loop over the outputs stops at the first one.
TargetOutput(config, bo) ==
    LET named == {i \in DOMAIN config.output : config.output[i].name = bo.target_name[1]}
    IN  {config.output[i] : i \in {k \in named : \A j \in named : k <= j}}

BatchOutputShape(config, bo) ==
    (IF config.max_batch_size # 0 THEN <<-1>> ELSE <<>>)
    \o (CHOOSE dims \in {IF io.reshape # NoReshape THEN io.reshape ELSE io.dims :
                            io \in TargetOutput(config, bo)}
                        \cup (IF TargetOutput(config, bo) = {} THEN {<<>>} ELSE {}) : TRUE)

MadeBatchOutput(config, bo) ==
    [target_names |-> bo.target_name, source_inputs |-> bo.source_input,
     shape |-> BatchOutputShape(config, bo)]
-----------------------------------------------------------------------------
(* ValidateModelConfig of the example backends; minimal has none.           *)
RecommendedSupports(config) ==
    /\ Len(config.input) = 1 /\ Len(config.output) = 1
    /\ config.input[1].data_type = config.output[1].data_type
    /\ config.input[1].reshape = NoReshape /\ config.output[1].reshape = NoReshape
    /\ config.input[1].dims = config.output[1].dims

BLSSupports(config) ==
    /\ config.max_batch_size = 0
    /\ Len(config.input) = 2 /\ Len(config.output) = 2
    /\ config.input[1].name = "INPUT0" /\ config.input[2].name = "INPUT1"
    /\ config.output[1].name = "OUTPUT0" /\ config.output[2].name = "OUTPUT1"
    /\ \A k \in {1, 2} : \A io \in {config.input[k], config.output[k]} :
           Len(io.dims) = 1 /\ io.data_type = "TYPE_FP32"

ValidateModelConfig(backend, config) ==
    CASE backend = "recommended" -> RecommendedSupports(config)
      [] backend = "bls" -> BLSSupports(config)
      [] OTHER -> TRUE
-----------------------------------------------------------------------------
(* GetBooleanSequenceControlProperties, GetTypedSequenceControlProperties:  *)
(* one loop over the control inputs and one over the controls of each.      *)
FalseTrueLists(c) == {t \in {"int32", "fp32", "bool"} : c[t] > 0}
TypeName(t) == CASE t = "int32" -> "TYPE_INT32" [] t = "fp32" -> "TYPE_FP32" [] OTHER -> "TYPE_BOOL"

\* What is looked for, the control input the loops are at, and what they have seen.
NothingSeen(kind, typed) ==
    [kind |-> kind, typed |-> typed, input_name |-> "", error |-> FALSE, seen_tensors |-> {},
     seen_control |-> FALSE, tensor_name |-> "", tensor_datatype |-> ""]

BooleanControl(a, c) ==
    IF Cardinality(FalseTrueLists(c)) # 1 THEN [a EXCEPT !.error = TRUE]
    ELSE LET t == CHOOSE t \in FalseTrueLists(c) : TRUE
         IN  IF c[t] # 2 THEN [a EXCEPT !.error = TRUE]
             ELSE [a EXCEPT !.tensor_datatype = TypeName(t)]

TypedControl(a, c) ==
    [a EXCEPT !.tensor_datatype = c.data_type, !.error = FalseTrueLists(c) # {}]

\* mutant: the control is not remembered.
SeeControlAgain(a, c) ==
    IF a.seen_control THEN [a EXCEPT !.error = TRUE]
    ELSE LET seen == [a EXCEPT !.tensor_name = a.input_name]
         IN  IF a.typed THEN TypedControl(seen, c) ELSE BooleanControl(seen, c)
SeeControl(a, c) ==
    IF a.seen_control THEN [a EXCEPT !.error = TRUE]
    ELSE LET seen == [a EXCEPT !.tensor_name = a.input_name, !.seen_control = TRUE]
         IN  IF a.typed THEN TypedControl(seen, c) ELSE BooleanControl(seen, c)

SeeOfKind(a, c) == IF a.error \/ c.kind # a.kind THEN a ELSE SeeControl(a, c)

SeeControlInput(a, ci) ==
    IF a.error THEN a
    ELSE IF ci.name = "" \/ ci.name \in a.seen_tensors THEN [a EXCEPT !.error = TRUE]
    ELSE FoldLeft(SeeOfKind, [a EXCEPT !.seen_tensors = @ \cup {ci.name}, !.input_name = ci.name],
                  ci.control)

SequenceControl(config, kind, required, typed) ==
    LET a == FoldLeft(SeeControlInput, NothingSeen(kind, typed), config.control_input)
    IN  IF a.error \/ a.seen_control THEN a
        ELSE [a EXCEPT !.error = required, !.tensor_name = IF required THEN @ ELSE ""]
=============================================================================
