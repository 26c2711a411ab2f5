--------------------------- MODULE MCModelLoading ---------------------------
EXTENDS ModelLoading

\* Instances on two GPUs that are not selected at first, and one on the CPU.
MCInstances == {"i1", "i2", "i3"}
MCKind == [i1 |-> "gpu", i2 |-> "cpu", i3 |-> "gpu"]
MCDeviceId == [i1 |-> 1, i2 |-> 0, i3 |-> 2]

\* Bytes modulo 8 for 32 bits: a limit past it, a sum at the boundary, a request of two
\* inputs that exceeds it, and an empty one.
MCLimits == {NoLimit, 3, 9}
MCRequests == {<<1>>, <<2, 1>>, <<7, 2>>, <<>>}

Tensor(name) ==
    [name |-> name, data_type |-> "TYPE_FP32", dims |-> <<4>>, reshape |-> NoReshape,
     ragged |-> FALSE, optional |-> FALSE]
Base ==
    [max_batch_size |-> 0, pinned |-> <<"on", "absent">>, batch_input |-> <<>>,
     batch_output |-> <<>>, input |-> <<Tensor("INPUT0")>>, output |-> <<Tensor("OUTPUT0")>>,
     control_input |-> <<>>]
TwoIO ==
    [Base EXCEPT !.input = <<Tensor("INPUT0"), Tensor("INPUT1")>>,
                 !.output = <<Tensor("OUTPUT0"), Tensor("OUTPUT1")>>]
Scatter(targets) ==
    [target_name |-> targets, kind |-> "BATCH_SCATTER_WITH_INPUT_SHAPE", source_input |-> <<"INPUT0">>]
Count(kind) ==
    [target_name |-> <<"COUNT">>, kind |-> kind, data_type |-> "TYPE_INT32",
     source_input |-> <<"INPUT0">>]

\* Two batch outputs with a common target; the same ones and the batch size filled in; one
\* output fewer, or more; other flags; what recommended and bls do not support; what the
\* parser refuses.
Shared == [TwoIO EXCEPT !.batch_output = <<Scatter(<<"OUTPUT0">>), Scatter(<<"OUTPUT1", "OUTPUT0">>)>>]
Batched ==
    [Shared EXCEPT !.max_batch_size = 4, !.output[1].reshape = <<2, 2>>, !.input[1].ragged = TRUE]
One == [Base EXCEPT !.batch_output = <<Scatter(<<"OUTPUT0">>)>>, !.input[1].optional = TRUE]
Three ==
    [TwoIO EXCEPT !.batch_output = <<Scatter(<<"X">>), Scatter(<<"OUTPUT1">>), Scatter(<<"OUTPUT0">>)>>,
                  !.input[2].ragged = TRUE, !.input[1].optional = TRUE]
BadOutput == [Base EXCEPT !.batch_output = <<Scatter(<<"OUTPUT0">>), [Scatter(<<"X">>) EXCEPT !.kind = "other"]>>]
BadInput == [Base EXCEPT !.batch_input = <<Count("BATCH_ELEMENT_COUNT"), Count("other")>>]

Control(kind, int32, fp32, bool) ==
    [kind |-> kind, int32 |-> int32, fp32 |-> fp32, bool |-> bool, data_type |-> "TYPE_UINT64"]
On(name, controls) == [name |-> name, control |-> controls]
StartBool == Control("START", 0, 0, 2)
StartInt == Control("START", 2, 0, 0)
Corrid == Control("CORRID", 0, 0, 0)
Controls ==
    {<<On("a", <<StartBool>>), On("b", <<Corrid>>)>>, <<On("a", <<StartInt, Corrid>>)>>,
     <<On("a", <<StartBool, StartInt>>)>>, <<On("a", <<StartBool>>), On("b", <<StartBool>>)>>,
     <<On("a", <<StartBool>>), On("a", <<Corrid>>)>>, <<On("", <<>>)>>,
     <<On("a", <<Control("START", 1, 0, 0)>>), On("b", <<Control("CORRID", 0, 2, 0)>>)>>,
     <<On("a", <<Control("START", 2, 2, 0)>>)>>}
WithControls == {[Base EXCEPT !.control_input = c] : c \in Controls}

\* external: the server fills in a batch size.
Filled(config) == IF config = Shared THEN Batched ELSE config
MCCompleted == {Shared, Batched, One, Three, BadOutput, BadInput}
MCConfigs ==
    {Base, TwoIO, Shared, Batched, One, Three, BadOutput, BadInput,
     [Base EXCEPT !.output[1].data_type = "TYPE_FP16"]} \cup WithControls
MCNormalized == [config \in MCConfigs |-> Filled(config)]
=============================================================================
