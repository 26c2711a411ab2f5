-------------------------- MODULE MCOutputResponder --------------------------
(***************************************************************************)
(* Batches and configurations of OutputResponder for TLC.                  *)
(***************************************************************************)
EXTENDS OutputResponder

Output(kind, place, rows, sizes, wants, dst) ==
    [kind |-> kind, place |-> place, rows |-> rows, sizes |-> sizes,
     wants |-> wants, dst |-> dst]

Config(pinned, firstDim, onStream, event, maxFaults) ==
    [pinned |-> pinned, firstDim |-> firstDim, copyOnStream |-> onStream,
     event |-> event, maxFaults |-> maxFaults]

(***************************************************************************)
(* One tensor for three responses, in buffers of any places, asked for by  *)
(* all the requests or not by the middle one, with all its rows or with    *)
(* too few.                                                                *)
(***************************************************************************)
ScatterBatches ==
    {<<Output(kind, place, rows, <<1, 2, 1>>, wants, dst)>> :
        kind \in {"output", "state", "batch"},
        place \in {"CPU", "GPU0"}, rows \in {-1, 3, 4},
        wants \in {{1, 2, 3}, {1, 3}},
        dst \in [1 .. 3 -> {"CPU", "CPU_PINNED", "GPU0"}]}

ScatterConfigs ==
    {Config(p, d, s, FALSE, 0) : p \in BOOLEAN, d \in BOOLEAN, s \in BOOLEAN}

(***************************************************************************)
(* Two tensors for two responses, with failures and the event.             *)
(***************************************************************************)
PairBatches ==
    {<<Output(kind, a, -1, <<1, 1>>, {1, 2}, dst),
       Output("output", b, rows, <<1, 1>>, {1, 2}, <<c, "CPU">>)>> :
        kind \in {"output", "state"}, a \in {"CPU", "GPU0"}, b \in {"CPU", "GPU0"},
        rows \in {1, 2}, c \in {"CPU", "GPU0"},
        dst \in [1 .. 2 -> {"CPU", "GPU0"}]}

PairConfigs ==
    {Config(p, TRUE, s, e, 2) : p \in BOOLEAN, s \in BOOLEAN, e \in BOOLEAN}

AllScenarios ==
    (ScatterBatches \X ScatterConfigs) \cup (PairBatches \X PairConfigs)
=============================================================================
