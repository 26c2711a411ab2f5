-------------------------- MODULE MCInputCollector --------------------------
(***************************************************************************)
(* Batches and configurations of InputCollector for TLC.                   *)
(***************************************************************************)
EXTENDS InputCollector

Buf(place, addr, size) == [place |-> place, addr |-> addr, size |-> size]

\* A tensor in a buffer the caller gives, and one the collector may choose.
Given(inputs, place, bytes) ==
    [inputs |-> inputs, given |-> TRUE, bytes |-> bytes, allowed |-> <<place>>]

Chosen(inputs, allowed) ==
    [inputs |-> inputs, given |-> FALSE, bytes |-> 0, allowed |-> allowed]

Config(pinned, threshold, onStream, coalesce, events, maxFaults) ==
    [pinned |-> pinned, threshold |-> threshold, copyOnStream |-> onStream,
     coalesce |-> coalesce, event |-> "event" \in events,
     ready |-> "ready" \in events, maxFaults |-> maxFaults]

(***************************************************************************)
(* Three requests of one buffer each, in any places, each buffer adjacent  *)
(* to the one before it or not.                                            *)
(***************************************************************************)
ThreeBuffers(p, gap) ==
    <<<<Buf(p[1], 1, 1)>>, <<Buf(p[2], 2 + gap[1], 2)>>,
      <<Buf(p[3], 4 + gap[1] + gap[2], 1)>>>>

Threes(places) ==
    {ThreeBuffers(p, gap) : p \in [1 .. 3 -> places], gap \in [1 .. 2 -> 0 .. 1]}

GatherBatches ==
    {<<Given(inputs, place, 4)>> :
        inputs \in Threes({"CPU", "GPU0"}), place \in {"CPU", "GPU0"}}
    \cup
    {<<Given(inputs, place, 4)>> :
        inputs \in Threes({"CPU_PINNED", "GPU1"}), place \in {"CPU", "GPU0"}}

GatherConfigs ==
    {Config(p, k, s, c, {}, 0) :
        p \in BOOLEAN, k \in {0, 2}, s \in BOOLEAN, c \in BOOLEAN}

(***************************************************************************)
(* Two requests that fail in every way: buffers too short, no destination, *)
(* inputs of several buffers or of none, allocations and copies that fail. *)
(***************************************************************************)
TwoRequests ==
    {<<<<Buf(a, 1, 1), Buf(b, 2 + g, 1)>>, <<Buf(c, 3 + g, 1)>>>> :
        a \in {"CPU", "GPU0"}, b \in {"CPU", "GPU0"}, c \in {"CPU", "GPU0"},
        g \in 0 .. 1}
    \cup {<<<<Buf("GPU0", 1, 2)>>, <<>>>>}

FaultBatches ==
    {<<Given(inputs, place, bytes)>> :
        inputs \in TwoRequests, place \in {"CPU", "GPU0"}, bytes \in {0, 2, 3}}
    \cup
    {<<Chosen(inputs, allowed)>> :
        inputs \in TwoRequests,
        allowed \in {<<>>, <<"GPU0", "CPU">>, <<"CPU_PINNED">>}}
    \cup {<<[Given(inputs, "CPU", 3) EXCEPT !.allowed = <<>>]>> :
              inputs \in TwoRequests}

FaultConfigs ==
    {Config(p, k, FALSE, c, {}, 2) :
        p \in BOOLEAN, k \in {0, 1}, c \in BOOLEAN}

(***************************************************************************)
(* Two tensors, with the events.                                           *)
(***************************************************************************)
PairBatches ==
    {<<Given(<<<<Buf(a, 1, 1)>>, <<Buf(b, 3, 1)>>>>, p, 2),
       Chosen(<<<<Buf(b, 11, 1)>>, <<Buf(a, 12, 1)>>>>, <<q>>)>> :
        a \in {"CPU", "GPU0"}, b \in {"CPU", "GPU0"},
        p \in {"CPU", "GPU0"}, q \in {"CPU", "GPU0"}}

PairConfigs ==
    {Config(p, k, s, FALSE, e, 1) :
        p \in BOOLEAN, k \in {0, 1}, s \in BOOLEAN,
        e \in {{"ready"}, {"event", "ready"}}}

AllScenarios ==
    (GatherBatches \X GatherConfigs) \cup (FaultBatches \X FaultConfigs)
        \cup (PairBatches \X PairConfigs)
=============================================================================
