---------------------------- MODULE MCBatchInput ----------------------------
(***************************************************************************)
(* Calls and configurations of BatchInput for TLC.                         *)
(***************************************************************************)
EXTENDS BatchInput

Given(kind, shapes, place, cells) ==
    [kind |-> kind, shapes |-> shapes, given |-> TRUE, cells |-> cells,
     allowed |-> <<place>>]

Chosen(kind, shapes, allowed) ==
    [kind |-> kind, shapes |-> shapes, given |-> FALSE, cells |-> 0,
     allowed |-> allowed]

Config(events, maxFaults) ==
    [event |-> "event" \in events, ready |-> "ready" \in events,
     maxFaults |-> maxFaults]

\* Shapes of two or three requests, with a batch of two items among them, or
\* with a request without items, the last one or not.
Shapes == {<<<<2, 3>>, <<1, 2>>>>, <<<<1, 2, 2>>, <<2, 1, 3>>, <<1, 1, 1>>>>,
           <<<<1>>, <<2>>>>,
           <<<<1, 2, 2>>, <<0, 1, 3>>>>, <<<<0, 3>>, <<2, 2>>>>}

(***************************************************************************)
(* One call: all kinds, all places, given buffers from none to too many    *)
(* cells, allocations with a second choice, up to two failing calls.       *)
(***************************************************************************)
SingleCalls ==
    {<<Given(k, s, p, n)>> :
        k \in Kinds, s \in Shapes, p \in {"CPU", "GPU0"}, n \in 0 .. 9}
    \cup {<<Chosen(k, s, a)>> :
        k \in Kinds, s \in Shapes,
        a \in {<<>>, <<"CPU">>, <<"GPU0", "CPU">>, <<"CPU_PINNED">>}}
    \cup {<<[Given(k, s, "CPU", 9) EXCEPT !.allowed = <<"CPU", "GPU0">>]>> :
        k \in Kinds, s \in Shapes}

(***************************************************************************)
(* Two calls, with the events and a failing call.                          *)
(***************************************************************************)
DoubleCalls ==
    {<<Given(k, s, p, 4), Chosen(l, s, <<q>>)>> :
        k \in Kinds, l \in Kinds, s \in {<<<<2, 3>>, <<1, 2>>>>},
        p \in {"CPU", "GPU0"}, q \in {"CPU", "GPU0"}}

AllScenarios ==
    (SingleCalls \X {Config({}, 2)})
        \cup (DoubleCalls \X {Config({"ready"}, 1), Config({"ready", "event"}, 0)})
=============================================================================
