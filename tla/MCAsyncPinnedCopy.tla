------------------------- MODULE MCAsyncPinnedCopy -------------------------
(***************************************************************************)
(* Instances of AsyncPinnedCopy for TLC.                                   *)
(***************************************************************************)
EXTENDS AsyncPinnedCopy

\* Two flushes: CPU buffers for a GPU tensor, and GPU buffers for a CPU
\* tensor.  Request 1 has buffers in both.
TwoGroups == <<3, 2>>
TwoGroupsSpan == << <<<<1, 1>>, <<1, 2>>, <<2, 2>>>>, <<<<1, 1>>, <<3, 3>>>> >>
HostThenDevice == <<"CPU", "GPU">>
DeviceThenHost == <<"GPU", "CPU">>

\* One flush of three or four buffers, one per request.
OneGroup3 == <<3>>
OneGroup4 == <<4>>
OneGroupSpan == << [i \in 1 .. 4 |-> <<i, i>>] >>
HostOnly == <<"CPU">>
DeviceOnly == <<"GPU">>
=============================================================================
