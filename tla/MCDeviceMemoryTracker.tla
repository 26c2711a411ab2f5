----------------------- MODULE MCDeviceMemoryTracker -----------------------
(***************************************************************************)
(* Two threads that track, on a machine with one GPU.                      *)
(***************************************************************************)
EXTENDS DeviceMemoryTracker, TLC

\* Threads and usages are interchangeable.
Interchangeable == Permutations(Threads) \cup Permutations(Usages)

Call(kind, memory, device, n) ==
    [kind |-> kind, memory |-> memory, device |-> device, bytes |-> n]

\* cudaMalloc, cudaFree and cudaMallocHost, and a call without a memory record.
SomeOps == {Call("allocation", "cuda", 0, 3), Call("release", "cuda", 0, 2),
            Call("allocation", "pinned", 0, 1), Call("none", "unknown", 0, 0)}
\* A device that was not counted as well.
AllOps == SomeOps \cup {Call("allocation", "cuda", 1, 1)}
=============================================================================
