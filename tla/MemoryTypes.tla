---------------------------- MODULE MemoryTypes ----------------------------
(***************************************************************************)
(* Memory types and the copy primitive of src/src/backend_common.cc that   *)
(* the collector, the responder and the asynchronous staging path share.   *)
(*                                                                         *)
(* A place is a memory type together with its memory type id: the two GPU  *)
(* places are two devices.                                                 *)
(***************************************************************************)

MemoryTypes == {"CPU", "CPU_PINNED", "GPU"}

Places == {"CPU", "CPU_PINNED", "GPU0", "GPU1"}

MemoryType(place) == IF place \in {"GPU0", "GPU1"} THEN "GPU" ELSE place

(***************************************************************************)
(* The memory type on the other side of a transfer for which a pinned      *)
(* staging buffer is wanted; "CPU_PINNED" stands for "none".               *)
(***************************************************************************)
GetUsePinnedMemoryType(refType) ==
    [CPU |-> "GPU", CPU_PINNED |-> "CPU_PINNED", GPU |-> "CPU"][refType]

(***************************************************************************)
(* How CopyBuffer moves bytes: "host" when the call returns with the bytes *)
(* copied, "stream" when it only queues the copy on the CUDA stream and    *)
(* reports cuda_used.  The third outcome, an error that moves nothing and  *)
(* leaves cuda_used FALSE, is a choice of the actions that call it.        *)
(***************************************************************************)
CopyMode(srcType, dstType, copyOnStream) ==
    IF srcType = "GPU" \/ dstType = "GPU" \/ copyOnStream
    THEN "stream"
    ELSE "host"
=============================================================================
