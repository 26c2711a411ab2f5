-------------------------- MODULE BatchingStrategy --------------------------
(***************************************************************************)
(* The two custom batching strategies of src/examples/batching_strategies: *)
(* callbacks that Triton asks, request by request, whether a request still *)
(* goes into the batch that is being formed.  volume_batching limits the   *)
(* bytes of the inputs of a batch, single_batching makes batches of one.   *)
(*                                                                         *)
(* What the batcher and userp point to is a sequence of one number, or     *)
(* empty when nothing is allocated.  Volumes are unsigned ints.            *)
(***************************************************************************)
EXTENDS Integers, Sequences, SequencesExt

CONSTANTS
    Limits,         \* values of MAX_BATCH_VOLUME_BYTES, or NoLimit
    Requests,       \* requests: the byte sizes of the inputs of each
    VolumeModulus,  \* 2^w for an unsigned int of w bits
    MaxBatch        \* bound: requests in a batch

NoLimit == -1  \* the parameter is missing, or not a number

ASSUME VolumeAssumption ==
    /\ Limits \subseteq Nat \cup {NoLimit}
    /\ Requests \subseteq Seq(Nat)
    /\ VolumeModulus \in Nat \ {0, 1} /\ MaxBatch \in Nat

VARIABLES
    strategy,  \* the library that was loaded
    limit,     \* history: the parameter in the model configuration
    batcher,   \* the read-only data of the model
    userp,     \* the data of the batch that is being formed
    batch,     \* history: the requests included in it
    refused    \* history: the request refused last for it, if any

batchVars == <<strategy, limit, batcher, userp, batch, refused>>

BatchInit ==
    /\ strategy = "none" /\ limit = NoLimit
    /\ batcher = <<>> /\ userp = <<>> /\ batch = <<>> /\ refused = <<>>

\* ModelBatcherInitialize.  The limit is read into 64 bits and kept in 32;
\* single_batching needs no data.
BatcherInitialize(s, l) ==
    /\ strategy = "none"
    /\ s = "volume" => l # NoLimit
    /\ strategy' = s /\ limit' = l
    /\ batcher' = IF s = "volume" THEN <<l % VolumeModulus>> ELSE <<>>
    /\ UNCHANGED <<userp, batch, refused>>

ModelBatchInitialize ==
    /\ strategy # "none" /\ userp = <<>>
    /\ userp' = IF strategy = "volume" THEN batcher ELSE <<1>>
    /\ UNCHANGED <<strategy, limit, batcher, batch, refused>>

\* The sum of the inputs, added up in an unsigned int.
PendingVolume(r) ==
    LET Add(sum, size) == (sum + (size % VolumeModulus)) % VolumeModulus
    IN  FoldLeft(Add, 0, r)

Includes(r) == IF strategy = "volume" THEN PendingVolume(r) <= userp[1] ELSE userp[1] = 1

\* mutant: the volume is compared and not used up.
RemainingAll(r) == userp[1]
Remaining(r) == IF strategy = "volume" THEN userp[1] - PendingVolume(r) ELSE 0

ModelBatchIncludeRequest(r) ==
    /\ userp # <<>> /\ Len(batch) < MaxBatch
    /\ IF Includes(r)
       THEN /\ userp' = <<Remaining(r)>> /\ batch' = Append(batch, r)
            /\ UNCHANGED refused
       ELSE /\ refused' = <<r>>
            /\ UNCHANGED <<userp, batch>>
    /\ UNCHANGED <<strategy, limit, batcher>>

ModelBatchFinalize ==
    /\ userp # <<>>
    /\ userp' = <<>> /\ batch' = <<>> /\ refused' = <<>>
    /\ UNCHANGED <<strategy, limit, batcher>>

BatcherFinalize ==
    /\ strategy # "none" /\ userp = <<>>
    /\ strategy' = "none" /\ limit' = NoLimit /\ batcher' = <<>>
    /\ UNCHANGED <<userp, batch, refused>>
-----------------------------------------------------------------------------
VolumeOf(r) == FoldLeft(+, 0, r)
BatchVolume == FoldLeft(LAMBDA sum, r : sum + VolumeOf(r), 0, batch)
Fits(r) == VolumeOf(r) < VolumeModulus

\* A batch has at most the volume that the model configuration allows, whatever the
\* width of the limit, as long as no request by itself exceeds 32 bits; a batch of
\* single_batching has one request at most.
BatchWithinLimit ==
    /\ strategy = "volume" /\ (\A i \in DOMAIN batch : Fits(batch[i])) => BatchVolume <= limit
    /\ strategy = "single" => Len(batch) <= 1

\* A request that was refused would take the batch past the limit, if neither its
\* volume, nor that of a request in the batch, nor the limit exceeds 32 bits.
RefusedForCause ==
    refused # <<>> =>
        /\ /\ strategy = "volume" /\ Fits(refused[1]) /\ limit < VolumeModulus
           /\ \A i \in DOMAIN batch : Fits(batch[i])
           => BatchVolume + VolumeOf(refused[1]) > limit
        /\ strategy = "single" => batch # <<>>

\* Batches are filled up to the limit, and not beyond.
FilledToLimit == BatchWithinLimit /\ RefusedForCause
=============================================================================
