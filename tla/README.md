# TLA+ models of the Triton backend library

`src/` holds the Triton backend library (`src/src`, `src/include`): C++ helpers
that Triton backends link to move the inputs of a *batch* of requests into
tensors and the outputs back into responses. It also holds example backends
that use it (`src/examples/backends`). Triton itself, the CUDA runtime and the
thread pool (`AsyncWorkQueue`, `SyncQueue`) are outside the repository and are
modelled only as far as the code uses them; so is CUPTI, whose callbacks feed the
device memory tracker.

Contents: [1 inventory](#1-inventory) · [2 modules](#2-modules) ·
[3 runs](#3-runs-bounds-and-what-they-show) · [4 fairness](#4-fairness) ·
[5 proofs](#5-proofs) · [6 disagreements found](#6-where-the-code-does-not-do-what-is-said-of-it) ·
[7 not modelled](#7-what-is-not-modelled) · [8 plan](#8-plan)

`PROJECT.json` gives, for each definition, the source lines it stands for, and
for each hazard the line where it bites. IC is short for
`src/src/backend_input_collector.cc`, OR for `src/src/backend_output_responder.cc`,
BC for `src/src/backend_common.cc`, DMT for `src/src/device_memory_tracker.cc`, BMI for
`src/src/backend_model_instance.cc`, VB for
`src/examples/batching_strategies/volume_batching/src/volume_batching.cc`.

## 1. Inventory

A call of `TRITONBACKEND_ModelInstanceExecute` receives a batch of requests. A
backend creates one response per request, gathers each input with a
**BackendInputCollector**, computes, scatters each output with a
**BackendOutputResponder**, sends the responses and releases the requests.
Both helpers share the backend's vector of response pointers: whoever sends a
response sets its pointer to null, and null means "answered, leave it alone".
Both queue work on one CUDA stream that runs beside them; `Finalize()` tells the
caller whether it has to synchronize before it uses the data.

| Component | State | Operations | What is hard | What makes it correct |
|---|---|---|---|---|
| Input collector, synchronous path (IC) | iterator, pending regions (for pinned staging, for the gather kernel), deferred copies, `need_sync_`, `event_`, `buffer_ready_event_`, responses | `ProcessTensor` (two overloads), `FlushPendingPinned`, `FlushPendingCopyKernel`, `Finalize` | buffers of three kinds in any order; copies in flight beside the thread; failures of some copies only | every byte of an unanswered request at its offset; errors only for a cause; the synchronization `Finalize()` asks for is enough; nothing written before the ready event |
| Input collector, asynchronous path (IC 637-740) | a counter per flushed group, tasks, completion queue | the tasks of `FlushPendingPinned`, `Finalize` | pool threads, flushing thread and stream interleave; refused tasks; failing copies | one final copy per group, after all staging; `Finalize()` returns |
| Input collector, batch inputs (IC 741-1105) | destination, internal buffer, `in_use_memories_` | `BatchInputShape`, `ProcessBatchInput`, the `Set...` functions | size computed in one place and filled in another; lifetime of the internal buffer | the tensor says what its kind promises, within its size |
| Output responder (OR) | offsets, pending region, deferred copies, responses, event | `ProcessTensor`, `ProcessStateTensor`, `ProcessBatchOutput`, `FlushPendingPinned`, `Finalize` | direct, staged and deferred copies into one response; responses failing on the way | surviving responses complete; nothing in flight when they are sent |
| Execution of a batch (`recommended.cc`, `minimal.cc`) | responses, `ModelState::shape_` shared by instances | `ModelInstanceExecute`, `ModelState::TensorShape` | instances run at the same time; errors anywhere between creating and sending responses | each request answered once, reported truthfully, released after that; or the call fails and answers nobody |
| BLS backend (`bls.cc`, `bls_utils.cc`, `backend.cc`) | inner requests, promises, inner responses | `ProcessRequests`, `BLSExecutor::Execute`, two callbacks per inference | callbacks on other threads in any order; one of two inferences failing | as above, and nothing left running or undeleted |
| Copy primitive, memory types (BC) | none | `CopyBuffer`, `GetUsePinnedMemoryType`, `CommonErrorToTritonError` | asynchronous or not by memory type | used by all of the above |
| BackendMemory | buffer, allocation type | `Create` with fallback, destructor | allocation types fail one by one | freed as it was allocated |
| BackendModel | the server's configuration and a copy of it; members parsed from it; `batch_output_map_` with pointers into `batch_outputs_` | constructor, `SetModelConfig`, `ParseModelConfig`, `FindBatchOutput` | parsing again over the members of the last time; a vector that grows under the pointers | the members are what the configurations parsed so far say; what serves was parsed from the one the server has |
| BackendModelInstance, loading of the example backends | model and instance states, a CUDA stream per instance, the device of the loading thread | Initialize and Finalize callbacks for models and instances, `ValidateModelConfig`, sequence controls | every call can fail, in constructors that own something already | nothing serves that was not validated; streams on the right device; everything freed but what the code has lost |
| Device memory tracker (DMT) | map from correlation ids to `MemoryUsage`, sums per kind of memory, the thread's stack in CUPTI | track, untrack, the callback for a complete buffer, `+=`, `SerializeToBufferAttributes` | records of two kinds, delivered on any thread, in any order of buffers, after the usage is gone; sums updated outside `mtx_` | a call is counted once, for the usage that was tracked when it was made; nothing that CUPTI recorded is lost without a cause |
| Batching strategies | volume left in the batch | callbacks of the server | 64-bit limit and 32-bit sums | batches are filled to the limit and not beyond |
| Gather kernel | none | one launch | 32-bit sizes | same bytes as the copies |
| Build files, clients, model repositories | - | - | - | - |

How they interact in the models: collector and responder stand for themselves
(the stream is part of each, as what they share with it is a queue of copies);
`ModelInstanceExecute` takes from them what the caller sees: any of the
responses left may be answered, and which are null afterwards. That abstraction
is what `AnsweredForCause` and `Gathered`/`Scattered` are about, in the modules
of the two helpers. `ModelLoading` is a composition: it EXTENDS `BackendModel` and
`BatchingStrategy`, whose actions are steps of the load and of the server's batcher.
`BatchInput` takes the kinds of batch inputs from `ModelConfig`, as the parser does.

## 2. Modules

| Module | Lines of code it models | State and actions |
|---|---|---|
| `MemoryTypes` | memory types and places; BC `GetUsePinnedMemoryType` | operators only |
| `AsyncPinnedCopy` | IC 637-740 with `SetInputTensor`, `DeferredPinned::Finalize`, `Finalize` | `pc`, `grp`, `seg` are the thread that flushes (`BeginFlush`, `AddTask`, `EndFlush`, `FinalizeWait`, `GetCompletion`, `FinalizeReturn`, `CallerSync`). A task `<<g, k>>` is segment k of group g: `StartTask`, `StageBuffer` (one buffer), `FinishSegment` (the decrement of `incomplete_count`), `FinalCopy`, `PutCompletion`. Answering with an error takes two steps, `CheckResponse` and `SendResponse`, as the code looks at the pointer before it sends. `RunCopy` is the stream, `BufferReadyFires` the event. |
| `AsyncPinnedCopyProofs` | - | theorems about it |
| `InputCollector` | the rest of IC but batch inputs, with the InputIterator | A byte is named by its source location, so a tensor is a sequence of locations and a wrong copy is visible. The thread takes one contiguous buffer per step (`cur`), stages it (`pend`), adds it to the kernel's (`kern`) or copies it; `Finalize` goes through `deferred` one copy at a time. `mark` is how many queued copies `event_` stands for. |
| `InputCollectorProofs` | - | theorems about it |
| `BatchInput` | `BatchInputShape`, `ProcessBatchInput`, `Set...`, `BackendMemory::Create` | One action per part of the call: destination, internal buffer, leading zero, one request, the rest, the copy to the device; `step` is which comes next, `cur` the call. A cell holds the number written to it; an element of the tensor is a cell. `Entry` is what is written for a request, `Taken` the room that is checked for and by which the offset advances: they differ for a request without items, whose shape is written although it takes no room. |
| `OutputResponder` | OR | Byte k of tensor i is `<<i, k>>`. One action per response of a tensor, per copy of a flush, per deferred copy. |
| `OutputResponderProofs` | - | theorems about it |
| `ResponseProtocol` | what Triton is promised, from `recommended.cc` 470-541 and 718-734 | abstract specification: `Reject`, `Respond`, `Release`, `Return` |
| `ModelInstanceExecute` | `recommended.cc`, `minimal.cc`, the response macros of `backend_common.h` | one program counter per call; an action per response created, sent or reported, and for collecting, computing, asking for the shape and scattering. `TensorShape` is three steps (test, append, set), as nothing makes it one. Refines `ResponseProtocol` (`Protocol == INSTANCE ... WITH`). |
| `BatchProofs` | - | theorems about it, about `ResponseProtocol`, which it refines, and about `BatchInput` |
| `BLSExecutor` | `bls.cc`, `bls_utils.cc`, `ProcessRequests` | one thread (`Thread`) and, for every inner inference, the two callbacks. Refines `ResponseProtocol` with one call. |
| `BLSExecutorProofs` | - | theorems about it |
| `DeviceMemoryTracker` | DMT and `device_memory_tracker.h` | `map` is `activity_to_memory_usage_`, `stack` CUPTI's stack of each thread. `BeginCall` writes the two records of a CUDA call into `buffers`; `BufferCompleted` hands a buffer to a deliverer, which takes each record in steps: `LookUpUsage` with `mtx_` held, then without it `ReadSum` and `WriteSum` (or `IgnoreRecord`, `Invalidate`). Untracking is `Untrack`, `Flush` once per complete buffer, `Pop`. |
| `DeviceMemoryTrackerProofs` | - | theorems about it |
| `ModelConfig` | what BC, `backend_model.cc` and the examples read from a configuration: batch inputs and outputs, optional and ragged inputs, sequence controls, `ValidateModelConfig` | operators only |
| `BackendModel` | `backend_model.cc` | the members, derived by `ParseModelConfig` in the order of the code, so that an error leaves the later ones as they were. A pointer into a vector is its storage and an index; the storage is new when the vector outgrows its capacity. |
| `BatchingStrategy` | `volume_batching.cc`, `single_batching.cc` | the callbacks; sums are taken `% VolumeModulus` where the code has an `unsigned int` |
| `ModelLoading` | BMI, the Initialize and Finalize callbacks of the three backends | `pc` is how far loading has got; `state` and `instance` say who holds the objects, `stream` which device each stream is on, `device` which one the loading thread has selected. `Construct`, `AutoComplete`, `SetConfig`, `ValidateModel`, `SetState`, then the instances, with an action for each call that fails; `ModelInstanceFinalize`, `ModelFinalize`. `CreateCudaStream` takes its four calls one by one, each of which may fail: the stream is made on whatever device is selected by then, and the last one, which selects the device of before, is not checked. `unrestored` remembers for which instances it failed. |
| `ModelLoadingProofs` | - | theorems about it |
| `FoldTheorems` | - | lemmas about what the folds of the community modules compute, for any operation; the proofs instantiate them |
| `MC...` | - | the constants of the runs |

Definitions marked `\* mutant` are variants of the definition that follows them,
as a plausible slip in the code would make it. No specification uses them: each
is listed in `PROJECT.json` with the property that stops holding when it takes the
place of the original.

Choices that matter for faithfulness:

* **Undefined behaviour** is recorded, not assumed away. `stray` of `BatchInput`
  are the calls that wrote beyond their buffer, which the code does in two cases (`Unchecked`), `wild` of `BLSExecutor` writes through pointers that
  are null or unset, `deletes` counts how often an inner request is deleted.
  The process may crash there, which only cuts a behaviour short.
* **Wrap-around** shows in three places: the `size_t` of a batch input with a leading
  zero in a buffer without room for it (`Fits`); the sums of `volume_batching`, which
  are 32 bits wide (`VolumeModulus`); and a usage that released more than it
  allocated, whose negative sum is reported as a `size_t` (`SizeModulus`).
* **Asynchronous copies** happen in `RunCopy`, in the order in which they were
  queued. A copy between CPU memory is made at once, one with a GPU on either
  side is queued, unless `copy_on_stream_` queues those too.
* **Failures**: any call to Triton or CUDA may fail at any time; a bound in the
  scenario limits how many in one behaviour.
* **A lost update** is a step: reading a sum of a `MemoryUsage` and writing it back are
  two actions, as the code does both outside `mtx_`. `raced` names the usages it may
  have happened to.
* **Failed parses** leave the members that were reached changed; `fresh` says whether
  the last parse succeeded.
* What is external (pool, queue, stream, CUPTI's records and buffers, what the server
  makes of a configuration, Triton's inference) is marked so in the map or by a comment.

## 3. Runs, bounds and what they show

Passing runs.

| Run | Bounds | What it shows |
|---|---|---|
| `async_staged` | 2 workers; a group of 3 CPU buffers for a GPU tensor, then one of 2 GPU buffers for a CPU tensor; 3 requests, one with buffers in both groups; 1 failing copy, 1 refused task; ready event | `FinalCopyAfterStaging`: no final copy before all staging; `OneCloserPerGroup`: one task makes it; `HostDelivered`: a GPU tensor is complete when the caller has synchronized; `QuietUnlessSync`: if `Finalize()` returns false no copy to a tensor is in flight; `TensorWrittenWhenReady`; `FinalizeReturns`, if no task was refused |
| `collector_gather` | three requests with a buffer each, in all combinations of places and adjacency, under pinned memory on or off, kernel threshold 0 or 2, copies on the stream or not, coalescing or not; two requests with two, one or no buffers, too small, empty or no destinations, and up to 2 failures; two tensors in a row, with events | `Gathered`, `AnsweredForCause`, `SyncCoversCopies`, `TensorWrittenWhenReady` |
| `batch_kinds` | each kind, in given buffers of 0 to 9 cells on CPU and GPU and in chosen ones with a second choice; 2 or 3 requests of rank 1 to 3, one with two items, one without items in the first or the last place; up to 2 failures; two calls in a row with events | `Described`: what a kind says is in the buffer once the caller has synchronized; `ErrorForCause`: the size computed is enough; `WithinBuffer`: nothing is written past the end but what is written without a look at the size |
| `responder_scatter` | an output, state or batch-output tensor for 3 responses, in all places, wanted by all or not, with its rows, too few, or an unknown number; two tensors for 2 responses, up to 2 failures, event | `Scattered`, `AnsweredForCause`, `QuietWhenSent` |
| `execute_shared` | three calls of two requests: two instances of a model with the recommended backend and one with the minimal backend, at the same time | `NullIffAnswered`, `ReportedAsAnswered`, `ComputedFromBatch`, and `ProtocolKept`: the refinement |
| `bls_protocol` | two requests, callbacks in any order, every kind of failure, up to 3 of them | `ReportedAsAnswered`, `OutputsFromSuccess`, `NothingLeft`, `ProtocolKept`, `EverybodyReleased` |
| `tracker_records` | 2 threads, 2 usages, a GPU, buffers of 3 records, 2 calls out of five kinds (allocations on the GPU, in pinned memory and on a device that was not counted, a release, a call without a memory record), sizes modulo 8; threads and usages symmetric | `Attributed`: a call counts for the usage that was tracked when it was made; `Counted`: the sums are those of the calls, each once; `RecordsAccounted`: no record is lost, and the map keeps a destroyed usage for a cause only; `CountedWhenUntracked`; `ReportedAsCounted`, also when attributes are used again |
| `model_load` | each of the three backends; 17 configurations, 6 of which a backend may complete its copy to, up to 3 parses; two instances on GPUs neither of which is selected at first, and one on the CPU; each call that selects a device or makes a stream may fail; limits none, 3 and 9 with volumes modulo 8, batches of up to 2 of four requests | `MembersAsParsed`: batch outputs found, ragged and optional inputs; `ResourcesHeld`: streams, states and the batcher's data are held by whom they are for, streams are on the device of their instance, the thread keeps its device unless selecting it again failed; `ServedAsSupported`; `ControlsAsConfigured`; `FilledToLimit` |

Each of them also checks its module's `TypeOK`; in `batch_kinds`, `bls_protocol` and
`model_load` it is a part of `WithinBuffer`, `OutputsFromSuccess` and
`MembersAsParsed`.

Why the bounds are enough. *Three buffers* are what a pending region needs: one
that starts it, one that continues it, one that does not (or ends it); *two
places* of different type plus a second GPU give every branch on memory types;
sizes 1 and 2 around a threshold of 2 give both sides of it. *Three buffers and
two workers* give segments of different length and a last segment that is
shorter; a second group shows what the counters of one group do to the other.
*Two failures* let a fallback fail as well as the choice before it. *Two
tensors* are what it takes to reuse an event, a pinned buffer or a response
answered before. For the protocol, *two calls of the same model* race for
`shape_`, and a *call of the other backend* next to them shows that the calls do
not disturb each other. In `bls`, two requests show the loop over requests, and
three failures let both inferences and the response fail. In `tracker_records` *two
calls* write four records, more than a buffer of 3 holds: the records of the second
call come in two buffers, which are delivered in either order and at the same time
on two threads; two usages are nested on one thread or tracked by two. In
`model_load` *three parses* are the constructor's and two of `SetModelConfig`, so that
a vector grows, shrinks and grows; the limit 9 is past the modulus 8, the request
`<<7, 2>>` wraps around it, `<<2, 1>>` just meets the limit 3.

Bounds, all named: on failures `MaxFaults`, `MaxRejects` and the field `maxFaults`; on
CUDA calls `MaxCalls`; on parses `MaxParses`; on the length of a batch `MaxBatch`. The
moduli `SizeModulus` and `VolumeModulus` stand for the widths of `size_t` and
`unsigned int`. No model has other unbounded counters.

Deadlock is checked in all runs but four, where the system really may stop. In
`async_staged` and `async_uneven` `Finalize()` blocks for ever when a task was refused
or when fewer segments are made than were counted. In `model_load` a model that was
unloaded, or whose loading ended the process, has no step left, and in
`tracker_records` nothing is left to do once the usages are destroyed and the calls
made.

Runs that end with a counterexample, explained in section 6: `async_uneven`,
`async_device`, `execute_race`, `bls_missing`.

`ResponseProtocol` has no run of its own. It is checked as what
`ModelInstanceExecute` and `BLSExecutor` implement, and its properties are
proved.

## 4. Fairness

* `AsyncPinnedCopy!FairSpec`: weak fairness of the flushing thread, of each pool
  thread's task, of the thread that answers a request, of the CUDA stream and of
  the buffer-ready event. These are threads that the operating system schedules
  and that nobody stops, a stream whose work proceeds by itself, and an event
  the caller has recorded before on a stream. Weak is enough: once one of them can
  go on, nothing but itself makes it unable to. `FinalizeReturns` needs it.
* `BLSExecutor!FairSpec`: weak fairness of the thread and of each callback. The
  code relies on Triton to call both callbacks for each inference it accepted
  (`bls.cc` 228 waits without a timeout). The fairness says this and no more: an
  inference may still end in an error. `EverybodyReleased` needs it.

The other modules state no fairness: what they promise is safety, and nothing in the
code waits there for another thread. (That CUPTI delivers a buffer at all is up to
CUPTI: `RecordsAccounted` has the records that are still awaited as a case of its own.)

Failures are never fair: no run needs one to happen, and none excludes it.

## 5. Proofs

`tlapm` checks these for every value of the constants that the named assumptions
allow: any number of workers, groups, buffers, requests, tensors, calls, instances,
threads, usages, configurations and failures. The assumptions are what the code or the
types of its data guarantee:

* `AsyncPinnedCopy`: the asynchronous path is only entered with more than one worker, a flush
  with an empty pending list returns early, buffers are staged through the memory
  type that `GetUsePinnedMemoryType` gives (so they are on the CPU or a GPU);
* `InputCollector`, `OutputResponder` (`ScenarioAssumption`): a batch has a tensor, each of its
  tensors has an input of, or a part for, every request, and sizes and addresses are natural numbers;
* `BatchInput` (`ScenarioAssumption`): there is a call, all calls are about the same number of requests, of which there
  is one, and the shapes of a source input are of natural numbers and of one rank, which is not 0;
* `ModelInstanceExecute`, `BLSExecutor`: a batch has a request, an instance belongs to a call;
* `DeviceMemoryTracker`: the worker of CUPTI is not a thread of the program, a buffer has room for a
  record;
* `BackendModel` (`ConfigsAssumption`): the members of a configuration have their types, and it has at
  most 8 batch outputs, as far as the capacities of `Room` go; `NormalizedAssumption`, `LoadingAssumption`:
  a configuration that was completed or normalized is one;
* `BatchingStrategy` (`VolumeAssumption`): limits and shapes are of natural numbers, and the modulus
  that stands for the width of a volume is not 0 or 1.

Every invariant and every action property of the passing runs is stated by a theorem.
Each module has an inductive invariant, in named parts, of which the property is a
consequence, or together with which it is inductive. One lemma per action, or per group of
actions that do the same to a part, shows that it is preserved; actions that leave
most of it alone go through a lemma for quiet steps.

| Proof module | Theorems |
|---|---|
| `AsyncPinnedCopyProofs` | `TypeCorrect`, `StagedBeforeFinalCopy`, `ClosedOnce`, `WrittenWhenReady`, `QuietReturn`, `DeliveredFromHost` |
| `InputCollectorProofs` | `TypeCorrect`, `WrittenWhenReady`, `SyncCovers`, `AnsweredOnlyForCause`, `EverythingGathered` |
| `OutputResponderProofs` | `TypeCorrect`, `NothingInFlight`, `OnlyForCause`, `PartsDelivered` |
| `BatchProofs` | of `ModelInstanceExecute` `TypeCorrect`, `ResponsesTrackAnswers`, `StatisticsHonest`, `OutputsFromBatch`, `Implements`, and of what it implements `AlwaysSettled`, `AnsweredOnce`; of `BatchInput` `BatchWithinBuffer`, `BatchDescribed`, `BatchErrorForCause` |
| `BLSExecutorProofs` | `StatisticsHonest`, `OutputsSound`, `CleanedUp`, `Implements` |
| `DeviceMemoryTrackerProofs` | `TypeCorrect`, `AttributedToCaller`, `SumsCounted`, `ReportsSums`, `NothingLost`, `UntrackedCounted` |
| `ModelLoadingProofs` | `HeldResources`, `SupportedServed`, `FilledBatches`, `MembersParsed`, `ControlsConfigured` |
| `FoldTheorems` | none: lemmas about folds that the others rest on |

**`FoldTheorems`.** Sizes, offsets, sums and look-ups are folds (`FoldLeft`, `MapThenFoldSet`,
`FoldFunctionOnSet`). The library defines a fold by a `CHOOSE` of a recursive function over the
subsets of a finite set. `FoldComputes` says that the function chosen satisfies its recursion,
whatever is folded, and `FoldIsChain` that over a sequence it goes from the first element to the last;
`FoldOneMore` and `FoldStays` are what the proofs use. The operation is a constant of the module, so that
each use is an instance (`Plus`, `PlusSize`, ...), as an operator parameter could not be
instantiated. The inductions in it and in the other modules are over a set of natural
numbers, `{n \in Nat : ...}`, for the same reason.

**`AsyncPinnedCopyProofs`.** That the last task sees everything staged is not
inductive: it depends on what the counter means. `IInv` is `TypeOK` and

* `FreshInv`: tasks of segments not reached yet are new;
* `SegmentInv`: only segments that contain a buffer are ever handed to the pool;
* `CountInv`: `count[g]` is the initial count less the number of tasks of g that
  have decremented it;
* `CloserInv`: a task that makes the final copy has taken the count to 0 and is
  the only one of its group;
* `PosInv`: how far a task is into its segment, and that one that has finished is
  at its end.

The arithmetic is in lemmas of its own. `StrideCovers`: worker count times stride
is at least the number of buffers. `SegmentBound`: so there are never more
segments than the initial count. (There may be fewer: this is why
`FinalizeReturns` fails for some sizes, and why the theorems are about safety.)
`SegmentOfBuffer`: every buffer is in one of the segments counted. A count of
0 then means that as many tasks have finished as there can be, so all of
them have, and with `PosInv` and `SegmentOfBuffer` all buffers are staged.
That `TypeOK` has `count` in `Nat` is part of the claim: the counter is never
decremented below zero.

The theorems about the tensors add to this:

* `ReadyInv` (for `WrittenWhenReady`): a final copy in the stream was queued after the
  ready event had fired;
* `LedgerInv` (for `QuietReturn`), a ledger of what `Finalize()` takes from the completion queue: as
  many flags were taken or are in the queue as there are groups whose last task has put one,
  none that was true got lost on the way to `need_sync_`, and a copy to a tensor is in
  the stream only if the flag of its group says so;
* `HostInv` and `ConsumedInv` (for `DeliveredFromHost`): the buffers a task has passed
  are staged or failed, and after the final copy the group is in its tensor, or failed, or that copy is
  in the stream, which the caller has waited for.

**`InputCollectorProofs`.**

* `ReadyInv` (for `WrittenWhenReady`): until the event has fired the stream is empty
  and the tensors not reached yet have no cells. Every handler that copies waits for
  the event first; the others neither copy nor queue.
* `SyncInv` (for `SyncCovers`): a stream that is not empty has `need_sync_` set, and between tensors,
  and from `Finalize()` on, nothing is queued behind the event. In between it need not hold, which
  is why `AfterFlush` records it only at the end of a tensor.
* `TypeInv`: the regions pending for pinned memory and for the kernel have the size of their buffers and
  end within the tensor; they are empty at its end. That needs `Flushed`, what holds between the two
  flushes and `SetInputTensor`: a region that is not empty is continued by the buffer in hand, so that the new
  size is that of adjacent parts, and the check of `Fits` covers all of it.
* `PlaceInv`: `buffer_offset` is the size of the buffers the iterator has passed, and a buffer that the
  collector chose has room for all of them. `SizeInv`: buffers never change their length.

For `AnsweredOnlyForCause` a request is answered without a failure only by `SetTooLarge`, where
offset and size of the buffer in hand exceed a tensor that was given. The buffer may span
requests when they are coalesced. `CollectedOrder` (the list of buffers has those of each request
side by side, in order) and `OffsetFacts` (the offset of a request in the tensor is the
sum of the sizes of the buffers before its first one) say that this is past the
end of the last request it belongs to, and so past that of every one that is answered.

`EverythingGathered` (that `Gathered` holds) is about what the copies leave behind, so its invariant says, at any
time, where each byte that the iterator has passed is:

* `PosInv`: the regions pending and the buffer in hand are made of the bytes of the tensor at their offsets
  (`BufferAt`), merged or not (`RunIsBuffer`); where the iterator stops it has passed the inputs of
  all requests that `Iterated` speaks of.
* `ViewInv`: a tensor that was begun has cells, uses an input as it is, or could not be had, and then
  nobody is left unanswered. `EndInv`: after `Finalize()` no deferred copy is left, and after the
  caller's synchronization the stream is empty.
* `FillInv`: there are homes `H` for the buffers, a tensor being its own and a pinned buffer
  belonging to the part of a tensor it is staged for, so that every copy in the stream writes what is wanted
  at its home, from a buffer that no copy in the stream writes to (`Sound`), and every cell handled is
  `Sure` (it holds what is wanted or a copy in the stream brings it), or in a deferred copy whose pinned
  buffer is sure, or in one of the two regions pending.

What is *wanted* of a cell is wanted only as long as its request has no error, which is why the
failure of a call breaks nothing: whoever misses bytes is answered in the same step. `Better` (from a state
to a later one nothing that was sure is lost) composes: `CopyBufferBetter` lifts to `DirectCopyBetter`,
`CopyAllBetter` and `KernelGathers`, and `PerformBetter` is the stream's side. `Carries` does the
same for steps that take a new pinned buffer, which gets its home (`WithNewBuffer`). `ByteLocated`, a fact
about `FlattenSeq` and the sums of sizes, ties the position in a buffer to that in a request's input, and so
`FillInv` at the end to `Gathered`.

**`OutputResponderProofs`.** `StreamInv` (for `NothingInFlight`): a stream that is not empty has
`need_sync_` set, and
where the code has recorded the event last, no copy is queued behind it. `Finalize()`
may clear the flag, as it does when it has deferred copies, because it has waited before;
the deferred copies that are queued after that set it again and are followed by the event.
`LoopInv` says where the loop is: the offset is that of the response, the pending size that of the
pending outputs.

`PartsDelivered` is the longest argument. `RightInv` says that no copy brings wrong bytes: what is in the
stream, in the pinned buffers and in `deferred` is, at the offset each output will be taken from, its part of
the tensor, or a copy that will put it there is ahead in the stream (`Promised`); pending outputs lie
`SideBySide` in the tensor, as a response that was answered leaves a gap that ends the region, and outputs without
bytes may be anywhere. `CoverInv` says that nothing is forgotten: each part that a
live response is to get has arrived, is queued, is pending, or is deferred. Where responses are sent, the stream is
empty, and so are the rest (`EmptyInv`).

**`BatchProofs`, `ModelInstanceExecute`.** `FlowInv` says for each call what is true at
its program counter: how many responses were created and that exactly the
unanswered ones are not null while creating and processing; that the responses
before the turn of the sending loop were sent; that the requests before the turn
of the releasing loop are released and were reported if and only if answered
without an error; what is left at the return. One lemma per action shows that it
preserves the part for the call that acts, and `QuietStep` that it leaves the
other calls' parts alone. With this `Implements` goes through the actions once
more: each is one of `ResponseProtocol`'s or changes nothing that Triton sees.
`BatchedInv` is inductive on top of it: a call without the batched input has no response
left, since failing to get it answers all of them with an error. That is what keeps
the return of `minimal` on that path from sending outputs it does not have.
`Settled` is inductive together with the types of `ResponseProtocol`, and `AnswerIsFinal`
follows from its actions case by case; by `Implements` both hold of the code's behaviours.

**`BatchProofs`, `BatchInput`.** The two modules about a batch share a proof module, which is why
`BatchInput` has names of its own for what others call `Init`, `Next` or `TypeOK`.
The properties compare a loop over the requests with a definition of the whole tensor,
so lemmas about the folds come first. A request's part of the tensor is `PartOf`, the cells that the first q
requests take are `PartsUpTo`. `ContentFacts` says that `Content`, whatever the kind, has each part
at its place (`Located`) and no other cells but the leading zero; `EntryIs` that what a Set function
writes for a request starts with its part, given the sum so far, and is no more than that unless it is the shape of a
request without items, which has no part; `SizeIs` that the size from `BatchInputShape`, which is computed
in another way (a product for shapes per item), is that of the content. `FlattenPlaces` says where the
elements of a concatenation are. `BatchInv` has:

* `AheadInv`: calls not reached have no buffer, no copy, no stray write;
* `TypesInv`, in which stray writes are `Unchecked`: the others end where `Taken` says, which was checked against the size; the shape
  of a request without items lies behind the items of the requests up to it, which is where the offset is
  (`BatchSize` of them);
* `HandledInv`: in the call at hand the buffer has the size that was given or computed, and so has the internal one
  once it is needed;
* `FillInv`: before request `next` the offset is `PartsUpTo`, the sum is `CountsUpTo`, both of
  the requests before it, and the cells up to the offset are those of the content. A buffer too small for the
  leading zero has no cells, where the wrapped-around size does no harm;
* `CopyInv`, `BehindInv`: a call that returned a buffer left one that `Holds` its content, for a GPU in an
  internal buffer that is kept, with the copy queued or done. This is what the lifetime of the internal
  buffers (`held`) is for;
* `SyncInv`: a queued copy has set `need_sync_`, so the stream is empty when the caller goes on.

`BatchErrorForCause` is inductive on top of it: the check of the size fails only past the end of the content
(`PartsGrow`), which a computed size covers (`FitsUnlessGiven`).

**`BLSExecutorProofs`.** Requests are `Ahead`, `Now` or `Behind` with respect to the loop,
and `RequestInv` says for each how far its two inner requests have got: untried, made or
sent; a request that was sent is deleted by its callback once, and a second time only
when the `catch` clause deletes it too. Callbacks change one inner request that was sent
and nothing else (`CallbackStep`), so they commute with what is said of the loop.
`AnswerInv` and `ReleaseInv` relate answers, reports and releases as in the
module above.

**`DeviceMemoryTrackerProofs`.** `Attributed` is about counted calls only, while the
usage has come a long way: from the stack of a thread into a record, from there into the
map, into what a deliverer found. `IInv` says that it is right in all of these: every
record in a buffer or a delivery is `Genuine`, and so are the map (`MapInv`) and what
was found (`FoundInv`). Steps that add calls keep this (`Persistence`), as calls made before do not
change. On top of it:

* `CountInv` (for `SumsCounted`): each call has one record of each kind in all buffers and deliveries
  (`OneRecord`), and only until it is counted; what a deliverer has read is still the sum, unless
  another one came in between (`LoadInv`), which `raced` remembers;
* `PairInv` (for `NothingLost`): the two records of a call that were written to one buffer are handed over
  in that order, so that an entry of the map that is there will be looked up (`MapAwaited`);
* `TrackedInv` (for `UntrackedCounted`): a usage is on one stack at most, once;
* `ReportsSums` needs that the attributes list each sum once, whatever they held before.

**`ModelLoadingProofs`.** `OrderInv`: no instance is there before the model is ready, and the
batcher has data only under a strategy. `ParsedInv`: where the members are those of the
configuration the server has, and where that was validated. `StateInv` and
`StreamInv`: who has the `ModelState` and the streams. `DeviceInv`: the device that is selected is the one of
before or that of an instance in `unrestored`. A stream is on the device of its instance because it is only made when
selecting that device succeeded or was not needed (`CudaStreamFacts`), whichever one was left selected. What a parse does to the
other members plays no part in these, so that they hold for any configurations and for any
normalization by the server. Then

* `BatchInv` (for `FilledBatches`): the volumes of the batch and what is left of the limit
  are the limit, modulo the width; with shapes that fit this width nothing was cut off;
* `MemberInv` (for `MembersParsed`): after a parse that succeeded each member is what the configuration says;
  the map of batch outputs points to the first one with each name, in the storage that the vector has
  now, if all parses had the same batch outputs (`FreshInv`);
* `ControlInv` (for `ControlsConfigured`): a look-up is one of the configuration the backend has. What is
  proved is the search itself: that it finds the one control of the kind, and sees a second one.

Only model-checked:

* liveness (`FinalizeReturns`, `EverybodyReleased`), `ENABLED` and what rests on fairness: outside what the
  prover can do;
* recursive operators: none is in a module with proofs, or below one.

## 6. Where the code does not do what is said of it

Each of these has a run whose counterexample shows it, and an entry under "findings" that
quotes both sides.

1. `async_uneven` (IC 660): with 4 buffers and 3 workers the count starts at 3 but
   two tasks are made. Nobody is last, and `Finalize()` never returns.
2. `async_device` (IC 701): GPU buffers for a CPU tensor are copied from pinned
   memory as soon as the copies into it were issued, before they were performed.
3. `execute_race` (`recommended.cc` 231): `TensorShape` initializes a shape that
   instances share, without a lock.
4. `bls_missing` (`bls.cc` 236): when an inner inference fails the request is
   answered without an error and without outputs.

The models show more of them, to which no run of its own is given:

* IC 705: the status of a successful `AddTask` is converted into an error
  object, so the requests of a staged segment are answered with an error.
* IC 351: a given buffer of 0 bytes is not filled, and the requests that have bytes for it
  are not answered with an error; those of any other buffer that is too short are.
* IC 1093: the shape of a request without items is written although no room is checked for it
  and none is taken. A later request writes over it; if it is the last one, the write goes past the end of a
  buffer that has just the computed size.
* IC 948, 970: an empty buffer is written to, by the zero before the Set functions.
* IC 990: `ProcessBatchInput` queues a copy without recording the event the caller is
  told to wait for.
* DMT 295: the entry of a call without a memory record stays in the map for good, and points to
  a `MemoryUsage` that may be gone; `device_memory_tracker.h` 130 wants all references
  dropped before. The same goes for a call whose two records are in two buffers, when the
  later one is delivered first; and that call is not counted.
* DMT 265: a `MemoryUsage` is updated without a lock, so that two deliveries for one usage
  may lose an update.
* `device_memory_tracker.h` 169: an invalid usage is said to give an empty result; it
  gives an error.
* BC 929: the result of selecting the device of before is ignored. If it fails the loading thread goes on with the device
  of the instance selected; the streams made later are still on the right devices.
* BMI 134: an error of the host policy calls is thrown as a
  `BackendModelException`, which `ModelInstanceState::Create` does not catch; and whatever is
  thrown after line 128 leaks the stream.
* VB 200: a limit read into 64 bits is kept in an `unsigned int`, so that a larger one
  becomes a smaller one.

The properties of the passing runs are stated around these where they meet:
`WithinBuffer` excludes the writes of the two items on IC 948 and IC 1093, and `ResourcesHeld` the device that is
left selected at BC 929; both are in the models. `HostDelivered` is about CPU buffers only, `Described` about callers that
synchronize with the stream, `FinalizeReturns` runs with sizes that divide well,
`Gathered` is about requests the iterator gets to (an input without buffers
ends it early, IC 65; a given buffer of 0 bytes does not start it, IC 351), `NothingLeft` about requests whose inferences both
succeed. `Counted`, `RecordsAccounted` and `CountedWhenUntracked` exclude usages that two
deliverers updated at once (`raced`), the latter two also calls whose records are in two buffers
(`together`); `FreedWhenUnloaded` excludes what a constructor that threw, or a state
that Triton did not take, left behind; `RefusedForCause` is about limits that fit 32 bits;
`FoundOutputs` about loads in which all parses had the same batch outputs, as
`batch_output_map_` keeps entries of earlier ones and is not cleared.

## 7. What is not modelled

* String buffers (`ValidateStringBuffer` and the like), the conversion of parameters
  (`ParseIntValue` and the like of BC 1004, which let `std::out_of_range` through),
  splitting and joining of names and shapes: functions of their arguments, on
  data the other models do not look at.
* The arrays that `LaunchCopyKernel` uploads and the arithmetic of the kernel: a
  launch is one copy of all its buffers.
* The buffers that the response allocator of `bls_utils.cc` hands out.
* A failing `RequestInput` in the collector: the pointer it leaves is undefined and
  reading through it has no outcome to enumerate.
* `TRITONBACKEND_Initialize` of the backends: a comparison of API versions and the
  reading of the backend's own configuration.
* In the tracker: the RUNTIME records, which it ignores, kinds of correlation other than
  the one it uses, wrap-around of correlation ids, and a failing
  `BufferAttributesNew`.
* The device that `BackendMemory` selects for an allocation. Memory of the process,
  except that of inner requests and inner responses, of the internal buffers of batch
  inputs, and of model states, streams and batcher data.
* Build files, clients, model repositories: no behaviour of the library.
* Logging, statistics but for the success flag, the contents of error messages.

## 8. Plan

Done, in this order, the most important first: A `AsyncPinnedCopy`, B
`ResponseProtocol` and `ModelInstanceExecute`, C `InputCollector`, D
`OutputResponder`, E `BLSExecutor`, `BatchInput`, F `DeviceMemoryTracker`, G
`ModelConfig` and `BackendModel` with the sequence controls, H `BatchingStrategy`, composed in
`ModelLoading`.

What is left:

| What | Where | Properties |
|---|---|---|
| the device that `BackendMemory` switches to for an allocation and back | `BatchInput`, or a module of its own | the thread ends on the device it started on, whatever failed; freed as allocated |
| string buffers | pure functions against a reference definition, short inputs | equal to the reference |
| the gather kernel's division of the bytes among threads, its sizes modulo 2^w | `InputCollector` | each byte once |

## Running

    tlc -workers 2 -config AsyncPinnedCopy_staged.cfg MCAsyncPinnedCopy
    tlc -workers 2 -config DeviceMemoryTracker_records.cfg MCDeviceMemoryTracker
    tlc -workers 2 -config ModelLoading_load.cfg MCModelLoading
    tlapm AsyncPinnedCopyProofs.tla

`PROJECT.json` lists the module and the configuration of every run. Each run takes from
seconds to about two minutes with two workers (`execute_shared`, about a million
states, takes longest); the proof modules take a few minutes each, `InputCollectorProofs` about a quarter of an hour.
