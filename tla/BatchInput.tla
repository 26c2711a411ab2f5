----------------------------- MODULE BatchInput -----------------------------
(***************************************************************************)
(* BackendInputCollector::ProcessBatchInput (backend_input_collector.cc):  *)
(* tensors that describe the batch itself, such as the number of elements  *)
(* each request has in one input.  They are computed on the CPU, if need   *)
(* be in an internal buffer that a copy on the CUDA stream moves on.       *)
(*                                                                         *)
(* Abstractions: a cell is an element of the tensor (int32_t and float     *)
(* have the same size) and holds the number written to it, whatever its    *)
(* precision.  BATCH_ITEM_SHAPE and ..._FLATTEN differ in the shape only.  *)
(* A batch input has one source input, of the same rank in all requests.   *)
(***************************************************************************)
EXTENDS Integers, SequencesExt, MemoryTypes

CONSTANT
    Scenarios  \* <<calls, configuration>>

(***************************************************************************)
(* A call of ProcessBatchInput is a record with fields                     *)
(*   kind     the batch input's kind                                       *)
(*   shapes   shapes[q]: the shape of the source input in request q,       *)
(*            the batch dimension first                                    *)
(*   given    the caller provides the destination buffer                   *)
(*   cells    the size of that buffer                                      *)
(*   allowed  allowed_input_types, the places the destination may have     *)
(* and a configuration is a record with fields                             *)
(*   event     an event was given to synchronize with                      *)
(*   ready     a buffer_ready_event was given                              *)
(*   maxFaults bound: allocations, copies and look-ups that fail           *)
(***************************************************************************)
ItemKinds == {"BATCH_ITEM_SHAPE", "BATCH_ITEM_SHAPE_FLATTEN"}
Accumulating == {"BATCH_ACCUMULATED_ELEMENT_COUNT",
                 "BATCH_ACCUMULATED_ELEMENT_COUNT_WITH_ZERO"}
Kinds == ItemKinds \cup Accumulating
            \cup {"BATCH_ELEMENT_COUNT", "BATCH_MAX_ELEMENT_COUNT_AS_SHAPE"}

CallRecords ==
    [kind : Kinds, shapes : Seq(Seq(Nat)), given : BOOLEAN, cells : Nat,
     allowed : Seq(Places)]
Configs == [event : BOOLEAN, ready : BOOLEAN, maxFaults : Nat]

ASSUME ScenarioAssumption ==
    \A s \in Scenarios :
        /\ s[1] \in Seq(CallRecords) /\ s[1] # <<>> /\ s[2] \in Configs
        /\ \A i \in DOMAIN s[1] :
              /\ s[1][i].shapes # <<>>
              /\ Len(s[1][i].shapes) = Len(s[1][1].shapes)
              /\ \A q \in DOMAIN s[1][i].shapes :
                    /\ s[1][i].shapes[q] # <<>>
                    /\ Len(s[1][i].shapes[q]) = Len(s[1][i].shapes[1])

VARIABLES
    calls, cfg,   \* chosen at the start
    step,         \* what the thread does next
    cur,          \* the call it is in
    view,         \* view[i]: the destination that call i returned
    mem,          \* mem[i]: contents of that buffer
    internal,     \* internal[i]: the CPU buffer behind a GPU destination
    held,         \* calls whose internal buffer is in in_use_memories_
    next,         \* req_idx
    at,           \* buffer_offset, from where the Set function starts
    sum,          \* accumulated_element_count
    stray,        \* calls that wrote past the end of the buffer
    stream,       \* calls whose copy is queued on stream_
    needSync,     \* need_sync_
    eventSet,     \* buffer_ready_event_ is not null
    bufferReady,  \* that event has fired
    faults        \* failures so far

fillVars == <<next, at, sum>>
bufVars == <<mem, internal, stray>>
copyVars == <<held, stream, needSync>>
eventVars == <<eventSet, bufferReady>>
batchVars ==
    <<calls, cfg, step, cur, view, bufVars, fillVars, copyVars, eventVars,
      faults>>
-----------------------------------------------------------------------------
NoView == [kind |-> "none", place |-> "NONE"]
Junk == -1

request_count == Len(calls[1].shapes)  \* request_count_
ThisCall == calls[cur]
Kind == ThisCall.kind

GetElementCount(shape) ==
    FoldLeft(LAMBDA count, dim : count * dim, Head(shape), Tail(shape))
Count(q) == GetElementCount(ThisCall.shapes[q])

BatchSize(shapes) == FoldLeft(LAMBDA total, shape : total + shape[1], 0, shapes)

NoRoomForZero(kind) == request_count  \* mutant
\* The length of a tensor with a number per request.
Numbers(kind) ==
    IF kind = "BATCH_ACCUMULATED_ELEMENT_COUNT_WITH_ZERO"
    THEN request_count + 1 ELSE request_count

\* BatchInputShape.
BatchInputShape ==
    CASE Kind \in Accumulating \cup {"BATCH_ELEMENT_COUNT"} -> <<Numbers(Kind)>>
      [] Kind = "BATCH_MAX_ELEMENT_COUNT_AS_SHAPE" ->
            <<FoldLeft(LAMBDA n, shape : IF GetElementCount(shape) > n
                                         THEN GetElementCount(shape) ELSE n,
                       0, ThisCall.shapes)>>
      [] Kind = "BATCH_ITEM_SHAPE" ->
            <<BatchSize(ThisCall.shapes), Len(Last(ThisCall.shapes)) - 1>>
      [] Kind = "BATCH_ITEM_SHAPE_FLATTEN" ->
            <<FoldLeft(LAMBDA n, shape : n + shape[1] * (Len(shape) - 1),
                       0, ThisCall.shapes)>>

\* In cells; no dimension is a wildcard.
GetByteSize(shape) == GetElementCount(shape)

\* The kinds for which BatchInputShape looks the source input up.
LooksUp(kind) == kind \in ItemKinds \cup {"BATCH_MAX_ELEMENT_COUNT_AS_SHAPE"}

(***************************************************************************)
(* BackendMemory::Create tries allocation types in order; ProcessBatchInput*)
(* does so for one allowed place after the other.  Attempts fail on their  *)
(* own: what an attempt is made of, a type and a device, plays no role.    *)
(***************************************************************************)
AllocationTypes(type) ==
    CASE type = "GPU" -> <<"GPU_POOL", "GPU">>
      [] type = "CPU_PINNED" -> <<"CPU_PINNED_POOL", "CPU_PINNED">>
      [] type = "CPU" -> <<"CPU">>

\* The places of the memory that the successive attempts would create.
Attempts ==
    FlattenSeq([k \in DOMAIN ThisCall.allowed |->
        [a \in DOMAIN AllocationTypes(MemoryType(ThisCall.allowed[k])) |->
            ThisCall.allowed[k]]])

InternalTypes == <<"CPU_PINNED_POOL", "CPU">>

Failing(n) == faults + n <= cfg.maxFaults /\ faults' = faults + n

\* BackendMemory::Create succeeds at attempt k, or with none of them.
CreateAt(k) == Failing(k - 1)
CreateFails(attempts) == Failing(Len(attempts))
-----------------------------------------------------------------------------
BatchInit ==
    /\ \E s \in Scenarios : calls = s[1] /\ cfg = s[2]
    /\ step = "begin" /\ cur = 1
    /\ view = [i \in DOMAIN calls |-> NoView]
    /\ mem = [i \in DOMAIN calls |-> <<>>]
    /\ internal = [i \in DOMAIN calls |-> <<>>]
    /\ held = {} /\ stream = <<>> /\ needSync = FALSE
    /\ next = 1 /\ at = 0 /\ sum = 0 /\ stray = {}
    /\ eventSet = cfg.ready /\ bufferReady = ~cfg.ready
    /\ faults = 0

\* The call returns, in error or not; the caller makes the next one or, after
\* an error, gives the batch up.
CallReturns(kind) ==
    /\ view' = [view EXCEPT ![cur].kind = kind]
    /\ cur' = cur + 1
    /\ step' = IF kind = "error" \/ cur = Len(calls) THEN "finalize" ELSE "begin"

WaitBufferReady ==
    /\ eventSet => bufferReady
    /\ eventSet' = FALSE /\ UNCHANGED bufferReady

\* The destination is known.
Enter(place, cells) ==
    /\ view' = [view EXCEPT ![cur].place = place]
    /\ mem' = [mem EXCEPT ![cur] = [i \in 1 .. cells |-> Junk]]
    /\ step' = IF MemoryType(place) = "GPU" THEN "internal" ELSE "start"

BeginGiven ==
    /\ step = "begin" /\ WaitBufferReady
    /\ ThisCall.given /\ Len(ThisCall.allowed) = 1
    /\ Enter(ThisCall.allowed[1], ThisCall.cells)
    /\ UNCHANGED <<calls, cfg, cur, internal, stray, fillVars, copyVars, faults>>

BeginAllocated ==
    /\ step = "begin" /\ WaitBufferReady
    /\ ~ThisCall.given
    /\ \E k \in DOMAIN Attempts :
          CreateAt(k) /\ Enter(Attempts[k], GetByteSize(BatchInputShape))
    /\ UNCHANGED <<calls, cfg, cur, internal, stray, fillVars, copyVars>>

BeginFailed ==
    /\ step = "begin" /\ WaitBufferReady
    /\ \/ ThisCall.given /\ Len(ThisCall.allowed) # 1 /\ UNCHANGED faults
       \/ ~ThisCall.given /\ ThisCall.allowed = <<>> /\ UNCHANGED faults
       \/ ~ThisCall.given /\ ThisCall.allowed # <<>> /\ LooksUp(Kind)
          /\ Failing(1)
       \/ ~ThisCall.given /\ ThisCall.allowed # <<>> /\ CreateFails(Attempts)
    /\ CallReturns("error")
    /\ UNCHANGED <<calls, cfg, bufVars, fillVars, copyVars>>

\* A GPU destination needs a CPU buffer to compute in.
CreateInternal ==
    /\ step = "internal"
    /\ \E k \in DOMAIN InternalTypes : CreateAt(k)
    /\ internal' = [internal EXCEPT ![cur] = [i \in DOMAIN mem[cur] |-> Junk]]
    /\ step' = "start"
    /\ UNCHANGED <<calls, cfg, cur, view, mem, stray, fillVars, copyVars,
                   eventVars>>

CreateInternalFails ==
    /\ step = "internal" /\ CreateFails(InternalTypes)
    /\ CallReturns("error")
    /\ UNCHANGED <<calls, cfg, bufVars, fillVars, copyVars, eventVars>>
-----------------------------------------------------------------------------
(***************************************************************************)
(* Computing the tensor, one request after the other.                      *)
(***************************************************************************)
OnDevice == MemoryType(view[cur].place) = "GPU"
Size == Len(mem[cur])  \* dst_buffer_byte_size

\* Write numbers to the CPU buffer from cell first on.
Write(first, numbers) ==
    LET end == first + Len(numbers) - 1
        Updated(buffer) ==
            [i \in DOMAIN buffer |->
                IF i \in first .. end THEN numbers[i - first + 1] ELSE buffer[i]]
    IN
    /\ IF OnDevice
       THEN internal' = [internal EXCEPT ![cur] = Updated(@)] /\ UNCHANGED mem
       ELSE mem' = [mem EXCEPT ![cur] = Updated(@)] /\ UNCHANGED internal
    /\ stray' = IF end > Size THEN stray \cup {cur} ELSE stray

\* The leading zero of ..._WITH_ZERO is not part of what the Set functions see.
Base == IF Kind = "BATCH_ACCUMULATED_ELEMENT_COUNT_WITH_ZERO" THEN 1 ELSE 0

StartZero ==
    /\ step = "start"
    /\ Kind = "BATCH_ACCUMULATED_ELEMENT_COUNT_WITH_ZERO" \/ Kind \in ItemKinds
    /\ Write(1, <<0>>)
    /\ step' = "fill" /\ next' = 1 /\ at' = 0 /\ sum' = 0
    /\ UNCHANGED <<calls, cfg, cur, view, copyVars, eventVars, faults>>

StartPlain ==
    /\ step = "start"
    /\ Kind \in {"BATCH_ELEMENT_COUNT", "BATCH_ACCUMULATED_ELEMENT_COUNT"}
    /\ step' = "fill" /\ next' = 1 /\ at' = 0 /\ sum' = 0
    /\ UNCHANGED <<calls, cfg, cur, view, bufVars, copyVars, eventVars, faults>>

\* The shape says it all.
StartShape ==
    /\ step = "start" /\ Kind = "BATCH_MAX_ELEMENT_COUNT_AS_SHAPE"
    /\ CallReturns("buffer")
    /\ UNCHANGED <<calls, cfg, bufVars, fillVars, copyVars, eventVars, faults>>

\* What one request adds: a number, or for each of its items the shape, which
\* is written even if there is no item.
Entry(q) ==
    LET shape == ThisCall.shapes[q] IN
    CASE Kind \in Accumulating -> <<sum + Count(q)>>
      [] Kind = "BATCH_ELEMENT_COUNT" -> <<Count(q)>>
      [] Kind \in ItemKinds /\ shape[1] = 0 -> Tail(shape)
      [] Kind \in ItemKinds /\ shape[1] # 0 ->
            FlattenSeq([i \in 1 .. shape[1] |-> Tail(shape)])

\* The room that is checked for, and by which buffer_offset advances.
Taken(q) ==
    IF Kind \in ItemKinds
    THEN ThisCall.shapes[q][1] * (Len(ThisCall.shapes[q]) - 1)
    ELSE 1

\* Without room for the leading zero the size wraps around and any end fits.
FitsWithZero(end) == end <= Size \/ Size < Base  \* mutant
Fits(end) == end <= Size - Base \/ Size < Base

FillRequest ==
    /\ step = "fill" /\ next <= request_count
    /\ Fits(at + Taken(next))
    /\ Write(Base + at + 1, Entry(next))
    /\ at' = at + Taken(next)
    /\ sum' = sum + Count(next)
    /\ next' = next + 1
    /\ UNCHANGED <<calls, cfg, step, cur, view, copyVars, eventVars, faults>>

\* There is no room, or the source input is not found.
FillFails ==
    /\ step = "fill" /\ next <= request_count
    /\ \/ ~Fits(at + Taken(next)) /\ UNCHANGED faults
       \/ Failing(1)
    /\ CallReturns("error")
    /\ UNCHANGED <<calls, cfg, bufVars, fillVars, copyVars, eventVars>>

\* What follows the numbers: no elements, or no increase of the count.
Rest == IF Kind \in Accumulating THEN sum ELSE 0

FillRest ==
    /\ step = "fill" /\ next > request_count
    /\ IF Kind \in ItemKinds \/ Size < Base
       THEN UNCHANGED bufVars
       ELSE Write(Base + at + 1, [i \in 1 .. Size - Base - at |-> Rest])
    /\ IF OnDevice
       THEN step' = "copy" /\ UNCHANGED <<cur, view>>
       ELSE CallReturns("buffer")
    /\ UNCHANGED <<calls, cfg, fillVars, copyVars, eventVars, faults>>

InternalFreed == UNCHANGED held  \* mutant
KeepInternal == held' = held \cup {cur}

\* The destructor of BackendMemory has given the internal buffer back.
Freed(i) == i \notin held

CopyToDevice ==
    /\ step = "copy"
    /\ stream' = Append(stream, cur)
    /\ KeepInternal /\ needSync' = TRUE
    /\ CallReturns("buffer")
    /\ UNCHANGED <<calls, cfg, bufVars, fillVars, eventVars, faults>>

CopyFails ==
    /\ step = "copy" /\ Failing(1)
    /\ CallReturns("error")
    /\ UNCHANGED <<calls, cfg, bufVars, fillVars, copyVars, eventVars>>
-----------------------------------------------------------------------------
(***************************************************************************)
(* Finalize(), there being no deferred copies, returns need_sync_.  The    *)
(* caller then synchronizes with the stream, or with the event if it gave  *)
(* one: ProcessBatchInput does not record that, so its wait ends at once.  *)
(***************************************************************************)
Finalize ==
    /\ step = "finalize" /\ step' = "returned"
    /\ WaitBufferReady
    /\ UNCHANGED <<calls, cfg, cur, view, bufVars, fillVars, copyVars, faults>>

CallerSync ==
    /\ step = "returned" /\ step' = "consumed"
    /\ needSync => cfg.event \/ stream = <<>>
    /\ UNCHANGED <<calls, cfg, cur, view, bufVars, fillVars, copyVars, eventVars,
                   faults>>

\* A copy whose internal buffer is gone copies whatever is there by then.
RunCopy ==
    /\ stream # <<>>
    /\ LET i == Head(stream) IN
       mem' = [mem EXCEPT ![i] =
                  IF Freed(i) THEN [k \in DOMAIN @ |-> Junk] ELSE internal[i]]
    /\ stream' = Tail(stream)
    /\ UNCHANGED <<calls, cfg, step, cur, view, internal, stray, fillVars, held,
                   needSync, eventVars, faults>>

BufferReadyFires ==
    /\ ~bufferReady /\ bufferReady' = TRUE
    /\ UNCHANGED <<calls, cfg, step, cur, view, bufVars, fillVars, copyVars, eventSet,
                   faults>>

Consumed ==
    /\ step = "consumed" /\ stream = <<>>
    /\ UNCHANGED batchVars

BatchNext ==
    \/ BeginGiven \/ BeginAllocated \/ BeginFailed
    \/ CreateInternal \/ CreateInternalFails
    \/ StartZero \/ StartPlain \/ StartShape
    \/ FillRequest \/ FillFails \/ FillRest
    \/ CopyToDevice \/ CopyFails
    \/ Finalize \/ CallerSync \/ Consumed
    \/ RunCopy \/ BufferReadyFires

BatchSpec == BatchInit /\ [][BatchNext]_batchVars
-----------------------------------------------------------------------------
(***************************************************************************)
(* Types, with the offset never beyond the end of a buffer with cells.     *)
(***************************************************************************)
BatchTypeOK ==
    /\ step \in {"begin", "internal", "start", "fill", "copy", "finalize",
               "returned", "consumed"}
    /\ cur \in 1 .. Len(calls) + 1
    /\ \A i \in DOMAIN view : /\ view[i].kind \in {"none", "buffer", "error"}
                              /\ view[i].place \in Places \cup {"NONE"}
    /\ \A i \in DOMAIN internal : Len(internal[i]) \in {0, Len(mem[i])}
    /\ held \subseteq DOMAIN calls /\ Range(stream) \subseteq DOMAIN calls
    /\ next \in 1 .. request_count + 1 /\ at \in Nat /\ sum \in Nat
    /\ step = "fill" => Base + at <= Size \/ Size = 0
    /\ stray \subseteq DOMAIN calls /\ needSync \in BOOLEAN
    /\ eventSet \in BOOLEAN /\ bufferReady \in BOOLEAN
    /\ faults \in 0 .. cfg.maxFaults

(***************************************************************************)
(* What a batch input is supposed to hold, by its kind.                    *)
(***************************************************************************)
CountsUpTo(shapes, q) ==
    FoldFunctionOnSet(+, 0, [p \in DOMAIN shapes |-> GetElementCount(shapes[p])],
                      1 .. q)

Content(call) ==
    LET shapes == call.shapes
        counts == [q \in DOMAIN shapes |-> GetElementCount(shapes[q])]
        sums == [q \in DOMAIN shapes |-> CountsUpTo(shapes, q)]
    IN
    CASE call.kind = "BATCH_ELEMENT_COUNT" -> counts
      [] call.kind = "BATCH_ACCUMULATED_ELEMENT_COUNT" -> sums
      [] call.kind = "BATCH_ACCUMULATED_ELEMENT_COUNT_WITH_ZERO" -> <<0>> \o sums
      [] call.kind \in ItemKinds ->
            FlattenSeq([q \in DOMAIN shapes |->
                FlattenSeq([i \in 1 .. shapes[q][1] |-> Tail(shapes[q])])])

\* The cells after the content, where the kind defines them.
Padding(call) ==
    IF call.kind = "BATCH_ELEMENT_COUNT" THEN 0
    ELSE CountsUpTo(call.shapes, Len(call.shapes))

Describes(i) ==
    LET content == Content(calls[i]) IN
    /\ SubSeq(mem[i], 1, Len(content)) = content
    /\ calls[i].kind \notin ItemKinds =>
          \A k \in Len(content) + 1 .. Len(mem[i]) : mem[i][k] = Padding(calls[i])

Returned(i) ==
    view[i].kind = "buffer" /\ calls[i].kind # "BATCH_MAX_ELEMENT_COUNT_AS_SHAPE"

(***************************************************************************)
(* When the caller has synchronized with the stream as Finalize() told it  *)
(* to, every batch input it was given holds what its kind says about the   *)
(* batch, the rest of a larger buffer filled up, whichever earlier or later*)
(* call failed.  Buffers without any cell are left out, and callers that   *)
(* wait for the event: nobody records it behind the copy to a GPU.         *)
(***************************************************************************)
Described ==
    step = "consumed" /\ ~cfg.event =>
        \A i \in DOMAIN calls : Returned(i) /\ mem[i] # <<>> => Describes(i)

(***************************************************************************)
(* The size BatchInputShape computes is enough for what the Set functions  *)
(* write: without a failing call there is an error only for a buffer that  *)
(* the caller gave too small, or with other places than it asked for.      *)
(***************************************************************************)
ErrorForCause ==
    faults = 0 =>
        \A i \in DOMAIN calls : view[i].kind = "error" =>
            \/ calls[i].given /\ Len(calls[i].allowed) # 1
            \/ calls[i].given /\ Len(Content(calls[i])) > calls[i].cells
            \/ ~calls[i].given /\ calls[i].allowed = <<>>

(***************************************************************************)
(* The writes that are made without a look at the size: the zero before    *)
(* the Set functions (and what follows it, the size less the zero having   *)
(* wrapped around), and the shape of a request without items, written      *)
(* behind the items of the requests up to it.                              *)
(***************************************************************************)
Unchecked(call, size) ==
    \/ /\ size = 0
       /\ \/ call.kind \in ItemKinds
          \/ call.kind = "BATCH_ACCUMULATED_ELEMENT_COUNT_WITH_ZERO"
    \/ /\ call.kind \in ItemKinds
       /\ \E q \in DOMAIN call.shapes :
             /\ call.shapes[q][1] = 0
             /\ (BatchSize(SubSeq(call.shapes, 1, q)) + 1)
                   * (Len(call.shapes[1]) - 1) > size

(***************************************************************************)
(* Nothing else is written past the end of a buffer: a call with a buffer  *)
(* of at least one cell, and with an item in every request if it writes    *)
(* shapes, stays within it, whether the buffer was given or allocated.     *)
(* Nor is any variable, the offset above all, out of its range.            *)
(***************************************************************************)
WithinBuffer ==
    BatchTypeOK /\ \A i \in stray : Unchecked(calls[i], Len(mem[i]))
=============================================================================
