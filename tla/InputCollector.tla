--------------------------- MODULE InputCollector ---------------------------
(***************************************************************************)
(* BackendInputCollector (src/src/backend_input_collector.cc) without pool *)
(* workers (use_async_cpu_copy_ is FALSE): gathering the buffers of one    *)
(* input over all requests of a batch into one tensor, for a sequence of   *)
(* tensors, and Finalize().  The CUDA stream runs beside the collector.    *)
(*                                                                         *)
(* Abstractions: a byte is named by where it comes from, <<place, address>>*)
(* so a tensor is the sequence of source locations its cells were copied   *)
(* from.  The arrays LaunchCopyKernel uploads are not modelled, every      *)
(* request has the input (a failing RequestInput leaves the pointer it was *)
(* to set undefined), and only copies that involve a GPU can fail.         *)
(***************************************************************************)
EXTENDS Integers, SequencesExt, MemoryTypes

CONSTANT
    Scenarios  \* <<batch, configuration>>; a batch is a sequence of tensors

(***************************************************************************)
(* A tensor of a batch is a record with fields                             *)
(*   inputs   inputs[r]: the buffers of request r, [place, addr, size]     *)
(*   given    the caller provides the destination buffer                   *)
(*   bytes    the size of that buffer                                      *)
(*   allowed  allowed_input_types, the places the destination may have     *)
(* and a configuration is a record with fields                             *)
(*   pinned       pinned_enabled_                                          *)
(*   threshold    kernel_buffer_threshold_                                 *)
(*   copyOnStream copy_on_stream_                                          *)
(*   coalesce     coalesce_request_input_                                  *)
(*   event        an event was given to synchronize with                   *)
(*   ready        a buffer_ready_event was given                           *)
(*   maxFaults    bound: allocations, copies and launches that fail        *)
(***************************************************************************)
InputBuffers == [place : Places, addr : Nat, size : Nat]

\* Sizes and addresses are size_t; every tensor has an input of every request.
ASSUME ScenarioAssumption ==
    \A s \in Scenarios :
        /\ Len(s[1]) \in Nat \ {0} /\ DOMAIN s[1] = 1 .. Len(s[1])
        /\ s[2].ready \in BOOLEAN /\ s[2].maxFaults \in Nat
        /\ \A i \in DOMAIN s[1] :
              /\ s[1][i].inputs \in Seq(Seq(InputBuffers))
              /\ Len(s[1][i].inputs) = Len(s[1][1].inputs)
              /\ s[1][i].allowed \in Seq(Places) /\ s[1][i].bytes \in Nat

VARIABLES
    batch, cfg,   \* chosen at the start
    pc,           \* what the thread does next
    t,            \* the tensor it is processing
    view,         \* view[i]: what ProcessTensor returned for tensor i
    mem,          \* contents of the tensors, then of the pinned buffers
    cursor,       \* the InputIterator: next buffer, request reached, end
    cur,          \* the contiguous buffer it returned, or NoBuffer
    offset,       \* buffer_offset
    pend,         \* pending_pinned_*: offset, byte size, buffers
    kern,         \* pending_copy_kernel_*: offset, byte size, buffers
    deferred,     \* deferred_pinned_
    finalized,    \* how many of them Finalize() has copied
    stream,       \* copies queued on stream_ and not yet performed
    needSync,     \* need_sync_
    mark,         \* queued copies that event_ waits for
    live,         \* requests whose response is not null
    eventSet,     \* buffer_ready_event_ is not null
    bufferReady,  \* that event has fired
    faults        \* failures so far

RequestCount == Len(batch[1].inputs)  \* request_count_
Requests == 1 .. RequestCount

collVars == <<t, view, cursor, cur, offset, pend, kern>>
copyVars == <<mem, stream, live, needSync, faults>>
finVars == <<deferred, finalized>>
eventVars == <<eventSet, bufferReady>>
vars == <<batch, cfg, pc, collVars, copyVars, finVars, mark, eventVars>>
-----------------------------------------------------------------------------
NoBuffer == [place |-> "NONE", addr |-> 0, size |-> 0, first |-> 0, last |-> 0]
NoView == [kind |-> "none", place |-> "NONE", addr |-> 0, bytes |-> 0]
NonePending == [off |-> 0, size |-> 0, bufs |-> <<>>]
Junk == <<"NONE", 0>>

Total(bufs) == FoldLeft(LAMBDA sum, b : sum + b.size, 0, bufs)
SizeBefore(bufs, i) == Total(SubSeq(bufs, 1, i - 1))

Bytes(b) == [i \in 1 .. b.size |-> <<b.place, b.addr + i - 1>>]
RequestsOf(b) == b.first .. b.last
RequestsOfAll(bufs) == UNION {RequestsOf(bufs[i]) : i \in DOMAIN bufs}

\* The buffers in the order the iterator meets them, each with its request.
Collected(tensor) ==
    FlattenSeq([r \in Requests |->
        [i \in DOMAIN tensor.inputs[r] |->
            LET b == tensor.inputs[r][i] IN
            [place |-> b.place, addr |-> b.addr, size |-> b.size,
             first |-> r, last |-> r]]])

AdjacentAnyPlace(a, b) == a.addr + a.size = b.addr  \* mutant
Adjacent(a, b) == a.addr + a.size = b.addr /\ a.place = b.place

Tensor == batch[t]
Place == view[t].place
-----------------------------------------------------------------------------
(***************************************************************************)
(* Copies.  st collects the effect of a series of copies of one handler:   *)
(* memory, stream, live responses and whether CUDA was used.  A copy op    *)
(* writes data, or the contents of pinned buffer src when it is performed, *)
(* to buffer dst at offset off.                                            *)
(***************************************************************************)
Start == [mem |-> mem, stream |-> stream, live |-> live, cuda |-> FALSE]

Overwrite(cells, off, data) ==
    [i \in DOMAIN cells |->
        IF i \in off + 1 .. off + Len(data) THEN data[i - off] ELSE cells[i]]

Perform(memory, op) ==
    [memory EXCEPT ![op.dst] =
        Overwrite(@, op.off, IF op.src = 0 THEN op.data ELSE memory[op.src])]

\* CopyBuffer, and its caller answering the requests reqs if it fails.
CopyBuffer(st, op, mode, fails, reqs) ==
    CASE fails -> [st EXCEPT !.live = @ \ reqs]
      [] ~fails /\ mode = "host" -> [st EXCEPT !.mem = Perform(@, op)]
      [] ~fails /\ mode = "stream" ->
            [st EXCEPT !.stream = Append(@, op), !.cuda = TRUE]

\* The copies to place that may fail: those made by the CUDA runtime.
Breakable(bufs, place) ==
    {i \in DOMAIN bufs : "GPU" \in {MemoryType(bufs[i].place), MemoryType(place)}}

OverflowsWhenFull(off, size, bytes) == off + size >= bytes  \* mutant
Overflows(off, size, bytes) == off + size > bytes

\* SetInputTensor when neither the pinned nor the kernel path is wanted.
DirectCopy(st, b, dst, place, off, fails) ==
    IF Overflows(off, b.size, Len(st.mem[dst]))
    THEN [st EXCEPT !.live = @ \ RequestsOf(b)]
    ELSE CopyBuffer(st, [dst |-> dst, off |-> off, src |-> 0, data |-> Bytes(b)],
                    CopyMode(MemoryType(b.place), MemoryType(place),
                             cfg.copyOnStream),
                    fails, RequestsOf(b))

\* The pending buffers bufs, one after the other from offset base; the
\* copies with an index in F fail.
CopyAll(st, bufs, dst, place, base, F) ==
    FoldLeftDomain(
        LAMBDA acc, i : DirectCopy(acc, bufs[i], dst, place,
                                   base + SizeBefore(bufs, i), i \in F),
        st, bufs)

Fail(n) == faults + n <= cfg.maxFaults /\ faults' = faults + n

Effect(st) ==
    /\ mem' = st.mem /\ stream' = st.stream /\ live' = st.live
    /\ needSync' = (needSync \/ st.cuda)

DoNotWaitBufferReady == UNCHANGED <<eventSet, bufferReady>>  \* mutant
\* cudaEventSynchronize(buffer_ready_event_), the first time it is reached.
WaitBufferReady ==
    /\ eventSet => bufferReady
    /\ eventSet' = FALSE
    /\ UNCHANGED bufferReady
-----------------------------------------------------------------------------
Init ==
    /\ \E s \in Scenarios : batch = s[1] /\ cfg = s[2]
    /\ pc = "begin" /\ t = 1
    /\ view = [i \in DOMAIN batch |-> NoView]
    /\ mem = [i \in DOMAIN batch |-> <<>>]
    /\ cursor = [next |-> 1, stop |-> FALSE]
    /\ cur = NoBuffer /\ offset = 0
    /\ pend = NonePending /\ kern = NonePending
    /\ deferred = <<>> /\ finalized = 0
    /\ stream = <<>> /\ needSync = FALSE /\ mark = 0
    /\ live = Requests
    /\ eventSet = cfg.ready /\ bufferReady = ~cfg.ready
    /\ faults = 0

(***************************************************************************)
(* ProcessTensor: choosing the destination.                                *)
(***************************************************************************)
\* The next tensor of the batch, or Finalize() after the last one.
AdvanceTo ==
    /\ t' = t + 1
    /\ pc' = IF t < Len(batch) THEN "begin" ELSE "finalize"

\* A tensor with bytes to gather enters the loop with a fresh InputIterator.
Enter(place, bytes) ==
    /\ view' = [view EXCEPT ![t] =
                  [kind |-> "buffer", place |-> place, addr |-> 0, bytes |-> bytes]]
    /\ mem' = [mem EXCEPT ![t] = [i \in 1 .. bytes |-> Junk]]
    /\ IF bytes = 0
       THEN AdvanceTo /\ UNCHANGED <<cursor, offset>>
       ELSE /\ pc' = "next" /\ t' = t
            /\ cursor' = [next |-> 1, stop |-> Tensor.inputs[1] = <<>>]
            /\ offset' = 0

\* The caller's buffer; allowed_input_types must then name its type only.
BeginGiven ==
    /\ pc = "begin" /\ Tensor.given /\ Len(Tensor.allowed) = 1
    /\ Enter(Tensor.allowed[1], Tensor.bytes)
    /\ UNCHANGED <<batch, cfg, cur, pend, kern, stream, live, needSync, faults,
                   finVars, mark, eventVars>>

\* GetInputBufferIfContiguous.
Contiguous(bufs) ==
    \A i \in 1 .. Len(bufs) - 1 : cfg.coalesce /\ Adjacent(bufs[i], bufs[i + 1])

\* The input already is one buffer of an allowed type: no copy at all.
Reusable(bufs) ==
    /\ Total(bufs) # 0 /\ Contiguous(bufs)
    /\ bufs[1].place \in Range(Tensor.allowed)

BeginReused ==
    LET bufs == Collected(Tensor) IN
    /\ pc = "begin" /\ ~Tensor.given /\ Tensor.allowed # <<>>
    /\ Reusable(bufs)
    /\ view' = [view EXCEPT ![t] = [kind |-> "reused", place |-> bufs[1].place,
                                    addr |-> bufs[1].addr, bytes |-> Total(bufs)]]
    /\ AdvanceTo
    /\ UNCHANGED <<batch, cfg, cursor, cur, offset, pend, kern, copyVars, finVars,
                   mark, eventVars>>

\* A buffer of the first allowed type for which BackendMemory::Create works.
BeginAllocated ==
    LET bufs == Collected(Tensor) IN
    /\ pc = "begin" /\ ~Tensor.given
    /\ ~Reusable(bufs)
    /\ \E k \in DOMAIN Tensor.allowed :
          Fail(k - 1) /\ Enter(Tensor.allowed[k], Total(bufs))
    /\ UNCHANGED <<batch, cfg, cur, pend, kern, stream, live, needSync, finVars,
                   mark, eventVars>>

\* ProcessTensor returns an error: the caller answers every request with it
\* (RESPOND_ALL_AND_SET_NULL_IF_ERROR in recommended.cc) and goes on.
BeginFailed ==
    /\ pc = "begin"
    /\ \/ Tensor.given /\ Len(Tensor.allowed) # 1 /\ UNCHANGED faults
       \/ ~Tensor.given /\ Tensor.allowed = <<>> /\ UNCHANGED faults
       \/ /\ ~Tensor.given /\ Tensor.allowed # <<>>
          /\ ~Reusable(Collected(Tensor))
          /\ Fail(Len(Tensor.allowed))
    /\ view' = [view EXCEPT ![t].kind = "error"]
    /\ live' = {}
    /\ AdvanceTo
    /\ UNCHANGED <<batch, cfg, cursor, cur, offset, pend, kern, mem, stream,
                   needSync, finVars, mark, eventVars>>

(***************************************************************************)
(* InputIterator::GetNextContiguousInput.                                  *)
(***************************************************************************)
\* The last of the buffers that are contiguous with buffer i.
RunEnd(bufs, i) ==
    CHOOSE j \in i .. Len(bufs) :
        /\ \A k \in i .. j - 1 : Adjacent(bufs[k], bufs[k + 1])
        /\ j = Len(bufs) \/ ~Adjacent(bufs[j], bufs[j + 1])

\* Having returned buffer j, the iterator moves to a request without buffers.
StopsAfter(bufs, j) ==
    LET r == bufs[j].first IN
    /\ ~cfg.coalesce /\ r < RequestCount
    /\ j = Len(bufs) \/ bufs[j + 1].first # r
    /\ Tensor.inputs[r + 1] = <<>>

AtEnd == cursor.stop \/ cursor.next > Len(Collected(Tensor))

GetNextContiguousInput ==
    LET bufs == Collected(Tensor)
        i == cursor.next
        j == IF cfg.coalesce THEN RunEnd(bufs, i) ELSE i
    IN
    /\ pc = "next" /\ ~AtEnd
    /\ cur' = [place |-> bufs[i].place, addr |-> bufs[i].addr,
               size |-> Total(SubSeq(bufs, i, j)),
               first |-> bufs[i].first, last |-> bufs[j].first]
    /\ cursor' = [next |-> j + 1, stop |-> StopsAfter(bufs, j)]
    /\ pc' = "pinned"
    /\ UNCHANGED <<batch, cfg, t, view, offset, pend, kern, copyVars, finVars, mark,
                   eventVars>>

InputsExhausted ==
    /\ pc = "next" /\ AtEnd
    /\ cur' = NoBuffer /\ pc' = "pinned"
    /\ UNCHANGED <<batch, cfg, t, view, cursor, offset, pend, kern, copyVars,
                   finVars, mark, eventVars>>

(***************************************************************************)
(* FlushPendingPinned: when the next buffer does not continue the pending  *)
(* region, and at the end of the tensor.                                   *)
(***************************************************************************)
AlwaysContinues(p) == TRUE  \* mutant
Continues(p) == offset = p.size + p.off

Due(p) == cur = NoBuffer \/ (p.size > 0 /\ ~Continues(p))

SkipFlushPinned ==
    /\ pc = "pinned" /\ (~Due(pend) \/ pend.bufs = <<>>)
    /\ pc' = "kernel"
    /\ UNCHANGED <<batch, cfg, collVars, copyVars, finVars, mark, eventVars>>

PinnedBuffersKept == [pend EXCEPT !.size = 0, !.off = 0]  \* mutant
\* What a flush leaves of the pending copies.
PinnedHandled == NonePending

\* No pinned buffer (none needed, or the allocation failed): direct copies.
FlushPinnedDirect ==
    /\ pc = "pinned" /\ Due(pend) /\ pend.bufs # <<>>
    /\ WaitBufferReady
    /\ \E F \in SUBSET Breakable(pend.bufs, Place) :
          /\ Fail(Cardinality(F) + IF pend.size > 0 THEN 1 ELSE 0)
          /\ Effect(CopyAll(Start, pend.bufs, t, Place, pend.off, F))
    /\ pend' = PinnedHandled /\ pc' = "kernel"
    /\ UNCHANGED <<batch, cfg, t, view, cursor, cur, offset, kern, finVars, mark>>

\* The buffers copied to a new pinned buffer, the copies in F failing.
Staged(F) ==
    CopyAll([Start EXCEPT !.mem = Append(@, [i \in 1 .. pend.size |-> Junk])],
            pend.bufs, Len(mem) + 1, "CPU_PINNED", 0, F)

\* Pinned buffer src to a tensor, at once or later: def tells which part.
CopyFromPinned(st, def, onStream, fails) ==
    CopyBuffer(st,
               [dst |-> def.dst, off |-> def.off, src |-> def.src, data |-> <<>>],
               CopyMode("CPU_PINNED", MemoryType(view[def.dst].place), onStream),
               fails, RequestsOfAll(def.bufs))

\* May the copy from a pinned buffer to the tensor fail?
FinalFaults(tensor) == {FALSE, MemoryType(view[tensor].place) = "GPU"}

Deferred == [src |-> Len(mem) + 1, dst |-> t, off |-> pend.off, bufs |-> pend.bufs]

\* Everything staged already: go on to the tensor.
FlushPinnedNow ==
    /\ pc = "pinned" /\ Due(pend) /\ pend.size > 0
    /\ WaitBufferReady
    /\ \E F \in SUBSET Breakable(pend.bufs, "CPU_PINNED"), fails \in FinalFaults(t) :
          /\ ~Staged(F).cuda
          /\ Fail(Cardinality(F) + IF fails THEN 1 ELSE 0)
          /\ Effect(CopyFromPinned(Staged(F), Deferred, cfg.copyOnStream, fails))
    /\ pend' = PinnedHandled /\ pc' = "kernel"
    /\ UNCHANGED <<batch, cfg, t, view, cursor, cur, offset, kern, finVars, mark>>

\* Copies to the pinned buffer are in flight: leave the rest to Finalize().
FlushPinnedDeferred ==
    /\ pc = "pinned" /\ Due(pend) /\ pend.size > 0
    /\ WaitBufferReady
    /\ \E F \in SUBSET Breakable(pend.bufs, "CPU_PINNED") :
          /\ Staged(F).cuda
          /\ Fail(Cardinality(F))
          /\ Effect(Staged(F))
    /\ deferred' = Append(deferred, Deferred)
    /\ pend' = PinnedHandled /\ pc' = "kernel"
    /\ UNCHANGED <<batch, cfg, t, view, cursor, cur, offset, kern, finalized, mark>>

(***************************************************************************)
(* FlushPendingCopyKernel, and the end of ProcessTensor after it.          *)
(***************************************************************************)
RecordNothing(sync) == mark' = mark  \* mutant
\* need_sync_ as the handler leaves it; stream with its copies queued.
RecordEvent(sync) ==
    mark' = IF sync /\ cfg.event THEN Len(stream') ELSE mark

\* On to the buffer in hand, or done with the tensor.
AfterFlush ==
    IF cur = NoBuffer
    THEN RecordEvent(needSync') /\ AdvanceTo
    ELSE pc' = "set" /\ UNCHANGED <<t, mark>>

SkipFlushKernel ==
    /\ pc = "kernel" /\ (~Due(kern) \/ kern.bufs = <<>>)
    /\ UNCHANGED <<batch, cfg, view, cursor, cur, offset, pend, kern, copyVars,
                   finVars, eventVars>>
    /\ AfterFlush

EnoughForKernel == Len(kern.bufs) >= cfg.threshold

Gather(st) ==
    CopyBuffer(st, [dst |-> t, off |-> kern.off, src |-> 0,
                    data |-> FlattenSeq([i \in DOMAIN kern.bufs |->
                                            Bytes(kern.bufs[i])])],
               "stream", FALSE, {})

LaunchCopyKernel ==
    /\ pc = "kernel" /\ Due(kern) /\ kern.bufs # <<>>
    /\ EnoughForKernel
    /\ WaitBufferReady
    /\ Effect(Gather(Start))
    /\ kern' = NonePending
    /\ AfterFlush
    /\ UNCHANGED <<batch, cfg, view, cursor, cur, offset, pend, faults, finVars>>

\* Too few buffers for a launch, or the launch failed.
FlushKernelDirect ==
    /\ pc = "kernel" /\ Due(kern) /\ kern.bufs # <<>>
    /\ WaitBufferReady
    /\ \E F \in SUBSET Breakable(kern.bufs, Place) :
          /\ Fail(Cardinality(F) + IF EnoughForKernel THEN 1 ELSE 0)
          /\ Effect(CopyAll(Start, kern.bufs, t, Place, kern.off, F))
    /\ kern' = NonePending
    /\ AfterFlush
    /\ UNCHANGED <<batch, cfg, view, cursor, cur, offset, pend, finVars>>

(***************************************************************************)
(* SetInputTensor on the buffer the iterator returned.                     *)
(***************************************************************************)
Fits == ~Overflows(offset, cur.size, view[t].bytes)

UsePinnedMemoryType ==
    IF cfg.pinned THEN GetUsePinnedMemoryType(MemoryType(Place)) ELSE "CPU_PINNED"

WantsPinned ==
    /\ UsePinnedMemoryType # "CPU_PINNED"
    /\ MemoryType(cur.place) = UsePinnedMemoryType

WantsKernel ==
    /\ cfg.threshold # 0
    /\ MemoryType(cur.place) # "CPU" /\ MemoryType(Place) = "GPU"
    /\ MemoryType(cur.place) # "GPU" \/ cur.place = Place

\* mutant
RestartsPending(p) ==
    [off |-> offset, size |-> p.size + cur.size, bufs |-> Append(p.bufs, cur)]
\* The buffer joins those pending in p.
Pending(p) ==
    [off |-> IF p.size = 0 THEN offset ELSE p.off,
     size |-> p.size + cur.size, bufs |-> Append(p.bufs, cur)]

NextBuffer ==
    /\ pc = "set" /\ pc' = "next"
    /\ offset' = offset + cur.size
    /\ UNCHANGED <<batch, cfg, t, view, cursor, cur, finVars, mark>>

SetTooLarge ==
    /\ NextBuffer /\ ~Fits
    /\ live' = live \ RequestsOf(cur)
    /\ UNCHANGED <<pend, kern, mem, stream, needSync, faults, eventVars>>

SetPendingPinned ==
    /\ NextBuffer /\ Fits /\ WantsPinned
    /\ pend' = Pending(pend)
    /\ UNCHANGED <<kern, copyVars, eventVars>>

SetPendingKernel ==
    /\ NextBuffer /\ Fits /\ ~WantsPinned /\ WantsKernel
    /\ kern' = Pending(kern)
    /\ UNCHANGED <<pend, copyVars, eventVars>>

SetDirect ==
    /\ NextBuffer /\ Fits /\ ~WantsPinned /\ ~WantsKernel
    /\ WaitBufferReady
    /\ \E F \in SUBSET Breakable(<<cur>>, Place) :
          /\ Fail(Cardinality(F))
          /\ Effect(DirectCopy(Start, cur, t, Place, offset, F # {}))
    /\ UNCHANGED <<pend, kern>>

(***************************************************************************)
(* Finalize(), and the caller acting on its result.                        *)
(***************************************************************************)
\* The wait for copies the caller, or Finalize(), was told to make.
Synchronized == IF cfg.event THEN mark = 0 ELSE stream = <<>>

\* mutant
FinalizeWithoutSync ==
    /\ pc = "finalize" /\ pc' = "ready"
    /\ UNCHANGED <<batch, cfg, collVars, copyVars, finVars, mark, eventVars>>

FinalizeSync ==
    /\ pc = "finalize"
    /\ IF deferred # <<>> /\ needSync
       THEN Synchronized /\ needSync' = FALSE
       ELSE UNCHANGED needSync
    /\ pc' = "ready"
    /\ UNCHANGED <<batch, cfg, collVars, mem, stream, live, faults, finVars, mark,
                   eventVars>>

FinalizeReady ==
    /\ pc = "ready" /\ WaitBufferReady
    /\ pc' = "deferred"
    /\ UNCHANGED <<batch, cfg, collVars, copyVars, finVars, mark>>

FinalizeDeferred ==
    /\ pc = "deferred" /\ finalized < Len(deferred)
    /\ LET def == deferred[finalized + 1] IN
       \E fails \in FinalFaults(def.dst) :
          /\ Fail(IF fails THEN 1 ELSE 0)
          /\ Effect(CopyFromPinned(Start, def, FALSE, fails))
    /\ finalized' = finalized + 1
    /\ UNCHANGED <<batch, cfg, pc, collVars, deferred, mark, eventVars>>

FinalizeReturn ==
    /\ pc = "deferred" /\ finalized = Len(deferred)
    /\ UNCHANGED copyVars
    /\ RecordEvent(deferred # <<>> /\ needSync)
    /\ pc' = "returned"
    /\ UNCHANGED <<batch, cfg, collVars, finVars, eventVars>>

\* The caller reads the tensors; if told to it first synchronizes.
CallerSync ==
    /\ pc = "returned" /\ (needSync => Synchronized)
    /\ pc' = "consumed"
    /\ UNCHANGED <<batch, cfg, collVars, copyVars, finVars, mark, eventVars>>

Terminating == pc = "consumed" /\ UNCHANGED vars

(***************************************************************************)
(* The CUDA stream performs its copies in order; an event fires.           *)
(***************************************************************************)
RunCopy ==
    /\ stream # <<>>
    /\ mem' = Perform(mem, Head(stream))
    /\ stream' = Tail(stream)
    /\ mark' = IF mark = 0 THEN 0 ELSE mark - 1
    /\ UNCHANGED <<batch, cfg, pc, collVars, live, needSync, faults, finVars,
                   eventVars>>

BufferReadyFires ==
    /\ ~bufferReady /\ bufferReady' = TRUE
    /\ UNCHANGED <<batch, cfg, pc, collVars, copyVars, finVars, mark, eventSet>>

Next ==
    \/ BeginGiven \/ BeginReused \/ BeginAllocated \/ BeginFailed
    \/ GetNextContiguousInput \/ InputsExhausted
    \/ SkipFlushPinned \/ FlushPinnedDirect \/ FlushPinnedNow \/ FlushPinnedDeferred
    \/ SkipFlushKernel \/ LaunchCopyKernel \/ FlushKernelDirect
    \/ SetTooLarge \/ SetPendingPinned \/ SetPendingKernel \/ SetDirect
    \/ FinalizeSync \/ FinalizeReady \/ FinalizeDeferred \/ FinalizeReturn
    \/ CallerSync \/ Terminating
    \/ RunCopy \/ BufferReadyFires

Spec == Init /\ [][Next]_vars
-----------------------------------------------------------------------------
(***************************************************************************)
(* Types, with the sizes of the pending copies those of their buffers.     *)
(***************************************************************************)
PendingOK(p) == p.size = Total(p.bufs) /\ p.off + p.size <= view[t].bytes

TypeOK ==
    /\ pc \in {"begin", "next", "pinned", "kernel", "set", "finalize", "ready",
               "deferred", "returned", "consumed"}
    /\ t \in 1 .. Len(batch) + 1
    /\ DOMAIN view = DOMAIN batch
    /\ \A i \in DOMAIN view :
          view[i].kind \in {"none", "buffer", "reused", "error"}
    /\ Len(mem) >= Len(batch)
    /\ finalized \in 0 .. Len(deferred)
    /\ mark \in 0 .. Len(stream)
    /\ needSync \in BOOLEAN /\ live \subseteq Requests
    /\ eventSet \in BOOLEAN /\ bufferReady \in BOOLEAN
    /\ faults \in 0 .. cfg.maxFaults
    /\ IF t \in DOMAIN batch
       THEN PendingOK(pend) /\ PendingOK(kern)
       ELSE pend = NonePending /\ kern = NonePending

(***************************************************************************)
(* The bytes of request r belong in its tensor after those of the requests *)
(* before it.                                                              *)
(***************************************************************************)
InputBytes(tensor, r) ==
    FlattenSeq([i \in DOMAIN tensor.inputs[r] |-> Bytes(tensor.inputs[r][i])])

InputOffset(tensor, r) ==
    FoldFunctionOnSet(+, 0, [q \in Requests |-> Len(InputBytes(tensor, q))],
                      1 .. r - 1)

InputEnd(tensor, r) == InputOffset(tensor, r) + Len(InputBytes(tensor, r))

\* What the caller finds in tensor i.
Cells(i) ==
    IF view[i].kind = "reused"
    THEN Bytes([place |-> view[i].place, addr |-> view[i].addr,
                size |-> view[i].bytes])
    ELSE mem[i]

GatheredFrom(i, r) ==
    SubSeq(Cells(i), InputOffset(batch[i], r) + 1, InputEnd(batch[i], r))
        = InputBytes(batch[i], r)

\* The iterator gets to the input of request r: there is a loop, as there is
\* none for a given buffer without bytes, and without coalescing it stops at
\* a request whose input has no buffers.
Iterated(tensor, r) ==
    /\ tensor.given => tensor.bytes # 0
    /\ \A q \in IF cfg.coalesce THEN {1} ELSE 1 .. r : tensor.inputs[q] # <<>>

(***************************************************************************)
(* When the caller has synchronized as Finalize() told it to, every tensor *)
(* holds, for every request not answered with an error, exactly the bytes  *)
(* of its input at its offset: no order of staging, kernel and direct      *)
(* copies, and no failure of some of them, leaves other bytes there.       *)
(***************************************************************************)
Gathered ==
    pc = "consumed" =>
        \A i \in DOMAIN batch : \A r \in live :
            Iterated(batch[i], r) => GatheredFrom(i, r)

(***************************************************************************)
(* A request is answered with an error only if a call failed or its bytes, *)
(* or those it was coalesced with, do not fit in the buffer the caller     *)
(* gave.                                                                   *)
(***************************************************************************)
AnsweredForCause ==
    faults = 0 =>
        \A r \in Requests \ live : \E i \in DOMAIN batch :
            \/ view[i].kind = "error"
            \/ /\ batch[i].given
               /\ InputEnd(batch[i], IF cfg.coalesce THEN RequestCount ELSE r)
                      > batch[i].bytes

(***************************************************************************)
(* What Finalize() tells the caller to wait for covers every copy still in *)
(* flight: none if it returns FALSE, and all those queued are before the   *)
(* last cudaEventRecord if the caller gave an event.                       *)
(***************************************************************************)
SyncCoversCopies ==
    pc = "returned" =>
        /\ ~needSync => stream = <<>>
        /\ needSync /\ cfg.event => mark = Len(stream)

(***************************************************************************)
(* No byte of a tensor changes before the event that says its buffer may   *)
(* be written has fired.                                                   *)
(***************************************************************************)
TensorWrittenWhenReady ==
    [][\A i \in DOMAIN batch :
          Len(mem[i]) # 0 /\ mem'[i] # mem[i] => bufferReady]_vars
=============================================================================
