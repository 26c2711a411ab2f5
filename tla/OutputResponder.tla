-------------------------- MODULE OutputResponder --------------------------
(***************************************************************************)
(* BackendOutputResponder (src/src/backend_output_responder.cc):           *)
(* scattering output and state tensors over the responses of a batch, and  *)
(* Finalize().  The CUDA stream runs beside the responder.                 *)
(*                                                                         *)
(* Abstractions: a row of the batch dimension is one byte, so a size counts*)
(* both; byte k of tensor i is <<i, k>>; a buffer is the sequence of the   *)
(* bytes it holds.  Only copies that involve a GPU can fail.               *)
(***************************************************************************)
EXTENDS Integers, SequencesExt, MemoryTypes

CONSTANT
    Scenarios  \* <<batch, configuration>>; a batch is a sequence of tensors

(***************************************************************************)
(* A tensor of a batch is a record with fields                             *)
(*   kind   "output" (ProcessTensor), "state" (ProcessStateTensor) or      *)
(*          "batch" (ProcessBatchOutput)                                   *)
(*   place  where the tensor is                                            *)
(*   rows   batchn_shape[0], or -1                                         *)
(*   sizes  sizes[q]: the rows of response q                               *)
(*   wants  the requests that asked for this output                        *)
(*   dst    dst[q]: where the buffer of response q is                      *)
(* and a configuration is a record with fields                             *)
(*   pinned       pinned_enabled_                                          *)
(*   firstDim     first_dim_batching_                                      *)
(*   copyOnStream copy_on_stream_                                          *)
(*   event        an event was given to synchronize with                   *)
(*   maxFaults    bound: calls that fail                                   *)
(***************************************************************************)
ASSUME ScenarioAssumption ==
    \A s \in Scenarios :
        /\ Len(s[1]) \in Nat \ {0} /\ DOMAIN s[1] = 1 .. Len(s[1])
        /\ \A i \in DOMAIN s[1] : /\ s[1][i].sizes \in Seq(Nat)
                                  /\ Len(s[1][i].sizes) = Len(s[1][1].sizes)
        /\ s[2].maxFaults \in Nat

VARIABLES
    batch, cfg,   \* chosen at the start
    pc,           \* what the thread does next
    t,            \* the tensor it is processing
    r,            \* the response it is at
    offset,       \* tensor_offset, and batch_size_offset
    pend,         \* pending_pinned_*: offset, byte size, outputs
    job,          \* copies of one flush, or deferred copy, still to issue
    deferred,     \* deferred_pinned_
    finalized,    \* how many of them Finalize() has taken up
    states,       \* the states ProcessStateTensor returned
    out,          \* out[i][q]: buffer of response q for tensor i
    pin,          \* the pinned buffers
    stream,       \* copies queued on stream_ and not yet performed
    needSync,     \* need_sync_
    mark,         \* queued copies that event_ waits for
    live,         \* requests whose response is not null
    faults        \* failures so far

RequestCount == Len(batch[1].sizes)  \* responses_->size()
Requests == 1 .. RequestCount

loopVars == <<t, r, offset, pend>>
finVars == <<deferred, finalized>>
dataVars == <<out, pin, stream, needSync, live, faults>>
vars == <<batch, cfg, pc, loopVars, job, finVars, states, dataVars, mark>>
-----------------------------------------------------------------------------
NonePending == [off |-> 0, size |-> 0, outs |-> <<>>]
NoJob == [src |-> 0, place |-> "NONE", off |-> 0, outs |-> <<>>]

Junk(n) == [k \in 1 .. n |-> <<0, 0>>]
Tensor == batch[t]
Size == Tensor.sizes[r]

(***************************************************************************)
(* A copy op moves size bytes at off of pinned buffer src, or of tensor i  *)
(* if src is 0, to pinned buffer pin, or to the buffer of response q for   *)
(* tensor i if pin is 0.                                                   *)
(***************************************************************************)
Data(op) ==
    IF op.src = 0
    THEN [k \in 1 .. op.size |-> <<op.i, op.off + k>>]
    ELSE SubSeq(pin[op.src], op.off + 1, op.off + op.size)

\* outs and pins are the buffers before the copy.
Perform(op, outs, pins) ==
    IF op.pin = 0
    THEN /\ out' = [outs EXCEPT ![op.i][op.q] = Data(op)]
         /\ pin' = pins
    ELSE /\ pin' = [pins EXCEPT ![op.pin] = Data(op)]
         /\ out' = outs

Fail(n) == faults + n <= cfg.maxFaults /\ faults' = faults + n

Mode(from, to) == CopyMode(MemoryType(from), MemoryType(to), cfg.copyOnStream)

CopyOnHost(op, from, to, outs, pins) ==
    /\ Mode(from, to) = "host"
    /\ Perform(op, outs, pins)
    /\ UNCHANGED <<stream, needSync, live, faults>>

CopyForgotten == needSync  \* mutant
\* need_sync_ once a copy went to the stream.
QueuedSync == TRUE
CopyOnStream(op, from, to, outs, pins) ==
    /\ Mode(from, to) = "stream"
    /\ stream' = Append(stream, op) /\ needSync' = QueuedSync
    /\ out' = outs /\ pin' = pins /\ UNCHANGED <<live, faults>>

\* An error: the responses of reqs that are not null are sent with it.
CopyFails(from, to, outs, pins, reqs) ==
    /\ "GPU" \in {MemoryType(from), MemoryType(to)}
    /\ Fail(1) /\ live' = live \ reqs
    /\ out' = outs /\ pin' = pins /\ UNCHANGED <<stream, needSync>>

Copy(op, from, to, outs) ==
    \/ CopyOnHost(op, from, to, outs, pin)
    \/ CopyOnStream(op, from, to, outs, pin)
    \/ CopyFails(from, to, outs, pin, {op.q})
-----------------------------------------------------------------------------
Init ==
    /\ \E s \in Scenarios : batch = s[1] /\ cfg = s[2]
    /\ pc = "check" /\ t = 1 /\ r = 1 /\ offset = 0
    /\ pend = NonePending /\ job = NoJob
    /\ deferred = <<>> /\ finalized = 0 /\ states = <<>>
    /\ out = [i \in DOMAIN batch |-> [q \in Requests |-> <<>>]]
    /\ pin = <<>> /\ stream = <<>>
    /\ needSync = FALSE /\ mark = 0
    /\ live = Requests /\ faults = 0

(***************************************************************************)
(* The loop over the responses: flush what the next part does not          *)
(* continue, and at the end of the tensor.                                 *)
(***************************************************************************)
Done == r > RequestCount

AlwaysContinues(p) == TRUE  \* mutant
Continues(p) == offset = p.size + p.off

Due == Done \/ (pend.size > 0 /\ ~Continues(pend))

SkipFlush ==
    /\ pc = "check" /\ ~Due
    /\ pc' = "respond"
    /\ UNCHANGED <<batch, cfg, loopVars, job, finVars, states, dataVars, mark>>

(***************************************************************************)
(* FlushPendingPinned.                                                     *)
(***************************************************************************)
PinnedOutputsKept == [pend EXCEPT !.size = 0, !.off = 0]  \* mutant
\* What a flush leaves of the pending copies.
PinnedHandled == NonePending

\* No pinned buffer (none needed, or the allocation failed): copy each
\* output from the tensor.
FlushDirect ==
    /\ pc = "check" /\ Due
    /\ IF pend.size > 0 THEN Fail(1) ELSE UNCHANGED faults
    /\ job' = [src |-> 0, place |-> Tensor.place, off |-> pend.off,
               outs |-> pend.outs]
    /\ pend' = PinnedHandled /\ pc' = "scatter"
    /\ UNCHANGED <<batch, cfg, t, r, offset, finVars, states, out, pin, stream,
                   needSync, live, mark>>

NewPin == Len(pin) + 1

WithPin == Append(pin, Junk(pend.size))

ToPinned ==
    [src |-> 0, off |-> pend.off, size |-> pend.size, pin |-> NewPin, i |-> t, q |-> 0]

FromPinned ==
    [src |-> NewPin, place |-> "CPU_PINNED", off |-> 0, outs |-> pend.outs]

PendingResponses == {pend.outs[k].q : k \in DOMAIN pend.outs}

\* One copy of the block to a pinned buffer; if it did not go to the
\* stream, even because it failed, the copies to the outputs follow.
FlushNow ==
    /\ pc = "check" /\ Due /\ pend.size > 0
    /\ \/ CopyOnHost(ToPinned, Tensor.place, "CPU_PINNED", out, WithPin)
       \/ CopyFails(Tensor.place, "CPU_PINNED", out, WithPin, PendingResponses)
    /\ job' = FromPinned
    /\ pend' = PinnedHandled /\ pc' = "scatter"
    /\ UNCHANGED <<batch, cfg, t, r, offset, finVars, states, mark>>

\* The copy to the pinned buffer is in flight: the rest is for Finalize().
FlushDeferred ==
    /\ pc = "check" /\ Due /\ pend.size > 0
    /\ CopyOnStream(ToPinned, Tensor.place, "CPU_PINNED", out, WithPin)
    /\ deferred' = Append(deferred, FromPinned)
    /\ pend' = PinnedHandled /\ pc' = IF Done THEN "end" ELSE "respond"
    /\ UNCHANGED <<batch, cfg, t, r, offset, job, finalized, states, mark>>

(***************************************************************************)
(* The copies to the outputs one after the other, for a flush or for       *)
(* Finalize().                                                             *)
(***************************************************************************)
Scatter ==
    LET o == Head(job.outs) IN
    /\ pc = "scatter" /\ job.outs # <<>>
    /\ Copy([src |-> job.src, off |-> job.off, size |-> o.size, pin |-> 0,
             i |-> o.i, q |-> o.q],
            job.place, o.place, out)
    /\ job' = [job EXCEPT !.off = @ + o.size, !.outs = Tail(@)]
    /\ UNCHANGED <<batch, cfg, pc, loopVars, finVars, states, mark>>

ScatterDone ==
    /\ pc = "scatter" /\ job.outs = <<>>
    /\ pc' = CASE t > Len(batch) -> "deferred"
               [] t <= Len(batch) /\ Done -> "end"
               [] t <= Len(batch) /\ ~Done -> "respond"
    /\ job' = NoJob
    /\ UNCHANGED <<batch, cfg, loopVars, finVars, states, dataVars, mark>>

(***************************************************************************)
(* One turn of the loop, for a response and its part of the tensor.        *)
(***************************************************************************)
MissesLastRow(rows) == offset + Size >= rows  \* mutant
TooFewRows(rows) == offset + Size > rows

\* Only a batched tensor is split by rows.
SplitFails ==
    /\ cfg.firstDim /\ Tensor.kind # "batch" /\ Tensor.rows # -1
    /\ TooFewRows(Tensor.rows)

Wanted == Tensor.kind = "state" \/ r \in Tensor.wants

NextResponse ==
    /\ pc = "respond" /\ pc' = "check"
    /\ r' = r + 1 /\ offset' = offset + Size
    /\ UNCHANGED <<batch, cfg, t, job, finVars, mark>>

RespondTooFewRows ==
    /\ NextResponse /\ SplitFails
    /\ live' = live \ {r}
    /\ UNCHANGED <<pend, states, out, pin, stream, needSync, faults>>

RespondNothing ==
    /\ NextResponse /\ ~SplitFails
    /\ r \notin live \/ ~Wanted
    /\ UNCHANGED <<pend, states, dataVars>>

\* The output or the state cannot be created, or gets no buffer; a state
\* without buffer is returned all the same.
RespondFails ==
    /\ NextResponse /\ ~SplitFails /\ r \in live
    /\ Fail(1) /\ live' = live \ {r}
    /\ \/ UNCHANGED states
       \/ Tensor.kind = "state" /\ states' = Append(states, <<t, r>>)
    /\ UNCHANGED <<pend, out, pin, stream, needSync>>

\* SetFixedSizeBuffer, called once the output or state exists.
SetFixedSizeBuffer ==
    /\ NextResponse /\ ~SplitFails /\ r \in live /\ Wanted
    /\ states' = IF Tensor.kind = "state" THEN Append(states, <<t, r>>) ELSE states

UsePinnedMemoryType ==
    IF cfg.pinned
    THEN GetUsePinnedMemoryType(MemoryType(Tensor.place)) ELSE "CPU_PINNED"

WantsPinned ==
    /\ UsePinnedMemoryType # "CPU_PINNED"
    /\ MemoryType(Tensor.dst[r]) = UsePinnedMemoryType

WithBuffer == [out EXCEPT ![t][r] = Junk(Size)]

SetPending ==
    /\ SetFixedSizeBuffer /\ WantsPinned
    /\ pend' = [off |-> IF pend.size = 0 THEN offset ELSE pend.off,
                size |-> pend.size + Size,
                outs |-> Append(pend.outs, [i |-> t, q |-> r, size |-> Size,
                                            place |-> Tensor.dst[r]])]
    /\ out' = WithBuffer
    /\ UNCHANGED <<pin, stream, needSync, live, faults>>

SetDirect ==
    /\ SetFixedSizeBuffer /\ ~WantsPinned
    /\ Copy([src |-> 0, off |-> offset, size |-> Size, pin |-> 0, i |-> t, q |-> r],
            Tensor.place, Tensor.dst[r], WithBuffer)
    /\ UNCHANGED pend

RecordNothing(sync) == mark' = mark  \* mutant
RecordEvent(sync) == mark' = IF sync /\ cfg.event THEN Len(stream) ELSE mark

EndTensor ==
    /\ pc = "end"
    /\ RecordEvent(needSync)
    /\ t' = t + 1 /\ r' = 1 /\ offset' = 0
    /\ pc' = IF t < Len(batch) THEN "check" ELSE "finalize"
    /\ UNCHANGED <<batch, cfg, pend, job, finVars, states, dataVars>>

(***************************************************************************)
(* Finalize(), and the caller that sends the responses that are left.      *)
(***************************************************************************)
Synchronized == IF cfg.event THEN mark = 0 ELSE stream = <<>>

\* mutant
FinalizeWithoutSync ==
    /\ pc = "finalize" /\ pc' = "deferred"
    /\ UNCHANGED <<batch, cfg, loopVars, job, finVars, states, dataVars, mark>>

FinalizeSync ==
    /\ pc = "finalize"
    /\ IF deferred # <<>> /\ needSync
       THEN Synchronized /\ needSync' = FALSE
       ELSE UNCHANGED needSync
    /\ pc' = "deferred"
    /\ UNCHANGED <<batch, cfg, loopVars, job, finVars, states, out, pin, stream,
                   live, faults, mark>>

FinalizeDeferred ==
    /\ pc = "deferred" /\ finalized < Len(deferred)
    /\ job' = deferred[finalized + 1]
    /\ finalized' = finalized + 1
    /\ pc' = "scatter"
    /\ UNCHANGED <<batch, cfg, loopVars, deferred, states, dataVars, mark>>

\* The event is recorded again if there were deferred copies.
FinalizeReturn ==
    /\ pc = "deferred" /\ finalized = Len(deferred)
    /\ RecordEvent(deferred # <<>> /\ needSync)
    /\ deferred' = <<>> /\ finalized' = 0
    /\ pc' = "returned"
    /\ UNCHANGED <<batch, cfg, loopVars, job, states, dataVars>>

\* The caller synchronizes if told to, sends the responses and destroys the
\* responder with its pinned buffers.
SendResponses ==
    /\ pc = "returned" /\ (needSync => Synchronized)
    /\ pc' = "sent"
    /\ UNCHANGED <<batch, cfg, loopVars, job, finVars, states, dataVars, mark>>

Terminating == pc = "sent" /\ UNCHANGED vars

\* The CUDA stream performs its copies in order.
RunCopy ==
    /\ stream # <<>>
    /\ Perform(Head(stream), out, pin)
    /\ stream' = Tail(stream)
    /\ mark' = IF mark = 0 THEN 0 ELSE mark - 1
    /\ UNCHANGED <<batch, cfg, pc, loopVars, job, finVars, states, needSync, live,
                   faults>>

Next ==
    \/ SkipFlush \/ FlushDirect \/ FlushNow \/ FlushDeferred
    \/ Scatter \/ ScatterDone
    \/ RespondTooFewRows \/ RespondNothing \/ RespondFails
    \/ SetPending \/ SetDirect \/ EndTensor
    \/ FinalizeSync \/ FinalizeDeferred \/ FinalizeReturn
    \/ SendResponses \/ Terminating
    \/ RunCopy

Spec == Init /\ [][Next]_vars
-----------------------------------------------------------------------------
PendingSize == FoldLeft(LAMBDA sum, o : sum + o.size, 0, pend.outs)

(***************************************************************************)
(* Types, with the size of the pending copies that of their outputs.       *)
(***************************************************************************)
TypeOK ==
    /\ pc \in {"check", "scatter", "respond", "end", "finalize", "deferred",
               "returned", "sent"}
    /\ t \in 1 .. Len(batch) + 1 /\ r \in 1 .. RequestCount + 1
    /\ pend.size = PendingSize
    /\ Range(states) \subseteq (DOMAIN batch) \X Requests
    /\ DOMAIN out = DOMAIN batch
    /\ mark \in 0 .. Len(stream) /\ needSync \in BOOLEAN
    /\ live \subseteq Requests
    /\ faults \in 0 .. cfg.maxFaults

PartOffset(i, q) ==
    FoldLeft(+, 0, SubSeq(batch[i].sizes, 1, q - 1))

Part(i, q) ==
    [k \in 1 .. batch[i].sizes[q] |-> <<i, PartOffset(i, q) + k>>]

(***************************************************************************)
(* When the responses are sent, those not answered with an error hold      *)
(* their part of each tensor they asked for, and ProcessStateTensor        *)
(* returned their states: no mix of staging and direct copies, and no      *)
(* failure of another response's, left other bytes there.                  *)
(***************************************************************************)
Scattered ==
    pc = "sent" =>
        \A i \in DOMAIN batch : \A q \in live :
            /\ q \in batch[i].wants \/ batch[i].kind = "state" =>
                  out[i][q] = Part(i, q)
            /\ batch[i].kind = "state" => <<i, q>> \in Range(states)

(***************************************************************************)
(* A response is sent with an error only if a call failed or the model's   *)
(* output has fewer rows than the requests up to it.                       *)
(***************************************************************************)
AnsweredForCause ==
    faults = 0 =>
        \A q \in Requests \ live : \E i \in DOMAIN batch :
            /\ cfg.firstDim /\ batch[i].rows # -1
            /\ PartOffset(i, q) + batch[i].sizes[q] > batch[i].rows

(***************************************************************************)
(* No copy is in flight when the responses are sent and the pinned buffers *)
(* are freed: what Finalize() told the caller to wait for was everything.  *)
(***************************************************************************)
QuietWhenSent == pc = "sent" => stream = <<>>
=============================================================================
