------------------------ MODULE OutputResponderProofs ------------------------
(***************************************************************************)
(* The output responder, for every batch, every size and every scenario.   *)
(* What Finalize() tells its caller to wait for is everything that is in   *)
(* flight (NothingInFlight); the responder's own account of where it is    *)
(* and of what is pending is right (TypeCorrect); a response is answered   *)
(* with an error only for cause (OnlyForCause); and what is sent without   *)
(* an error holds exactly the bytes of the tensors that it asked for       *)
(* (PartsDelivered).                                                       *)
(*                                                                         *)
(* For the last one, RightInv says that every copy, queued, pending or     *)
(* deferred, moves the right bytes to the right place, also through a      *)
(* pinned buffer that is yet to be filled, and CoverInv that every part    *)
(* the loop has dealt with is there or has such a copy.                    *)
(***************************************************************************)
EXTENDS OutputResponder, SequenceTheorems, FiniteSetTheorems, TLAPS

IsSequence(s) == \E S : s \in Seq(S)

\* While the tensors are processed, and after that.
Processing == t <= Len(batch)
FlowInv ==
    /\ t \in Nat /\ Len(batch) \in Nat
    /\ pc \in {"check", "respond", "end"} => Processing
    /\ pc \in {"finalize", "deferred", "returned", "sent"} => ~Processing
    /\ pc \in {"check", "scatter", "respond", "end", "finalize", "deferred", "returned", "sent"}
    /\ pc = "scatter" /\ ~Processing => deferred # <<>>
    /\ finalized \in Nat /\ IsSequence(deferred)

\* The flag covers the stream, and the event does where it was recorded last.
Recorded == needSync /\ cfg.event => mark = Len(stream)
StreamInv ==
    /\ IsSequence(stream)
    /\ needSync \in BOOLEAN
    /\ mark \in Nat /\ mark <= Len(stream)
    /\ stream # <<>> => needSync
    /\ pc \in {"finalize", "returned"} \/ (pc = "deferred" /\ deferred = <<>>) => Recorded
    /\ pc = "sent" => stream = <<>>

IInv == FlowInv /\ StreamInv
-----------------------------------------------------------------------------
LEMMA AppendFacts ==
    ASSUME NEW s, IsSequence(s), NEW e
    PROVE  /\ IsSequence(Append(s, e))
           /\ Append(s, e) # <<>> /\ Len(s) \in Nat /\ Len(Append(s, e)) = Len(s) + 1
<1> PICK S : s \in Seq(S)
    BY DEF IsSequence
<1>1. s \in Seq(S \cup {e})
    BY SeqMonotonic
<1>2. Append(s, e) \in Seq(S \cup {e})
    BY <1>1
<1> QED BY <1>1, <1>2 DEF IsSequence

LEMMA TailFacts ==
    ASSUME NEW s, IsSequence(s), s # <<>>
    PROVE  /\ IsSequence(Tail(s))
           /\ Len(s) \in Nat \ {0} /\ Len(Tail(s)) = Len(s) - 1
<1> PICK S : s \in Seq(S)
    BY DEF IsSequence
<1> QED BY HeadTailProperties, EmptySeq DEF IsSequence

LEMMA LenFacts ==
    ASSUME NEW s, IsSequence(s)
    PROVE  Len(s) \in Nat /\ (Len(s) = 0 <=> s = <<>>)
BY EmptySeq, LenProperties DEF IsSequence

LEMMA EmptyFacts == IsSequence(<<>>) /\ Len(<<>>) = 0
<1>1. <<>> \in Seq({}) /\ Len(<<>>) = 0
    OBVIOUS
<1> QED BY <1>1 DEF IsSequence

LEMMA InitInv == Init => IInv
<1> SUFFICES ASSUME Init PROVE IInv
    OBVIOUS
<1>1. /\ stream = <<>> /\ deferred = <<>> /\ mark = 0 /\ needSync = FALSE
      /\ pc = "check" /\ t = 1 /\ finalized = 0
    BY DEF Init
<1>2. Len(batch) \in Nat /\ Processing
    <2>1. PICK s \in Scenarios : batch = s[1]
        BY DEF Init
    <2> QED BY <1>1, <2>1, ScenarioAssumption DEF Processing
<1>3. FlowInv
    BY <1>1, <1>2, EmptyFacts DEF FlowInv
<1>4. IsSequence(stream) /\ mark \in Nat /\ mark <= Len(stream)
    <2>1. IsSequence(stream) /\ Len(stream) = 0
        BY <1>1, EmptyFacts
    <2> QED BY <1>1, <2>1
<1>5. StreamInv
    BY <1>1, <1>4 DEF StreamInv
<1> QED BY <1>3, <1>5 DEF IInv
-----------------------------------------------------------------------------
\* Steps that queue no copy, and record no event.
LEMMA QuietStep ==
    ASSUME IInv, UNCHANGED <<stream, needSync, mark, cfg>>, pc' \notin {"finalize", "returned", "sent"},
           pc' = "deferred" /\ deferred' = <<>> => Recorded
    PROVE  StreamInv'
BY DEF IInv, StreamInv, Recorded

\* A copy before Finalize(), or while it has deferred ones: the event is recorded later.
LEMMA CopyStep ==
    ASSUME IInv, NEW op, NEW from, NEW to, NEW outs, NEW pins, NEW reqs,
           \/ CopyOnHost(op, from, to, outs, pins)
           \/ CopyOnStream(op, from, to, outs, pins)
           \/ CopyFails(from, to, outs, pins, reqs),
           UNCHANGED <<mark, cfg>>, pc' \in {"check", "scatter", "respond", "end"}
    PROVE  StreamInv'
<1>1. /\ \/ stream' = stream /\ needSync' = needSync
         \/ stream' = Append(stream, op) /\ needSync' = TRUE
    BY DEF CopyOnHost, CopyOnStream, CopyFails, QueuedSync
<1>2. CASE stream' = stream /\ needSync' = needSync
    BY <1>2, QuietStep
<1>3. CASE stream' = Append(stream, op) /\ needSync' = TRUE
    <2>1. /\ IsSequence(stream')
          /\ Len(stream) \in Nat /\ Len(stream') = Len(stream) + 1
        BY <1>3, AppendFacts DEF IInv, StreamInv
    <2> QED BY <1>3, <2>1 DEF IInv, StreamInv, Recorded
<1> QED BY <1>1, <1>2, <1>3

\* The loop over the responses, for one tensor or, in "scatter", for Finalize().
LEMMA ProcessStep ==
    ASSUME IInv,
           \/ SkipFlush \/ FlushDirect \/ FlushNow \/ FlushDeferred \/ Scatter
           \/ RespondTooFewRows \/ RespondNothing \/ RespondFails \/ SetPending \/ SetDirect
    PROVE  IInv'
<1>1. /\ pc \in {"check", "respond", "scatter"} /\ pc' \in {"check", "scatter", "respond", "end"}
      /\ pc # "scatter" => Processing
      /\ pc = "scatter" => pc' = "scatter" /\ deferred' = deferred
      /\ UNCHANGED <<batch, cfg, t, mark, finalized>>
    BY DEF SkipFlush, FlushDirect, FlushNow, FlushDeferred, Scatter, RespondTooFewRows,
           RespondNothing, RespondFails, SetPending, SetDirect, SetFixedSizeBuffer, NextResponse,
           loopVars, finVars, dataVars, IInv, FlowInv
<1>2. deferred' = deferred \/ deferred' = Append(deferred, FromPinned)
    BY DEF SkipFlush, FlushDirect, FlushNow, FlushDeferred, Scatter, RespondTooFewRows,
           RespondNothing, RespondFails, SetPending, SetDirect, SetFixedSizeBuffer, NextResponse,
           loopVars, finVars, dataVars
<1>3. FlowInv'
    BY <1>1, <1>2, AppendFacts DEF IInv, FlowInv, Processing
<1>4. StreamInv'
    <2>1. CASE FlushNow
        BY <1>1, <2>1, CopyStep DEF FlushNow
    <2>2. CASE FlushDeferred
        BY <1>1, <2>2, CopyStep DEF FlushDeferred
    <2>3. CASE Scatter
        BY <1>1, <2>3, CopyStep DEF Scatter, Copy
    <2>4. CASE SetDirect
        BY <1>1, <2>4, CopyStep DEF SetDirect, Copy
    <2>5. CASE \/ SkipFlush \/ FlushDirect \/ RespondTooFewRows \/ RespondNothing
               \/ RespondFails \/ SetPending
        <3>1. UNCHANGED <<stream, needSync>>
            BY <2>5 DEF SkipFlush, FlushDirect, RespondTooFewRows, RespondNothing, RespondFails,
                        SetPending, dataVars
        <3> QED BY <1>1, <3>1, QuietStep
    <2> QED BY <2>1, <2>2, <2>3, <2>4, <2>5
<1> QED BY <1>3, <1>4 DEF IInv

LEMMA ScatterDoneStep == ASSUME IInv, ScatterDone PROVE IInv'
<1>1. /\ pc = "scatter" /\ UNCHANGED <<batch, cfg, t, deferred, finalized, stream, needSync, mark>>
      /\ pc' = IF Processing THEN IF Done THEN "end" ELSE "respond" ELSE "deferred"
    BY DEF ScatterDone, loopVars, finVars, dataVars, Processing, IInv, FlowInv
<1>2. FlowInv' /\ (pc' = "deferred" => deferred' # <<>>)
    BY <1>1 DEF IInv, FlowInv, Processing
<1>3. StreamInv'
    BY <1>1, <1>2, QuietStep
<1> QED BY <1>2, <1>3 DEF IInv

\* After each tensor the event is recorded behind the copies queued so far.
LEMMA EndTensorStep == ASSUME IInv, EndTensor PROVE IInv'
<1>1. /\ pc = "end" /\ t' = t + 1 /\ pc' = IF t < Len(batch) THEN "check" ELSE "finalize"
      /\ UNCHANGED <<batch, cfg, deferred, finalized, stream, needSync>>
      /\ mark' = IF needSync /\ cfg.event THEN Len(stream) ELSE mark
    BY DEF EndTensor, RecordEvent, finVars, dataVars
<1>2. FlowInv'
    BY <1>1 DEF IInv, FlowInv, Processing
<1>3. StreamInv'
    BY <1>1, LenFacts DEF IInv, StreamInv, Recorded
<1> QED BY <1>2, <1>3 DEF IInv

(***************************************************************************)
(* Finalize() synchronizes if there is something deferred and something in *)
(* flight: then nothing is in flight, and the flag may be cleared.         *)
(***************************************************************************)
LEMMA FinalizeSteps ==
    ASSUME IInv, FinalizeSync \/ FinalizeDeferred \/ FinalizeReturn \/ SendResponses
    PROVE  IInv'
<1>1. \/ pc = "finalize" /\ pc' = "deferred" /\ UNCHANGED <<deferred, finalized>>
      \/ /\ pc = "deferred" /\ pc' = "scatter"
         /\ finalized < Len(deferred) /\ finalized' = finalized + 1 /\ deferred' = deferred
      \/ pc = "deferred" /\ pc' = "returned" /\ deferred' = <<>> /\ finalized' = 0
      \/ pc = "returned" /\ pc' = "sent" /\ UNCHANGED <<deferred, finalized>>
    BY DEF FinalizeSync, FinalizeDeferred, FinalizeReturn, SendResponses, finVars
<1>2. UNCHANGED <<batch, cfg, t, stream>>
    BY DEF FinalizeSync, FinalizeDeferred, FinalizeReturn, SendResponses, loopVars, dataVars
<1>3. FlowInv'
    <2>1. finalized' \in Nat /\ IsSequence(deferred') /\ (pc' = "scatter" => deferred' # <<>>)
        BY <1>1, EmptyFacts, LenFacts DEF IInv, FlowInv
    <2> QED BY <1>1, <1>2, <2>1 DEF IInv, FlowInv, Processing
<1>4. Len(stream) \in Nat /\ (Len(stream) = 0 <=> stream = <<>>)
    BY LenFacts DEF IInv, StreamInv
<1>5. CASE FinalizeSync
    <2>1. pc = "finalize" /\ pc' = "deferred" /\ UNCHANGED <<deferred, mark>>
        BY <1>5 DEF FinalizeSync, finVars
    <2>2. CASE deferred # <<>> /\ needSync
        <3>1. stream = <<>> /\ needSync' = FALSE
            BY <1>4, <1>5, <2>2 DEF FinalizeSync, Synchronized, IInv, StreamInv, Recorded
        <3> QED BY <1>2, <1>3, <2>1, <3>1 DEF IInv, StreamInv, Recorded
    <2>3. CASE ~(deferred # <<>> /\ needSync)
        BY <1>2, <1>3, <1>5, <2>1, <2>3 DEF FinalizeSync, IInv, StreamInv, Recorded
    <2> QED BY <2>2, <2>3
<1>6. CASE FinalizeDeferred
    <2>1. pc' = "scatter" /\ UNCHANGED <<needSync, mark>>
        BY <1>6 DEF FinalizeDeferred, dataVars
    <2> QED BY <1>2, <1>3, <2>1, QuietStep DEF IInv
<1>7. CASE FinalizeReturn
    <2>1. /\ pc = "deferred" /\ pc' = "returned" /\ needSync' = needSync
          /\ mark' = IF (deferred # <<>> /\ needSync) /\ cfg.event THEN Len(stream) ELSE mark
        BY <1>7 DEF FinalizeReturn, RecordEvent, dataVars
    <2>2. StreamInv'
        BY <1>2, <1>4, <2>1 DEF IInv, StreamInv, Recorded
    <2> QED BY <1>3, <2>2 DEF IInv
<1>8. CASE SendResponses
    <2>1. /\ pc = "returned" /\ pc' = "sent" /\ UNCHANGED <<needSync, mark>>
          /\ needSync => Synchronized
        BY <1>8 DEF SendResponses, dataVars
    <2>2. stream = <<>>
        BY <1>4, <2>1 DEF Synchronized, IInv, StreamInv, Recorded
    <2>3. StreamInv'
        BY <1>2, <2>1, <2>2 DEF IInv, StreamInv, Recorded
    <2> QED BY <1>3, <2>3 DEF IInv
<1> QED BY <1>5, <1>6, <1>7, <1>8

LEMMA RunCopyStep == ASSUME IInv, RunCopy PROVE IInv'
<1>1. /\ stream # <<>> /\ stream' = Tail(stream)
      /\ mark' = IF mark = 0 THEN 0 ELSE mark - 1
      /\ UNCHANGED <<batch, cfg, t, pc, deferred, finalized, needSync>>
    BY DEF RunCopy, loopVars, finVars
<1>2. /\ IsSequence(stream')
      /\ Len(stream) \in Nat \ {0} /\ Len(stream') = Len(stream) - 1
    BY <1>1, TailFacts DEF IInv, StreamInv
<1>3. FlowInv'
    BY <1>1 DEF IInv, FlowInv, Processing
<1>4. mark' \in Nat /\ mark' <= Len(stream')
    BY <1>1, <1>2, SMTT(30) DEF IInv, StreamInv
<1>5. needSync' /\ (Recorded => Recorded')
    BY <1>1, <1>2 DEF IInv, StreamInv, Recorded
<1>6. UNCHANGED <<pc, deferred, needSync>> /\ pc # "sent"
    BY <1>1 DEF IInv, StreamInv
<1>7. StreamInv'
    BY <1>2, <1>4, <1>5, <1>6 DEF IInv, StreamInv
<1> QED BY <1>3, <1>7 DEF IInv

LEMMA NextInv == IInv /\ [Next]_vars => IInv'
<1> SUFFICES ASSUME IInv, [Next]_vars PROVE IInv'
    OBVIOUS
<1>1. CASE Terminating \/ UNCHANGED vars
    <2>1. UNCHANGED <<batch, cfg, t, pc, deferred, finalized, stream, needSync, mark>>
        BY <1>1 DEF Terminating, vars, loopVars, finVars, dataVars
    <2> QED BY <2>1 DEF IInv, FlowInv, StreamInv, Processing, Recorded
<1> QED BY <1>1, ProcessStep, ScatterDoneStep, EndTensorStep, FinalizeSteps, RunCopyStep DEF Next

(***************************************************************************)
(* When the responses are sent no copy is in flight any more, in a batch   *)
(* of any tensors, with and without an event, and whatever failed.         *)
(***************************************************************************)
THEOREM NothingInFlight == Spec => []QuietWhenSent
<1>1. IInv => QuietWhenSent
    BY DEF IInv, StreamInv, QuietWhenSent
<1> QED BY InitInv, NextInv, <1>1, PTL DEF Spec
-----------------------------------------------------------------------------
(***************************************************************************)
(* Where the responder is.  Its offset is where the part of response r     *)
(* begins, and the size of the pending copies is that of their outputs.    *)
(***************************************************************************)
BatchInv ==
    /\ Len(batch) \in Nat \ {0} /\ DOMAIN batch = 1 .. Len(batch)
    /\ \A i \in DOMAIN batch : /\ batch[i].sizes \in Seq(Nat)
                               /\ Len(batch[i].sizes) = RequestCount
    /\ cfg.maxFaults \in Nat

PcInv ==
    /\ t \in 1 .. Len(batch) + 1 /\ r \in 1 .. RequestCount + 1
    /\ pc = "respond" => ~Done
    /\ pc = "end" => Done
    /\ pc \notin {"check", "respond"} => pend = NonePending
    /\ pc # "scatter" => job.outs = <<>>
    /\ finalized <= Len(deferred)

OffsetInv == Processing => offset = PartOffset(t, r)

IsOutput(o) ==
    /\ o.i \in DOMAIN batch /\ o.q \in Requests
    /\ o.size = batch[o.i].sizes[o.q]
IsOutputs(outs) == IsSequence(outs) /\ \A k \in DOMAIN outs : IsOutput(outs[k])

PendInv == IsOutputs(pend.outs) /\ pend.size = PendingSize

StatesInv == IsSequence(states) /\ Range(states) \subseteq (DOMAIN batch) \X Requests
LiveInv ==
    /\ live \subseteq Requests /\ faults \in 0 .. cfg.maxFaults
    /\ DOMAIN out = DOMAIN batch

LoopInv == BatchInv /\ PcInv /\ OffsetInv /\ PendInv /\ StatesInv /\ LiveInv
-----------------------------------------------------------------------------
(***************************************************************************)
(* Where a part begins, and the size of the pending copies, are folds.     *)
(***************************************************************************)
Plus(a, b) == a + b
PlusSize(sum, o) == sum + o.size
Parts == INSTANCE FoldTheorems WITH Op <- Plus
Sizes == INSTANCE FoldTheorems WITH Op <- PlusSize

LEMMA PartOffsetIsFold ==
    \A i, q : LET s == SubSeq(batch[i].sizes, 1, q - 1)
              IN  PartOffset(i, q) = Parts!FoldOver(DOMAIN s, s, 0)[DOMAIN s]
BY DEF PartOffset, FoldLeft, MapThenFoldSet, Max, Parts!FoldOver, Parts!Largest, Plus

LEMMA PendingSizeIsFold ==
    PendingSize = Sizes!FoldOver(DOMAIN pend.outs, pend.outs, 0)[DOMAIN pend.outs]
BY DEF PendingSize, FoldLeft, MapThenFoldSet, Max, Sizes!FoldOver, Sizes!Largest, PlusSize

\* The part of the next response begins where that of the one before ends.
LEMMA NextPart ==
    ASSUME BatchInv, NEW i \in DOMAIN batch
    PROVE  /\ PartOffset(i, 1) = 0
           /\ \A q \in Requests : PartOffset(i, q + 1) = PartOffset(i, q) + batch[i].sizes[q]
<1> DEFINE s == batch[i].sizes
<1>1. s \in Seq(Nat) /\ Len(s) = RequestCount /\ RequestCount \in Nat
    BY DEF BatchInv
<1>2. PartOffset(i, 1) = 0
    <2>1. DOMAIN SubSeq(s, 1, 1 - 1) = {}
        BY <1>1
    <2> QED BY <2>1, PartOffsetIsFold, Parts!FoldOfNothing
<1>3. ASSUME NEW q \in Requests PROVE PartOffset(i, q + 1) = PartOffset(i, q) + s[q]
    <2> DEFINE a == SubSeq(s, 1, q - 1)
               b == SubSeq(s, 1, q)
    <2>1. q - 1 \in Nat /\ q \in 1 .. Len(s) /\ (q - 1) + 1 = q /\ (q + 1) - 1 = q
        BY <1>1, <1>3 DEF Requests
    <2>2. DOMAIN a = 1 .. q - 1 /\ DOMAIN b = 1 .. q /\ b[q] = s[q]
        BY <1>1, <2>1
    <2>3. \A k \in 1 .. q - 1 : a[k] = b[k]
        BY <1>1, <2>1
    <2> HIDE DEF a, b
    <2>4. Parts!FoldOver(1 .. (q - 1) + 1, b, 0)[1 .. (q - 1) + 1]
              = Plus(Parts!FoldOver(1 .. q - 1, a, 0)[1 .. q - 1], b[(q - 1) + 1])
        BY <2>1, <2>3, Parts!FoldOneMore
    <2>5. /\ PartOffset(i, q) = Parts!FoldOver(DOMAIN a, a, 0)[DOMAIN a]
          /\ PartOffset(i, q + 1) = Parts!FoldOver(DOMAIN b, b, 0)[DOMAIN b]
        BY <2>1, PartOffsetIsFold DEF a, b
    <2> QED BY <2>1, <2>2, <2>4, <2>5 DEF Plus
<1> QED BY <1>2, <1>3

LEMMA OffsetNat ==
    ASSUME BatchInv, NEW i \in DOMAIN batch, NEW q \in Requests PROVE PartOffset(i, q) \in Nat
<1> DEFINE s == batch[i].sizes
           a == SubSeq(s, 1, q - 1)
<1>1. s \in Seq(Nat) /\ q \in 1 .. Len(s)
    BY DEF BatchInv, Requests
<1>2. q - 1 \in Nat /\ DOMAIN a = 1 .. q - 1 /\ \A k \in 1 .. q - 1 : a[k] \in Nat
    BY <1>1
<1>3. PartOffset(i, q) = Parts!FoldOver(DOMAIN a, a, 0)[DOMAIN a]
    BY PartOffsetIsFold
<1> HIDE DEF a
<1>4. \A v \in Nat, k \in 1 .. q - 1 : Plus(v, a[k]) \in Nat
    BY <1>2 DEF Plus
<1>5. Parts!FoldOver(1 .. q - 1, a, 0)[1 .. q - 1] \in Nat
    BY <1>2, <1>4, Parts!FoldStays
<1> QED BY <1>2, <1>3, <1>5

LEMMA NoneIsEmpty == FoldLeft(LAMBDA sum, o : sum + o.size, 0, <<>>) = 0
<1>1. DOMAIN <<>> = {}
    OBVIOUS
<1>2. Sizes!FoldOver(DOMAIN <<>>, <<>>, 0)[DOMAIN <<>>] = 0
    BY <1>1, Sizes!FoldOfNothing
<1> QED BY <1>2 DEF FoldLeft, MapThenFoldSet, Max, Sizes!FoldOver, Sizes!Largest, PlusSize

LEMMA PendingSizeEmpty == pend.outs = <<>> => PendingSize = 0
BY NoneIsEmpty DEF PendingSize

\* One output more adds its size.
LEMMA PendingSizeAppend ==
    ASSUME IsSequence(pend.outs), NEW e, pend'.outs = Append(pend.outs, e)
    PROVE  PendingSize' = PendingSize + e.size
<1> DEFINE s == pend.outs
           u == pend'.outs
<1>1. /\ Len(s) \in Nat /\ DOMAIN s = 1 .. Len(s)
      /\ DOMAIN u = 1 .. Len(s) + 1 /\ u[Len(s) + 1] = e
      /\ \A k \in 1 .. Len(s) : s[k] = u[k]
    <2>1. PICK S : s \in Seq(S)
        BY DEF IsSequence
    <2> QED BY <2>1
<1>2. PendingSize' = Sizes!FoldOver(DOMAIN u, u, 0)[DOMAIN u]
    BY DEF PendingSize, FoldLeft, MapThenFoldSet, Max, Sizes!FoldOver, Sizes!Largest, PlusSize
<1> HIDE DEF s, u
<1>3. Sizes!FoldOver(1 .. Len(s) + 1, u, 0)[1 .. Len(s) + 1]
          = PlusSize(Sizes!FoldOver(1 .. Len(s), s, 0)[1 .. Len(s)], u[Len(s) + 1])
    BY <1>1, Sizes!FoldOneMore, ZenonT(40)
<1>4. PendingSize = Sizes!FoldOver(DOMAIN s, s, 0)[DOMAIN s]
    BY PendingSizeIsFold DEF s
<1> QED BY <1>1, <1>2, <1>3, <1>4 DEF PlusSize
-----------------------------------------------------------------------------
LEMMA OutputsAppend ==
    ASSUME NEW outs, IsOutputs(outs), NEW o, IsOutput(o)
    PROVE  IsOutputs(Append(outs, o))
<1>1. PICK S : outs \in Seq(S)
    BY DEF IsOutputs, IsSequence
<1>2. IsSequence(Append(outs, o))
    BY AppendFacts DEF IsOutputs
<1>3. /\ DOMAIN Append(outs, o) = 1 .. Len(outs) + 1 /\ Len(outs) \in Nat
      /\ DOMAIN outs = 1 .. Len(outs)
      /\ \A k \in 1 .. Len(outs) : Append(outs, o)[k] = outs[k]
      /\ Append(outs, o)[Len(outs) + 1] = o
    BY <1>1
<1>4. \A k \in DOMAIN Append(outs, o) : IsOutput(Append(outs, o)[k])
    BY <1>3 DEF IsOutputs
<1> QED BY <1>2, <1>4 DEF IsOutputs

LEMMA OutputsOfNothing == IsOutputs(<<>>)
<1>1. DOMAIN <<>> = {}
    OBVIOUS
<1> QED BY <1>1, EmptyFacts DEF IsOutputs

LEMMA InitLoop == Init => LoopInv
<1> SUFFICES ASSUME Init PROVE LoopInv
    OBVIOUS
<1>1. /\ pc = "check" /\ t = 1 /\ r = 1 /\ offset = 0 /\ pend = NonePending /\ job = NoJob
      /\ deferred = <<>> /\ finalized = 0 /\ states = <<>> /\ live = Requests /\ faults = 0
      /\ out = [i \in DOMAIN batch |-> [q \in Requests |-> <<>>]]
    BY DEF Init
<1>2. BatchInv
    <2>1. PICK s \in Scenarios : batch = s[1] /\ cfg = s[2]
        BY DEF Init
    <2> QED BY <2>1, ScenarioAssumption DEF BatchInv, RequestCount
<1>3. RequestCount \in Nat /\ Len(batch) \in Nat \ {0} /\ 1 \in DOMAIN batch
    BY <1>2, SMTT(30) DEF BatchInv
<1>4. PcInv
    BY <1>1, <1>3, EmptyFacts DEF PcInv, NoJob
<1>5. OffsetInv
    BY <1>1, <1>2, <1>3, NextPart DEF OffsetInv
<1>6. PendInv
    <2>1. pend.outs = <<>> /\ pend.size = 0
        BY <1>1 DEF NonePending
    <2> QED BY <2>1, OutputsOfNothing, PendingSizeEmpty DEF PendInv
<1>7. StatesInv
    BY <1>1, EmptyFacts DEF StatesInv, Range
<1>8. LiveInv
    BY <1>1, <1>2 DEF LiveInv, BatchInv
<1> QED BY <1>2, <1>4, <1>5, <1>6, <1>7, <1>8 DEF LoopInv
-----------------------------------------------------------------------------
LEMMA SameBatch ==
    ASSUME BatchInv, UNCHANGED <<batch, cfg>>
    PROVE  /\ BatchInv' /\ RequestCount' = RequestCount /\ Requests' = Requests
           /\ \A i, q : PartOffset(i, q)' = PartOffset(i, q)
           /\ \A i, q : Part(i, q)' = Part(i, q)
           /\ \A o : IsOutput(o)' <=> IsOutput(o)
           /\ \A o : IsOutputs(o)' <=> IsOutputs(o)
           /\ RequestCount \in Nat /\ Len(batch) \in Nat
<1>1. RequestCount' = RequestCount /\ Requests' = Requests
    BY DEF RequestCount, Requests
<1>2. \A i, q : PartOffset(i, q)' = PartOffset(i, q)
    BY DEF PartOffset, FoldLeft, MapThenFoldSet, Max
<1>3. \A i, q : Part(i, q)' = Part(i, q)
    BY <1>2 DEF Part
<1>4. \A o : IsOutput(o)' <=> IsOutput(o)
    BY <1>1 DEF IsOutput
<1>5. RequestCount \in Nat /\ Len(batch) \in Nat /\ BatchInv'
    <2>1. 1 \in DOMAIN batch /\ Len(batch) \in Nat
        BY DEF BatchInv
    <2>2. Len(batch[1].sizes) \in Nat
        BY <2>1 DEF BatchInv
    <2>3. BatchInv'
        BY <1>1 DEF BatchInv
    <2> QED BY <2>1, <2>2, <2>3 DEF RequestCount
<1> QED BY <1>1, <1>2, <1>3, <1>4, <1>5 DEF IsOutputs

\* Pending copies that are kept, or handled by a flush.
LEMMA PendKept ==
    ASSUME LoopInv, UNCHANGED <<batch, cfg>>, pend' = pend \/ pend' = NonePending
    PROVE  PendInv'
<1>1. CASE pend' = pend
    <2>1. PendingSize' = PendingSize
        BY <1>1 DEF PendingSize, FoldLeft, MapThenFoldSet, Max
    <2> QED BY <1>1, <2>1, SameBatch DEF LoopInv, PendInv
<1>2. CASE pend' = NonePending
    <2>1. pend'.outs = <<>> /\ pend'.size = 0
        BY <1>2 DEF NonePending
    <2>2. PendingSize' = 0
        BY <2>1, NoneIsEmpty DEF PendingSize, FoldLeft, MapThenFoldSet, Max
    <2> QED BY <2>1, <2>2, SameBatch, OutputsOfNothing DEF LoopInv, PendInv
<1> QED BY <1>1, <1>2

\* What a copy, done, queued or failed, does to the responses.
LEMMA CopyLive ==
    ASSUME BatchInv, LiveInv, UNCHANGED <<batch, cfg>>,
           NEW op, NEW from, NEW to, NEW outs, NEW pins, NEW reqs, DOMAIN outs = DOMAIN batch,
           \/ CopyOnHost(op, from, to, outs, pins)
           \/ CopyOnStream(op, from, to, outs, pins)
           \/ CopyFails(from, to, outs, pins, reqs)
    PROVE  LiveInv' /\ (faults' = 0 => faults = 0 /\ live' = live)
<1>1. \/ UNCHANGED <<live, faults>>
      \/ faults + 1 <= cfg.maxFaults /\ faults' = faults + 1 /\ live' = live \ reqs
    BY DEF CopyOnHost, CopyOnStream, CopyFails, Fail
<1>2. DOMAIN out' = DOMAIN outs
    BY DEF CopyOnHost, CopyOnStream, CopyFails, Perform
<1>3. faults \in Nat /\ cfg.maxFaults \in Nat
    BY DEF BatchInv, LiveInv
<1> QED BY <1>1, <1>2, <1>3, SameBatch DEF LiveInv
-----------------------------------------------------------------------------
\* What the loop's steps leave alone.
LEMMA Continuing ==
    ASSUME LoopInv, UNCHANGED <<batch, cfg, t, r, offset, finalized, states>>,
           pend' = pend \/ pend' = NonePending,
           deferred' = deferred \/ deferred' = Append(deferred, FromPinned), IInv,
           pc' \notin {"check", "respond"} => pend' = NonePending,
           pc' # "scatter" => job'.outs = <<>>,
           pc' = "respond" => ~Done, pc' = "end" => Done, LiveInv'
    PROVE  LoopInv'
<1>1. BatchInv' /\ (Processing' <=> Processing) /\ (Done' <=> Done)
    BY SameBatch DEF LoopInv, Processing, Done
<1>2. PendInv'
    BY PendKept
<1>3. OffsetInv' /\ StatesInv'
    <2>1. PartOffset(t, r)' = PartOffset(t, r) /\ Requests' = Requests
        BY SameBatch DEF LoopInv
    <2>2. OffsetInv'
        BY <1>1, <2>1 DEF LoopInv, OffsetInv
    <2> QED BY <2>1, <2>2 DEF LoopInv, StatesInv, Range
<1>4. PcInv'
    <2>1. finalized <= Len(deferred')
        BY AppendFacts, LenFacts DEF LoopInv, PcInv, IInv, FlowInv
    <2> QED BY <1>1, <2>1, SameBatch DEF LoopInv, PcInv
<1> QED BY <1>1, <1>2, <1>3, <1>4 DEF LoopInv

LEMMA FlushLoop ==
    ASSUME LoopInv, IInv, SkipFlush \/ FlushDirect \/ FlushNow \/ FlushDeferred
    PROVE  LoopInv'
<1>1. /\ UNCHANGED <<batch, cfg, t, r, offset, finalized, states>>
      /\ pc = "check" /\ job.outs = <<>>
    BY DEF SkipFlush, FlushDirect, FlushNow, FlushDeferred, loopVars, finVars, LoopInv, PcInv
<1>2. /\ pend' = pend \/ pend' = NonePending
      /\ deferred' = deferred \/ deferred' = Append(deferred, FromPinned)
      /\ pc' \notin {"check", "respond"} => pend' = NonePending
    BY DEF SkipFlush, FlushDirect, FlushNow, FlushDeferred, loopVars, finVars, PinnedHandled
<1>3. /\ pc' # "scatter" => job'.outs = <<>>
      /\ pc' = "respond" => ~Done
      /\ pc' = "end" => Done
    BY <1>1 DEF SkipFlush, FlushDirect, FlushNow, FlushDeferred, Due
<1>4. LiveInv'
    <2>1. CASE SkipFlush \/ FlushDirect
        <3>1. /\ faults' = faults \/ (faults + 1 <= cfg.maxFaults /\ faults' = faults + 1)
              /\ UNCHANGED <<live, out>>
            BY <2>1 DEF SkipFlush, FlushDirect, dataVars, Fail
        <3> QED BY <1>1, <3>1, SameBatch DEF LoopInv, LiveInv, BatchInv
    <2>2. CASE FlushNow \/ FlushDeferred
        <3>1. DOMAIN out = DOMAIN batch
            BY DEF LoopInv, LiveInv
        <3> QED BY <1>1, <2>2, <3>1, CopyLive DEF FlushNow, FlushDeferred, LoopInv
    <2> QED BY <2>1, <2>2
<1> QED BY <1>1, <1>2, <1>3, <1>4, Continuing

LEMMA ScatterLoop == ASSUME LoopInv, IInv, Scatter \/ ScatterDone PROVE LoopInv'
<1>1. /\ UNCHANGED <<batch, cfg, t, r, offset, finalized, states, pend, deferred>>
      /\ pc = "scatter" /\ pend = NonePending
    BY DEF Scatter, ScatterDone, loopVars, finVars, LoopInv, PcInv
<1>2. /\ pc' # "scatter" => job'.outs = <<>>
      /\ pc' = "respond" => ~Done
      /\ pc' = "end" => Done
    <2>1. CASE Scatter
        BY <1>1, <2>1 DEF Scatter
    <2>2. CASE ScatterDone
        <3>1. t \in Int /\ Len(batch) \in Int
            BY SameBatch, <1>1 DEF LoopInv, PcInv
        <3>2. pc' = IF t > Len(batch) THEN "deferred" ELSE IF Done THEN "end" ELSE "respond"
            BY <2>2, <3>1 DEF ScatterDone
        <3> QED BY <2>2, <3>2 DEF ScatterDone, NoJob
    <2> QED BY <2>1, <2>2
<1>3. LiveInv'
    <2>1. CASE ScatterDone
        BY <1>1, <2>1, SameBatch DEF ScatterDone, dataVars, LoopInv, LiveInv
    <2>2. CASE Scatter
        <3>1. DOMAIN out = DOMAIN batch
            BY DEF LoopInv, LiveInv
        <3> QED BY <1>1, <2>2, <3>1, CopyLive DEF Scatter, Copy, LoopInv
    <2> QED BY <2>1, <2>2
<1> QED BY <1>1, <1>2, <1>3, Continuing
-----------------------------------------------------------------------------
\* A turn of the loop is about a part of the tensor, where the offset is.
LEMMA Turn ==
    ASSUME LoopInv, IInv, NextResponse
    PROVE  /\ t \in DOMAIN batch /\ r \in Requests /\ Processing
           /\ Size = batch[t].sizes[r] /\ Size \in Nat
           /\ offset = PartOffset(t, r) /\ offset' = PartOffset(t, r + 1)
           /\ UNCHANGED <<batch, cfg, t, job, deferred, finalized>>
           /\ pc = "respond" /\ pc' = "check" /\ r' = r + 1
<1>1. /\ pc = "respond" /\ pc' = "check" /\ r' = r + 1 /\ offset' = offset + Size
      /\ UNCHANGED <<batch, cfg, t, job, deferred, finalized>>
    BY DEF NextResponse, finVars
<1>2. RequestCount \in Nat /\ Len(batch) \in Nat /\ BatchInv
    BY SameBatch, <1>1 DEF LoopInv
<1>3. t \in DOMAIN batch /\ Processing
    BY <1>1, <1>2 DEF LoopInv, PcInv, BatchInv, IInv, FlowInv, Processing
<1>4. r \in Requests
    BY <1>1, <1>2 DEF LoopInv, PcInv, Done, Requests
<1>5. Size = batch[t].sizes[r] /\ Size \in Nat
    <2>1. batch[t].sizes \in Seq(Nat) /\ r \in 1 .. Len(batch[t].sizes)
        BY <1>2, <1>3, <1>4 DEF BatchInv, Requests
    <2> QED BY <2>1 DEF Size, Tensor
<1>6. offset = PartOffset(t, r) /\ offset' = PartOffset(t, r + 1)
    BY <1>1, <1>2, <1>3, <1>4, <1>5, NextPart DEF LoopInv, OffsetInv
<1> QED BY <1>1, <1>3, <1>4, <1>5, <1>6

\* The output or state added to those that wait for a flush.
NewOutput == [i |-> t, q |-> r, size |-> Size, place |-> Tensor.dst[r]]

LEMMA TurnLoop ==
    ASSUME LoopInv, IInv, NextResponse,
           states' = states \/ states' = Append(states, <<t, r>>),
           PendInv', LiveInv'
    PROVE  LoopInv'
<1>1. /\ t \in DOMAIN batch /\ r \in Requests /\ Processing
      /\ offset' = PartOffset(t, r + 1)
      /\ UNCHANGED <<batch, cfg, t, job, deferred, finalized>>
      /\ pc = "respond" /\ pc' = "check" /\ r' = r + 1
    BY Turn
<1>2. BatchInv' /\ RequestCount' = RequestCount /\ RequestCount \in Nat /\ Requests' = Requests
    BY <1>1, SameBatch DEF LoopInv
<1>3. OffsetInv'
    <2>1. PartOffset(t', r') = PartOffset(t, r + 1)
        BY <1>1
    <2>2. PartOffset(t, r)' = PartOffset(t, r + 1)
        BY <1>1, <1>2, <2>1 DEF PartOffset, FoldLeft, MapThenFoldSet, Max
    <2> QED BY <1>1, <2>2 DEF OffsetInv
<1>4. PcInv'
    <2>1. r' \in 1 .. RequestCount + 1
        BY <1>1, <1>2 DEF Requests
    <2> QED BY <1>1, <1>2, <2>1 DEF LoopInv, PcInv
<1>5. StatesInv'
    <2>1. CASE states' = states
        BY <1>1, <1>2, <2>1 DEF LoopInv, StatesInv, Range
    <2>2. CASE states' = Append(states, <<t, r>>)
        <3>1. PICK S : states \in Seq(S)
            BY DEF LoopInv, StatesInv, IsSequence
        <3>2. Range(states') \subseteq Range(states) \cup {<<t, r>>}
            <4> DEFINE e == <<t, r>>
                       u == Append(states, e)
            <4> HIDE DEF e
            <4>1. /\ DOMAIN u = 1 .. Len(states) + 1 /\ DOMAIN states = 1 .. Len(states)
                  /\ Len(states) \in Nat /\ u[Len(states) + 1] = e
                  /\ \A k \in 1 .. Len(states) : u[k] = states[k]
                BY <3>1
            <4> HIDE DEF u
            <4>2. Range(u) \subseteq Range(states) \cup {e}
                BY <4>1 DEF Range
            <4> QED BY <2>2, <4>2 DEF u, e
        <3>3. IsSequence(states')
            BY <2>2, AppendFacts DEF LoopInv, StatesInv
        <3> QED BY <1>1, <1>2, <3>2, <3>3 DEF LoopInv, StatesInv
    <2> QED BY <2>1, <2>2
<1> QED BY <1>2, <1>3, <1>4, <1>5 DEF LoopInv

LEMMA RespondLoop ==
    ASSUME LoopInv, IInv,
           RespondTooFewRows \/ RespondNothing \/ RespondFails \/ SetPending \/ SetDirect
    PROVE  LoopInv'
<1>1. NextResponse
    BY DEF RespondTooFewRows, RespondNothing, RespondFails, SetPending, SetDirect,
           SetFixedSizeBuffer
<1>2. states' = states \/ states' = Append(states, <<t, r>>)
    BY DEF RespondTooFewRows, RespondNothing, RespondFails, SetPending, SetDirect,
           SetFixedSizeBuffer
<1>3. /\ t \in DOMAIN batch /\ r \in Requests /\ Size = batch[t].sizes[r]
      /\ UNCHANGED <<batch, cfg>>
    BY <1>1, Turn
<1>4. PendInv'
    <2>1. CASE RespondTooFewRows \/ RespondNothing \/ RespondFails \/ SetDirect
        <3>1. pend' = pend
            BY <2>1 DEF RespondTooFewRows, RespondNothing, RespondFails, SetDirect
        <3> QED BY <1>3, <3>1, PendKept
    <2>2. CASE SetPending
        <3>1. pend'.size = pend.size + Size /\ pend'.outs = Append(pend.outs, NewOutput)
            BY <2>2 DEF SetPending, NewOutput
        <3>2. IsOutput(NewOutput) /\ NewOutput.size = Size
            BY <1>3 DEF IsOutput, NewOutput
        <3>3. IsOutputs(pend.outs) /\ IsSequence(pend.outs) /\ pend.size = PendingSize
            BY DEF LoopInv, PendInv, IsOutputs
        <3>4. PendingSize' = PendingSize + Size
            BY <3>1, <3>2, <3>3, PendingSizeAppend
        <3>5. IsOutputs(pend'.outs)
            BY <3>1, <3>2, <3>3, OutputsAppend
        <3> QED BY <1>3, <3>1, <3>3, <3>4, <3>5, SameBatch DEF LoopInv, PendInv
    <2> QED BY <2>1, <2>2
<1>5. LiveInv'
    <2>1. BatchInv /\ LiveInv /\ DOMAIN out = DOMAIN batch
        BY DEF LoopInv, LiveInv
    <2>2. CASE SetDirect
        <3>1. DOMAIN WithBuffer = DOMAIN batch
            BY <2>1 DEF WithBuffer
        <3> QED BY <1>3, <2>1, <2>2, <3>1, CopyLive DEF SetDirect, Copy
    <2>3. CASE RespondTooFewRows \/ RespondNothing \/ RespondFails \/ SetPending
        <3>1. /\ faults' = faults \/ (faults + 1 <= cfg.maxFaults /\ faults' = faults + 1)
              /\ live' = live \/ live' = live \ {r}
              /\ DOMAIN out' = DOMAIN out
            BY <2>3 DEF RespondTooFewRows, RespondNothing, RespondFails, SetPending, dataVars, Fail,
                        WithBuffer
        <3> QED BY <1>3, <2>1, <3>1, SameBatch DEF LiveInv, BatchInv
    <2> QED BY <2>2, <2>3
<1> QED BY <1>1, <1>2, <1>4, <1>5, TurnLoop
-----------------------------------------------------------------------------
\* Steps after which nothing is pending.
LEMMA LoopRest ==
    ASSUME LoopInv, UNCHANGED <<batch, cfg, states>>, pend' = pend,
           LiveInv', OffsetInv', PcInv'
    PROVE  LoopInv'
<1>1. BatchInv' /\ PendInv' /\ Requests' = Requests
    BY SameBatch, PendKept DEF LoopInv
<1> QED BY <1>1 DEF LoopInv, StatesInv, Range

LEMMA EndLoop == ASSUME LoopInv, IInv, EndTensor PROVE LoopInv'
<1>1. /\ pc = "end" /\ t' = t + 1 /\ r' = 1 /\ offset' = 0
      /\ pc' = IF t < Len(batch) THEN "check" ELSE "finalize"
      /\ UNCHANGED <<batch, cfg, pend, job, deferred, finalized, states, out, live, faults>>
    BY DEF EndTensor, finVars, dataVars
<1>2. /\ RequestCount' = RequestCount /\ RequestCount \in Nat /\ Len(batch) \in Nat /\ BatchInv
      /\ Requests' = Requests
    BY <1>1, SameBatch DEF LoopInv
<1>3. Processing /\ t \in 1 .. Len(batch)
    BY <1>1, <1>2 DEF LoopInv, PcInv, IInv, FlowInv, Processing
<1>4. OffsetInv'
    <2>1. ASSUME Processing' PROVE offset' = PartOffset(t, r)'
        <3>1. t + 1 \in DOMAIN batch
            BY <1>1, <1>2, <1>3, <2>1 DEF Processing, BatchInv
        <3>2. PartOffset(t + 1, 1) = 0
            BY <1>2, <3>1, NextPart
        <3>3. PartOffset(t, r)' = PartOffset(t + 1, 1)
            BY <1>1 DEF PartOffset, FoldLeft, MapThenFoldSet, Max
        <3> QED BY <1>1, <3>2, <3>3
    <2> QED BY <2>1 DEF OffsetInv
<1>5. PcInv'
    BY <1>1, <1>2, <1>3 DEF LoopInv, PcInv
<1>6. LiveInv'
    BY <1>1, <1>2 DEF LoopInv, LiveInv
<1> QED BY <1>1, <1>4, <1>5, <1>6, LoopRest

LEMMA FinalLoop ==
    ASSUME LoopInv, IInv,
           \/ FinalizeSync \/ FinalizeDeferred \/ FinalizeReturn \/ SendResponses \/ RunCopy
           \/ Terminating \/ UNCHANGED vars
    PROVE  LoopInv'
<1>1. UNCHANGED <<batch, cfg, t, r, offset, pend, states, live, faults>>
    BY DEF FinalizeSync, FinalizeDeferred, FinalizeReturn, SendResponses, RunCopy, Terminating,
           vars, loopVars, dataVars
<1>2. /\ RequestCount' = RequestCount /\ RequestCount \in Nat /\ Requests' = Requests
      /\ Len(batch) \in Nat
    BY <1>1, SameBatch DEF LoopInv
<1>3. OffsetInv'
    <2>1. PartOffset(t, r)' = PartOffset(t, r)
        BY <1>1, SameBatch DEF LoopInv
    <2> QED BY <1>1, <2>1 DEF LoopInv, OffsetInv, Processing
<1>4. LiveInv'
    <2>1. DOMAIN out' = DOMAIN out
        BY DEF FinalizeSync, FinalizeDeferred, FinalizeReturn, SendResponses, RunCopy, Terminating,
               vars, dataVars, Perform
    <2> QED BY <1>1, <1>2, <2>1 DEF LoopInv, LiveInv
<1>5. \/ pc' = pc /\ UNCHANGED <<job, deferred, finalized>>
      \/ pc' \in {"deferred", "sent"} /\ pc \in {"finalize", "returned"}
            /\ UNCHANGED <<job, deferred, finalized>>
      \/ pc = "deferred" /\ pc' = "scatter" /\ deferred' = deferred /\ finalized' = finalized + 1
         /\ finalized < Len(deferred)
      \/ pc = "deferred" /\ pc' = "returned" /\ job' = job /\ deferred' = <<>> /\ finalized' = 0
    BY DEF FinalizeSync, FinalizeDeferred, FinalizeReturn, SendResponses, RunCopy, Terminating,
           vars, loopVars, finVars, dataVars
<1>6. PcInv'
    <2>1. finalized' <= Len(deferred')
        BY <1>5, EmptyFacts, LenFacts DEF LoopInv, PcInv, IInv, FlowInv
    <2> QED BY <1>1, <1>2, <1>5, <2>1 DEF LoopInv, PcInv, Done
<1> QED BY <1>1, <1>3, <1>4, <1>6, LoopRest

LEMMA NextLoop == IInv /\ LoopInv /\ [Next]_vars => LoopInv'
BY FlushLoop, ScatterLoop, RespondLoop, EndLoop, FinalLoop DEF Next

(***************************************************************************)
(* The responder stays within the tensors and responses of its batch, and  *)
(* the size it keeps of the pending copies is that of their outputs.       *)
(***************************************************************************)
THEOREM TypeCorrect == Spec => []TypeOK
<1>1. IInv /\ LoopInv => TypeOK
    <2> SUFFICES ASSUME IInv, LoopInv PROVE TypeOK
        OBVIOUS
    <2>1. Len(stream) \in Nat /\ mark \in 0 .. Len(stream)
        BY LenFacts DEF IInv, StreamInv
    <2> QED BY <2>1 DEF IInv, FlowInv, StreamInv, LoopInv, PcInv, PendInv, StatesInv, LiveInv, TypeOK
<1> QED BY InitInv, InitLoop, NextInv, NextLoop, <1>1, PTL DEF Spec
-----------------------------------------------------------------------------
\* While no call has failed, only missing rows have silenced a response.
RowsMissing(q) ==
    \E i \in DOMAIN batch :
        /\ cfg.firstDim /\ batch[i].rows # -1
        /\ PartOffset(i, q) + batch[i].sizes[q] > batch[i].rows

LEMMA CauseStep ==
    ASSUME IInv, LoopInv, AnsweredForCause, [Next]_vars PROVE AnsweredForCause'
<1>1. /\ BatchInv /\ faults \in Nat /\ LiveInv /\ UNCHANGED <<batch, cfg>>
      /\ DOMAIN out = DOMAIN batch
    BY DEF LoopInv, LiveInv, Next, SkipFlush, FlushDirect, FlushNow, FlushDeferred,
           Scatter, ScatterDone, RespondTooFewRows, RespondNothing, RespondFails, SetPending,
           SetDirect, SetFixedSizeBuffer, NextResponse, EndTensor, FinalizeSync, FinalizeDeferred,
           FinalizeReturn, SendResponses, RunCopy, Terminating, vars
<1>2. \A q : RowsMissing(q)' <=> RowsMissing(q)
    BY <1>1, SameBatch DEF RowsMissing
<1>3. Requests' = Requests
    BY <1>1, SameBatch
<1>4. CASE RespondTooFewRows
    <2>1. /\ NextResponse /\ live' = live \ {r} /\ faults' = faults
          /\ cfg.firstDim /\ batch[t].rows # -1 /\ offset + Size > batch[t].rows
        BY <1>4 DEF RespondTooFewRows, SplitFails, TooFewRows, Tensor
    <2>2. RowsMissing(r)
        BY <2>1, Turn DEF RowsMissing
    <2> QED BY <1>2, <1>3, <2>1, <2>2 DEF AnsweredForCause, RowsMissing
<1>5. CASE ~RespondTooFewRows
    <2>1. faults' = 0 => faults = 0 /\ live' = live
        <3>1. CASE FlushNow \/ FlushDeferred \/ Scatter
            BY <1>1, <3>1, CopyLive DEF FlushNow, FlushDeferred, Scatter, Copy
        <3>2. CASE SetDirect
            <4>1. DOMAIN WithBuffer = DOMAIN batch
                BY <1>1 DEF WithBuffer
            <4> QED BY <1>1, <3>2, <4>1, CopyLive DEF SetDirect, Copy
        <3>3. CASE FlushDirect \/ RespondFails
            BY <1>1, <3>3 DEF FlushDirect, RespondFails, Fail
        <3>4. CASE \/ SkipFlush \/ ScatterDone \/ RespondNothing \/ SetPending \/ EndTensor
                   \/ FinalizeSync \/ FinalizeDeferred \/ FinalizeReturn \/ SendResponses
                   \/ Terminating \/ RunCopy \/ UNCHANGED vars
            BY <3>4 DEF SkipFlush, ScatterDone, RespondNothing, SetPending, EndTensor,
                        FinalizeSync, FinalizeDeferred, FinalizeReturn, SendResponses,
                        Terminating, RunCopy, vars, dataVars
        <3> QED BY <1>5, <3>1, <3>2, <3>3, <3>4 DEF Next
    <2> QED BY <1>2, <1>3, <2>1 DEF AnsweredForCause, RowsMissing
<1> QED BY <1>4, <1>5

(***************************************************************************)
(* Without a failing call, a response is sent with an error only if the    *)
(* tensor of the model ends before its part does.                          *)
(***************************************************************************)
THEOREM OnlyForCause == Spec => []AnsweredForCause
<1>1. Init => AnsweredForCause
    BY DEF Init, AnsweredForCause
<1> QED BY InitInv, InitLoop, NextInv, NextLoop, <1>1, CauseStep, PTL DEF Spec
-----------------------------------------------------------------------------
(***************************************************************************)
(* Where the copies to a list of outputs, done one after the other from    *)
(* off on, take their bytes: Laid says that those of the responses L find  *)
(* their parts P there, in the tensor if src is 0, else in content c.      *)
(***************************************************************************)
Positions(off, outs) ==
    {pos \in [DOMAIN outs -> Nat] :
        /\ outs # <<>> => pos[1] = off
        /\ \A k \in DOMAIN outs : k + 1 \in DOMAIN outs => pos[k + 1] = pos[k] + outs[k].size}

Taken(src, c, off, o) ==
    IF src = 0 THEN [k \in 1 .. o.size |-> <<o.i, off + k>>]
               ELSE SubSeq(c, off + 1, off + o.size)

Laid(src, c, off, outs, P, L) ==
    \E pos \in Positions(off, outs) : \A k \in DOMAIN outs :
        outs[k].q \in L => Taken(src, c, pos[k], outs[k]) = P[outs[k].i][outs[k].q]

\* The bytes a queued copy moves, and whether none goes to pinned buffer p.
Moved(op, pins) == Taken(op.src, pins[op.src], op.off, op)
Settled(p, queue) == \A k \in DOMAIN queue : queue[k].pin # p

\* Each pinned buffer is filled once, before it is read.
OpRight(op, queue, pins, P, L) ==
    /\ op.pin \in 0 .. Len(pins) /\ op.src \in 0 .. Len(pins)
    /\ op.src # 0 => Settled(op.src, queue)
    /\ op.pin = 0 => /\ op.i \in DOMAIN P /\ op.q \in DOMAIN P[op.i]
                     /\ op.q \in L => Moved(op, pins) = P[op.i][op.q]
    /\ op.pin # 0 => op.src = 0

QueueRight(queue, pins, P, L) ==
    /\ IsSequence(queue) /\ IsSequence(pins)
    /\ \A k \in DOMAIN queue : OpRight(queue[k], queue, pins, P, L)
    /\ \A k, l \in DOMAIN queue : queue[k].pin # 0 /\ queue[l].pin = queue[k].pin => l = k

\* Copies d to outputs: their pinned buffer has its content, or gets it.
Readable(d, queue, pins, P, L) ==
    /\ d.src \in 0 .. Len(pins)
    /\ d.src # 0 => Settled(d.src, queue)
    /\ Laid(d.src, pins[d.src], d.off, d.outs, P, L)

Filling(d, k, queue, pins, P, L) ==
    /\ queue[k].pin = d.src
    /\ Laid(d.src, Moved(queue[k], pins), d.off, d.outs, P, L)

Promised(d, queue, pins, P, L) ==
    /\ d.src \in 1 .. Len(pins)
    /\ \/ Readable(d, queue, pins, P, L)
       \/ \E k \in DOMAIN queue : Filling(d, k, queue, pins, P, L)

AllParts == [i \in DOMAIN batch |-> [q \in Requests |-> Part(i, q)]]

\* None is filled any more when Finalize() takes up the deferred copies.
FillInv ==
    \A k \in DOMAIN stream :
        stream[k].pin # 0 => deferred # <<>> /\ (Processing \/ pc = "finalize")

StreamRight == QueueRight(stream, pin, AllParts, live)

IsJob(d) ==
    /\ d = [src |-> d.src, place |-> d.place, off |-> d.off, outs |-> d.outs]
    /\ IsOutputs(d.outs)

JobRight == IsJob(job) /\ Readable(job, stream, pin, AllParts, live)

DeferredRight ==
    \A x \in DOMAIN deferred : x > finalized =>
        IsJob(deferred[x]) /\ Promised(deferred[x], stream, pin, AllParts, live)

\* The parts of the pending copies lie side by side from pend.off on.
SideBySide(pos) ==
    \A k \in DOMAIN pend.outs :
        /\ pend.outs[k].i = t
        /\ pend.off <= pos[k] /\ pos[k] + pend.outs[k].size <= pend.off + pend.size
        /\ k = Len(pend.outs) => pos[k] + pend.outs[k].size = pend.off + pend.size
        /\ pend.outs[k].size = 0 \/ pos[k] = PartOffset(t, pend.outs[k].q)

PendRight ==
    /\ pend.off \in Nat /\ pend.size \in Nat
    /\ pend.outs = <<>> => pend.size = 0
    /\ pend.size = 0 => \A k \in DOMAIN pend.outs : pend.outs[k].size = 0
    /\ pc = "respond" => pend.size = 0 \/ Continues(pend)
    /\ \E pos \in Positions(pend.off, pend.outs) : SideBySide(pos)

RightInv == StreamRight /\ FillInv /\ JobRight /\ DeferredRight /\ PendRight

(***************************************************************************)
(* Every part that a live response is to get has arrived or is coming.     *)
(***************************************************************************)
Handled(i, q) == i < t \/ (i = t /\ q < r)

To(o, i, q) == o.i = i /\ o.q = q
Queued(queue, i, q) == \E k \in DOMAIN queue : queue[k].pin = 0 /\ To(queue[k], i, q)
Within(outs, i, q) == \E k \in DOMAIN outs : To(outs[k], i, q)
Deferred(i, q) == \E x \in DOMAIN deferred : x > finalized /\ Within(deferred[x].outs, i, q)

\* A buffer of every response for every tensor.
Grid(f) == f = [i \in DOMAIN batch |-> [q \in Requests |-> f[i][q]]]

Has(f, i, q) == f[i][q] = AllParts[i][q]
Wants(i, q) == q \in batch[i].wants \/ batch[i].kind = "state"

Delivered(i, q) ==
    \/ Has(out, i, q) \/ Queued(stream, i, q)
    \/ Within(job.outs, i, q) \/ Within(pend.outs, i, q) \/ Deferred(i, q)

CoverInv ==
    /\ Grid(out)
    /\ \A i \in DOMAIN batch, q \in live : Handled(i, q) =>
            /\ Wants(i, q) => Delivered(i, q)
            /\ batch[i].kind = "state" => <<i, q>> \in Range(states)
-----------------------------------------------------------------------------
LEMMA AppendShape ==
    ASSUME NEW s, IsSequence(s), NEW e
    PROVE  /\ Len(s) \in Nat /\ DOMAIN s = 1 .. Len(s) /\ DOMAIN Append(s, e) = 1 .. Len(s) + 1
           /\ Append(s, e)[Len(s) + 1] = e /\ \A k \in 1 .. Len(s) : Append(s, e)[k] = s[k]
           /\ Len(Append(s, e)) = Len(s) + 1 /\ IsSequence(Append(s, e))
<1>1. PICK S : s \in Seq(S)
    BY DEF IsSequence
<1> QED BY <1>1, AppendFacts

LEMMA AppendedShape ==
    ASSUME NEW s, IsSequence(s), NEW e, NEW u, u = Append(s, e)
    PROVE  /\ Len(s) \in Nat /\ DOMAIN s = 1 .. Len(s) /\ DOMAIN u = 1 .. Len(s) + 1
           /\ u[Len(s) + 1] = e /\ \A k \in 1 .. Len(s) : u[k] = s[k]
           /\ Len(u) = Len(s) + 1 /\ IsSequence(u) /\ u # <<>>
BY AppendShape, AppendFacts

LEMMA TailShape ==
    ASSUME NEW s, IsSequence(s), s # <<>>
    PROVE  /\ Len(s) \in Nat \ {0} /\ DOMAIN s = 1 .. Len(s) /\ DOMAIN Tail(s) = 1 .. Len(s) - 1
           /\ Head(s) = s[1] /\ \A k \in 1 .. Len(s) - 1 : Tail(s)[k] = s[k + 1]
           /\ IsSequence(Tail(s))
<1>1. PICK S : s \in Seq(S)
    BY DEF IsSequence
<1> QED BY <1>1, TailFacts

\* A buffer more, or fewer responses, change nothing for the copies that are there.
LEMMA BytesStay ==
    ASSUME NEW pins, NEW more, NEW op, op.src \in 0 .. Len(pins), Len(pins) \in Nat,
           \A p \in 1 .. Len(pins) : more[p] = pins[p]
    PROVE  Moved(op, more) = Moved(op, pins)
BY DEF Moved, Taken

LEMMA LaidStays ==
    ASSUME NEW src, NEW c, NEW e, NEW off, NEW outs, NEW P, NEW L, NEW M, M \subseteq L,
           src = 0 \/ c = e, Laid(src, c, off, outs, P, L)
    PROVE  Laid(src, e, off, outs, P, M)
BY DEF Laid, Taken

\* More buffers, the same queue.
LEMMA QueueStays ==
    ASSUME NEW queue, NEW pins, NEW P, NEW L, QueueRight(queue, pins, P, L),
           NEW more, IsSequence(more), Len(more) \in Nat, Len(pins) <= Len(more),
           \A p \in 1 .. Len(pins) : more[p] = pins[p], NEW M, M \subseteq L
    PROVE  QueueRight(queue, more, P, M)
<1>1. Len(pins) \in Nat
    BY LenFacts DEF QueueRight
<1>2. ASSUME NEW k \in DOMAIN queue PROVE OpRight(queue[k], queue, more, P, M)
    <2>1. OpRight(queue[k], queue, pins, P, L)
        BY DEF QueueRight
    <2>2. Moved(queue[k], more) = Moved(queue[k], pins)
        BY <1>1, <2>1, BytesStay DEF OpRight
    <2> QED BY <1>1, <2>1, <2>2 DEF OpRight
<1> QED BY <1>2 DEF QueueRight

LEMMA ReadableStays ==
    ASSUME NEW queue, NEW pins, NEW P, NEW L, NEW d, Readable(d, queue, pins, P, L), Len(pins) \in Nat,
           NEW more, Len(more) \in Nat, Len(pins) <= Len(more),
           \A p \in 1 .. Len(pins) : more[p] = pins[p], NEW M, M \subseteq L
    PROVE  Readable(d, queue, more, P, M)
<1>1. d.src = 0 \/ pins[d.src] = more[d.src]
    BY DEF Readable
<1>2. Laid(d.src, more[d.src], d.off, d.outs, P, M)
    BY <1>1, LaidStays DEF Readable
<1> QED BY <1>2 DEF Readable

LEMMA PromisedStays ==
    ASSUME NEW queue, NEW pins, NEW P, NEW L, NEW d, Promised(d, queue, pins, P, L),
           QueueRight(queue, pins, P, L), Len(pins) \in Nat,
           NEW more, Len(more) \in Nat, Len(pins) <= Len(more),
           \A p \in 1 .. Len(pins) : more[p] = pins[p], NEW M, M \subseteq L
    PROVE  Promised(d, queue, more, P, M)
<1>1. CASE Readable(d, queue, pins, P, L)
    BY <1>1, ReadableStays DEF Promised
<1>2. ASSUME NEW k \in DOMAIN queue, Filling(d, k, queue, pins, P, L)
      PROVE  Filling(d, k, queue, more, P, M)
    <2>1. OpRight(queue[k], queue, pins, P, L)
        BY DEF QueueRight
    <2>2. Moved(queue[k], more) = Moved(queue[k], pins)
        BY <2>1, BytesStay DEF OpRight
    <2> QED BY <1>2, <2>2, LaidStays DEF Filling
<1> QED BY <1>1, <1>2 DEF Promised

\* A copy more at the end of the queue, from a readable buffer or to a new one.
LEMMA SettledAppend ==
    ASSUME NEW queue, IsSequence(queue), NEW p, Settled(p, queue), NEW op, op.pin # p
    PROVE  Settled(p, Append(queue, op))
<1>1. \A k \in DOMAIN Append(queue, op) : Append(queue, op)[k] = op \/
          (k \in DOMAIN queue /\ Append(queue, op)[k] = queue[k])
    BY AppendShape
<1> QED BY <1>1 DEF Settled

LEMMA QueueAppend ==
    ASSUME NEW queue, NEW pins, NEW P, NEW L, QueueRight(queue, pins, P, L),
           NEW op, op.pin = 0, OpRight(op, queue, pins, P, L)
    PROVE  QueueRight(Append(queue, op), pins, P, L)
<1> DEFINE u == Append(queue, op)
           n == Len(queue)
<1>1. /\ n \in Nat /\ DOMAIN queue = 1 .. n /\ DOMAIN u = 1 .. n + 1 /\ u[n + 1] = op
      /\ \A k \in 1 .. n : u[k] = queue[k]
      /\ IsSequence(u) /\ IsSequence(queue)
    BY AppendShape DEF QueueRight
<1> HIDE DEF n
<1>2. ASSUME NEW o, OpRight(o, queue, pins, P, L)
      PROVE  OpRight(o, u, pins, P, L)
    BY <1>1, <1>2, SettledAppend DEF OpRight
<1> HIDE DEF u
<1>3. \A k \in DOMAIN u : OpRight(u[k], queue, pins, P, L)
    BY <1>1 DEF QueueRight
<1>4. \A k, l \in DOMAIN u : u[k].pin # 0 /\ u[l].pin = u[k].pin => l = k
    BY <1>1 DEF QueueRight
<1> QED BY <1>1, <1>2, <1>3, <1>4 DEF QueueRight, u

LEMMA QueueFill ==
    ASSUME NEW queue, NEW pins, NEW P, NEW L, QueueRight(queue, pins, P, L),
           NEW op, op.pin = Len(pins) + 1, op.src = 0, NEW v
    PROVE  QueueRight(Append(queue, op), Append(pins, v), P, L)
<1> DEFINE u == Append(queue, op)
           n == Len(queue)
           more == Append(pins, v)
<1>1. /\ n \in Nat /\ DOMAIN queue = 1 .. n /\ DOMAIN u = 1 .. n + 1 /\ u[n + 1] = op
      /\ \A k \in 1 .. n : u[k] = queue[k]
      /\ IsSequence(u) /\ IsSequence(queue)
    BY AppendShape DEF QueueRight
<1>2. /\ Len(pins) \in Nat /\ Len(more) = Len(pins) + 1 /\ IsSequence(more)
      /\ \A p \in 1 .. Len(pins) : more[p] = pins[p]
    BY AppendShape DEF QueueRight
<1> HIDE DEF n, more
<1>3. QueueRight(queue, more, P, L)
    BY <1>2, QueueStays
<1>4. \A k \in DOMAIN queue : queue[k].pin <= Len(pins) /\ queue[k].src <= Len(pins)
    BY <1>2 DEF QueueRight, OpRight
<1>5. ASSUME NEW k \in DOMAIN queue PROVE OpRight(queue[k], u, more, P, L)
    <2>1. OpRight(queue[k], queue, more, P, L)
        BY <1>3 DEF QueueRight
    <2>2. op.pin # queue[k].src
        BY <1>2, <1>4, <2>1 DEF OpRight
    <2> QED BY <1>1, <2>1, <2>2, SettledAppend DEF OpRight
<1> HIDE DEF u
<1>6. OpRight(op, u, more, P, L)
    BY <1>2 DEF OpRight
<1>7. \A k, l \in DOMAIN u : u[k].pin # 0 /\ u[l].pin = u[k].pin => l = k
    <2>1. op.pin > Len(pins)
        BY <1>2
    <2> QED BY <1>1, <1>2, <1>4, <2>1 DEF QueueRight
<1> QED BY <1>1, <1>2, <1>5, <1>6, <1>7 DEF QueueRight, u, more
-----------------------------------------------------------------------------
LEMMA ReadableAppend ==
    ASSUME NEW queue, IsSequence(queue), NEW pins, NEW P, NEW L, NEW d,
           Readable(d, queue, pins, P, L), NEW op, op.pin = 0 \/ op.pin # d.src
    PROVE  Readable(d, Append(queue, op), pins, P, L)
BY SettledAppend DEF Readable

LEMMA PromisedAppend ==
    ASSUME NEW queue, IsSequence(queue), NEW pins, NEW P, NEW L, NEW d,
           Promised(d, queue, pins, P, L), NEW op, op.pin = 0 \/ op.pin # d.src
    PROVE  Promised(d, Append(queue, op), pins, P, L)
<1>1. CASE Readable(d, queue, pins, P, L)
    BY <1>1, ReadableAppend DEF Promised
<1>2. ASSUME NEW k \in DOMAIN queue, Filling(d, k, queue, pins, P, L)
      PROVE  k \in DOMAIN Append(queue, op) /\ Filling(d, k, Append(queue, op), pins, P, L)
    <2>1. k \in DOMAIN Append(queue, op) /\ Append(queue, op)[k] = queue[k]
        BY AppendShape
    <2> QED BY <1>2, <2>1 DEF Filling
<1> QED BY <1>1, <1>2 DEF Promised

(***************************************************************************)
(* The first copy in the queue is done.                                    *)
(***************************************************************************)
After(op, pins) == IF op.pin = 0 THEN pins ELSE [pins EXCEPT ![op.pin] = Moved(op, pins)]

LEMMA AfterShape ==
    ASSUME NEW op, NEW pins, IsSequence(pins), op.pin \in 0 .. Len(pins)
    PROVE  /\ IsSequence(After(op, pins)) /\ Len(After(op, pins)) = Len(pins) /\ Len(pins) \in Nat
           /\ op.pin # 0 => After(op, pins)[op.pin] = Moved(op, pins)
           /\ \A p \in 1 .. Len(pins) : p # op.pin => After(op, pins)[p] = pins[p]
<1> DEFINE v == Moved(op, pins)
<1>1. PICK S : pins \in Seq(S)
    BY DEF IsSequence
<1>2. Len(pins) \in Nat /\ DOMAIN pins = 1 .. Len(pins)
    BY <1>1
<1>3. CASE op.pin = 0
    BY <1>2, <1>3 DEF After
<1>4. CASE op.pin # 0
    <2> HIDE DEF v
    <2> DEFINE more == [pins EXCEPT ![op.pin] = v]
    <2>1. pins \in Seq(S \cup {v})
        BY <1>1, SeqMonotonic
    <2>2. op.pin \in 1 .. Len(pins)
        BY <1>2, <1>4
    <2>3. more \in Seq(S \cup {v}) /\ Len(more) = Len(pins)
        BY <2>1, <2>2
    <2>4. more[op.pin] = v /\ \A p \in 1 .. Len(pins) : p # op.pin => more[p] = pins[p]
        BY <1>2, <2>2
    <2>5. After(op, pins) = more
        BY <1>4 DEF After, v
    <2> HIDE DEF more
    <2> QED BY <1>2, <2>3, <2>4, <2>5 DEF IsSequence, v
<1> QED BY <1>3, <1>4

LEMMA TailWithin ==
    ASSUME NEW s, IsSequence(s), s # <<>>
    PROVE  /\ \A k \in DOMAIN Tail(s) : k + 1 \in DOMAIN s /\ Tail(s)[k] = s[k + 1] /\ k \in Nat \ {0}
           /\ \A k \in DOMAIN s : k # 1 => k - 1 \in DOMAIN Tail(s) /\ Tail(s)[k - 1] = s[k]
           /\ 1 \in DOMAIN s /\ Head(s) = s[1]
BY TailShape

LEMMA SettledTail ==
    ASSUME NEW queue, IsSequence(queue), queue # <<>>, NEW p, Settled(p, queue)
    PROVE  Settled(p, Tail(queue))
BY TailWithin DEF Settled

LEMMA QueueRun ==
    ASSUME NEW queue, NEW pins, NEW P, NEW L, QueueRight(queue, pins, P, L), queue # <<>>
    PROVE  QueueRight(Tail(queue), After(Head(queue), pins), P, L)
<1> DEFINE u == Tail(queue)
           op == Head(queue)
           more == After(op, pins)
<1>1. IsSequence(queue) /\ IsSequence(pins) /\ IsSequence(u)
    BY TailShape DEF QueueRight
<1>2. /\ \A k \in DOMAIN u : k + 1 \in DOMAIN queue /\ u[k] = queue[k + 1] /\ k \in Nat \ {0}
      /\ 1 \in DOMAIN queue /\ op = queue[1]
    BY <1>1, TailWithin
<1>3. OpRight(op, queue, pins, P, L)
    BY <1>2 DEF QueueRight
<1>4. /\ IsSequence(more) /\ Len(more) = Len(pins)
      /\ \A p \in 1 .. Len(pins) : p # op.pin => more[p] = pins[p]
    BY <1>1, <1>3, AfterShape DEF OpRight
<1>5. \A p : Settled(p, queue) => Settled(p, u) /\ p # op.pin
    BY <1>1, <1>2, SettledTail DEF Settled
<1> HIDE DEF u, op, more
<1>6. ASSUME NEW k \in DOMAIN queue PROVE OpRight(queue[k], u, more, P, L)
    <2> DEFINE o == queue[k]
    <2>1. OpRight(o, queue, pins, P, L)
        BY DEF QueueRight
    <2>2. Moved(o, more) = Moved(o, pins)
        <3>1. CASE o.src = 0
            BY <3>1 DEF Moved, Taken
        <3>2. CASE o.src # 0
            <4>1. o.src \in 1 .. Len(pins) /\ o.src # op.pin
                BY <1>5, <2>1, <3>2 DEF OpRight
            <4> QED BY <1>4, <4>1 DEF Moved
        <3> QED BY <3>1, <3>2
    <2> HIDE DEF o
    <2>3. OpRight(o, u, more, P, L)
        BY <1>4, <1>5, <2>1, <2>2 DEF OpRight
    <2> QED BY <2>3 DEF o
<1>7. \A k \in DOMAIN u : OpRight(u[k], u, more, P, L)
    BY <1>2, <1>6
<1>8. ASSUME NEW k \in DOMAIN u, NEW l \in DOMAIN u, u[k].pin # 0, u[l].pin = u[k].pin
      PROVE  l = k
    <2>1. l + 1 = k + 1
        BY <1>2, <1>8 DEF QueueRight
    <2> QED BY <1>2, <2>1
<1>9. QueueRight(u, more, P, L)
    BY <1>1, <1>4, <1>7, <1>8 DEF QueueRight
<1> QED BY <1>9 DEF u, op, more

LEMMA ReadableRun ==
    ASSUME NEW queue, NEW pins, NEW P, NEW L, QueueRight(queue, pins, P, L), queue # <<>>,
           NEW d, Readable(d, queue, pins, P, L)
    PROVE  Readable(d, Tail(queue), After(Head(queue), pins), P, L)
<1> DEFINE op == Head(queue)
           more == After(op, pins)
<1>1. IsSequence(queue) /\ IsSequence(pins) /\ 1 \in DOMAIN queue /\ op = queue[1]
    BY TailWithin DEF QueueRight
<1>2. op.pin \in 0 .. Len(pins)
    BY <1>1 DEF QueueRight, OpRight
<1>3. Len(more) = Len(pins) /\ \A p \in 1 .. Len(pins) : p # op.pin => more[p] = pins[p]
    BY <1>1, <1>2, AfterShape
<1> HIDE DEF op, more
<1>4. d.src # 0 => Settled(d.src, Tail(queue)) /\ d.src # op.pin
    BY <1>1, SettledTail DEF Readable, Settled
<1>5. d.src = 0 \/ pins[d.src] = more[d.src]
    BY <1>3, <1>4 DEF Readable
<1>6. Laid(d.src, more[d.src], d.off, d.outs, P, L)
    BY <1>5, LaidStays DEF Readable
<1>7. Readable(d, Tail(queue), more, P, L)
    BY <1>3, <1>4, <1>6 DEF Readable
<1> QED BY <1>7 DEF more, op

LEMMA PromisedRun ==
    ASSUME NEW queue, NEW pins, NEW P, NEW L, QueueRight(queue, pins, P, L), queue # <<>>,
           NEW d, Promised(d, queue, pins, P, L)
    PROVE  Promised(d, Tail(queue), After(Head(queue), pins), P, L)
<1> DEFINE op == Head(queue)
           more == After(op, pins)
           u == Tail(queue)
<1>1. /\ IsSequence(queue) /\ IsSequence(pins) /\ 1 \in DOMAIN queue /\ op = queue[1]
      /\ \A k \in DOMAIN u : k + 1 \in DOMAIN queue /\ u[k] = queue[k + 1]
      /\ \A k \in DOMAIN queue : k # 1 => k - 1 \in DOMAIN u /\ u[k - 1] = queue[k]
    BY TailWithin DEF QueueRight
<1>2. op.pin \in 0 .. Len(pins)
    BY <1>1 DEF QueueRight, OpRight
<1>3. /\ Len(more) = Len(pins) /\ (op.pin # 0 => more[op.pin] = Moved(op, pins))
    BY <1>1, <1>2, AfterShape
<1>4. CASE Readable(d, queue, pins, P, L)
    <2>1. Readable(d, u, more, P, L)
        BY <1>4, ReadableRun
    <2> QED BY <1>3, <2>1 DEF Promised
<1>5. ASSUME NEW k \in DOMAIN queue, Filling(d, k, queue, pins, P, L)
      PROVE  Promised(d, u, more, P, L)
    <2>0. d.src \in 1 .. Len(pins)
        BY DEF Promised
    <2> HIDE DEF op, more, u
    <2>1. CASE k = 1
        <3>1. d.src = op.pin /\ more[d.src] = Moved(op, pins)
            BY <1>1, <1>3, <1>5, <2>0, <2>1 DEF Filling
        <3>2. Settled(d.src, u)
            <4>1. \A l \in DOMAIN u : l \in Nat \ {0}
                BY <1>1, TailWithin DEF u
            <4>2. ASSUME NEW l \in DOMAIN u, u[l].pin = d.src PROVE FALSE
                <5>1. l + 1 = 1
                    BY <1>1, <2>0, <3>1, <4>2 DEF QueueRight
                <5> QED BY <4>1, <5>1
            <4> QED BY <4>2 DEF Settled
        <3>3. Laid(d.src, more[d.src], d.off, d.outs, P, L)
            BY <1>1, <1>5, <2>1, <3>1 DEF Filling
        <3> QED BY <1>3, <2>0, <3>2, <3>3 DEF Promised, Readable
    <2>2. CASE k # 1
        <3>1. k - 1 \in DOMAIN u /\ u[k - 1] = queue[k]
            BY <1>1, <2>2
        <3>2. queue[k].src = 0
            BY <1>1, <1>5, <2>0 DEF QueueRight, OpRight, Filling
        <3>3. Moved(queue[k], more) = Moved(queue[k], pins)
            BY <3>2 DEF Moved, Taken
        <3>4. Filling(d, k - 1, u, more, P, L)
            BY <1>5, <3>1, <3>3 DEF Filling
        <3> QED BY <1>3, <2>0, <3>1, <3>4 DEF Promised
    <2> QED BY <2>1, <2>2
<1> QED BY <1>4, <1>5 DEF Promised
-----------------------------------------------------------------------------
\* The first copy of a list, and the rest after it.
LEMMA LaidHead ==
    ASSUME NEW outs, IsSequence(outs), outs # <<>>, NEW src, NEW c, NEW off, NEW P, NEW L,
           Laid(src, c, off, outs, P, L)
    PROVE  /\ Head(outs).q \in L =>
                  Taken(src, c, off, Head(outs)) = P[Head(outs).i][Head(outs).q]
           /\ Laid(src, c, off + Head(outs).size, Tail(outs), P, L)
<1>1. /\ Len(outs) \in Nat \ {0} /\ DOMAIN outs = 1 .. Len(outs)
      /\ DOMAIN Tail(outs) = 1 .. Len(outs) - 1 /\ Head(outs) = outs[1]
      /\ \A k \in 1 .. Len(outs) - 1 : Tail(outs)[k] = outs[k + 1]
    BY TailShape
<1>2. PICK pos \in Positions(off, outs) : \A k \in DOMAIN outs :
          outs[k].q \in L => Taken(src, c, pos[k], outs[k]) = P[outs[k].i][outs[k].q]
    BY DEF Laid
<1>3. /\ pos \in [1 .. Len(outs) -> Nat] /\ pos[1] = off
      /\ \A k \in 1 .. Len(outs) : k + 1 \in 1 .. Len(outs) => pos[k + 1] = pos[k] + outs[k].size
    BY <1>1 DEF Positions
<1>4. Head(outs).q \in L => Taken(src, c, off, Head(outs)) = P[Head(outs).i][Head(outs).q]
    BY <1>1, <1>2, <1>3
<1> DEFINE u == Tail(outs)
           n == Len(outs)
           next == [k \in 1 .. n - 1 |-> pos[k + 1]]
<1> HIDE DEF u, n
<1>5. \A k \in 1 .. n - 1 : next[k] = pos[k + 1] /\ pos[k + 1] \in Nat
    BY <1>1, <1>3 DEF n
<1>6. next \in [1 .. n - 1 -> Nat]
    BY <1>5
<1>7. /\ DOMAIN u = 1 .. n - 1 /\ \A k \in 1 .. n - 1 : u[k] = outs[k + 1]
      /\ n \in Nat \ {0}
    BY <1>1 DEF u, n
<1>8. u # <<>> => next[1] = off + outs[1].size
    <2>1. ASSUME u # <<>> PROVE 2 \in 1 .. n
        <3>1. Len(u) = n - 1 /\ (Len(u) = 0 <=> u = <<>>)
            BY TailFacts, LenFacts DEF u, n
        <3> QED BY <1>7, <2>1, <3>1
    <2>2. ASSUME u # <<>> PROVE next[1] = pos[2] /\ pos[2] = pos[1] + outs[1].size
        BY <1>3, <1>5, <1>7, <2>1, <2>2 DEF n
    <2> QED BY <1>3, <2>2
<1>9. \A k \in 1 .. n - 1 : k + 1 \in 1 .. n - 1 => next[k + 1] = next[k] + u[k].size
    BY <1>3, <1>5, <1>7 DEF n
<1>10. \A k \in 1 .. n - 1 :
          u[k].q \in L => Taken(src, c, next[k], u[k]) = P[u[k].i][u[k].q]
    BY <1>1, <1>2, <1>5, <1>7 DEF n
<1> HIDE DEF next
<1>11. next \in Positions(off + outs[1].size, u)
    BY <1>6, <1>7, <1>8, <1>9 DEF Positions
<1>12. Laid(src, c, off + outs[1].size, u, P, L)
    BY <1>7, <1>10, <1>11 DEF Laid
<1> QED BY <1>1, <1>4, <1>12 DEF u

LEMMA LaidNothing ==
    ASSUME NEW src, NEW c, NEW off, NEW P, NEW L
    PROVE  Laid(src, c, off, <<>>, P, L)
<1> DEFINE pos == [k \in DOMAIN <<>> |-> 0]
<1>1. DOMAIN <<>> = {}
    OBVIOUS
<1>2. pos \in Positions(off, <<>>)
    BY <1>1 DEF Positions
<1> QED BY <1>1, <1>2 DEF Laid

LEMMA BlockSequence ==
    ASSUME NEW n \in Nat, NEW i, NEW from \in Nat
    PROVE  LET b == [k \in 1 .. n |-> <<i, from + k>>]
           IN  b \in Seq({<<i, from + x>> : x \in 1 .. n}) /\ Len(b) = n
<1> DEFINE S == {<<i, from + x>> : x \in 1 .. n}
           b == [k \in 1 .. n |-> <<i, from + k>>]
<1>1. b \in [1 .. n -> S]
    OBVIOUS
<1> HIDE DEF S
<1>2. b \in Seq(S)
    BY <1>1, IsASeq
<1>3. Len(b) = n
    BY <1>1, <1>2, LenProperties
<1> QED BY <1>2, <1>3 DEF S

LEMMA CutOfSequence ==
    ASSUME NEW S, NEW s \in Seq(S), NEW a \in Nat, NEW n \in Nat, a + n <= Len(s)
    PROVE  SubSeq(s, a + 1, a + n) = [x \in 1 .. n |-> s[a + x]]
<1> DEFINE w == SubSeq(s, a + 1, a + n)
<1>1. /\ w \in Seq(S) /\ Len(w) = n
      /\ \A x \in 1 .. n : w[x] = s[a + x]
    <2>1. a + 1 \in 1 .. Len(s) + 1 /\ a + n \in a .. Len(s) /\ Len(s) \in Nat
        OBVIOUS
    <2>2. /\ w \in Seq(S) /\ Len(w) = IF a + 1 <= a + n THEN (a + n) - (a + 1) + 1 ELSE 0
          /\ \A x \in 1 .. (a + n) - (a + 1) + 1 : w[x] = s[(a + 1) + x - 1]
        BY <2>1, SubSeqProperties
    <2>3. (a + n) - (a + 1) + 1 = n /\ \A x \in 1 .. n : (a + 1) + x - 1 = a + x
        OBVIOUS
    <2> QED BY <2>2, <2>3
<1> HIDE DEF w
<1>2. w = [x \in 1 .. n |-> w[x]]
    BY <1>1, LenProperties
<1> QED BY <1>1, <1>2 DEF w

\* Their parts lying side by side, the pending copies may be done from the tensor.
LEMMA PendingFromTensor ==
    ASSUME LoopInv, PendRight, NEW c, NEW L
    PROVE  Laid(0, c, pend.off, pend.outs, AllParts, L)
<1>1. PICK pos \in Positions(pend.off, pend.outs) : SideBySide(pos)
    BY DEF PendRight
<1>2. ASSUME NEW k \in DOMAIN pend.outs
      PROVE  LET o == pend.outs[k] IN Taken(0, c, pos[k], o) = AllParts[o.i][o.q]
    <2> DEFINE o == pend.outs[k]
    <2>1. o.i \in DOMAIN batch /\ o.q \in Requests /\ o.size = batch[o.i].sizes[o.q]
        BY DEF LoopInv, PendInv, IsOutputs, IsOutput
    <2>2. o.i = t /\ (o.size = 0 \/ pos[k] = PartOffset(t, o.q))
        BY <1>1, SMTT(30) DEF SideBySide
    <2>3. AllParts[o.i][o.q] = [x \in 1 .. o.size |-> <<o.i, PartOffset(o.i, o.q) + x>>]
        BY <2>1 DEF AllParts, Part
    <2>4. Taken(0, c, pos[k], o) = [x \in 1 .. o.size |-> <<o.i, pos[k] + x>>]
        BY DEF Taken
    <2> HIDE DEF o
    <2>5. CASE o.size = 0
        <3>1. 1 .. o.size = {}
            BY <2>5
        <3> QED BY <2>3, <2>4, <3>1 DEF o
    <2>6. CASE pos[k] = PartOffset(t, o.q)
        BY <2>2, <2>3, <2>4, <2>6 DEF o
    <2> QED BY <2>2, <2>5, <2>6
<1> QED BY <1>1, <1>2 DEF Laid

\* Or from a pinned buffer with the bytes from the first to the last of them.
Block == [k \in 1 .. pend.size |-> <<t, pend.off + k>>]

LEMMA PendingFromBlock ==
    ASSUME LoopInv, PendRight, NEW p, p # 0, NEW L
    PROVE  Laid(p, Block, 0, pend.outs, AllParts, L)
<1>1. PICK pos \in Positions(pend.off, pend.outs) : SideBySide(pos)
    BY DEF PendRight
<1> DEFINE outs == pend.outs
           size == pend.size
           from == pend.off
           D == DOMAIN outs
           at == [k \in D |-> pos[k] - from]
<1>2. /\ pos \in [D -> Nat] /\ (outs # <<>> => pos[1] = from)
      /\ \A k \in D : k + 1 \in D => pos[k + 1] = pos[k] + outs[k].size
    BY DEF Positions
<1>3. from \in Nat /\ size \in Nat
    BY DEF PendRight
<1>4. \A k \in D : pos[k] \in Nat /\ from <= pos[k] /\ pos[k] + outs[k].size <= from + size
    BY <1>1, <1>2 DEF SideBySide
<1>5. \A k \in D : outs[k].size \in Nat
    <2>1. ASSUME NEW k \in D PROVE outs[k].size \in Nat
        <3>1. outs[k].i \in DOMAIN batch /\ outs[k].q \in Requests
              /\ outs[k].size = batch[outs[k].i].sizes[outs[k].q]
            BY DEF LoopInv, PendInv, IsOutputs, IsOutput
        <3>2. batch[outs[k].i].sizes \in Seq(Nat) /\ Len(batch[outs[k].i].sizes) = RequestCount
            BY <3>1 DEF LoopInv, BatchInv
        <3>3. outs[k].q \in 1 .. RequestCount
            BY <3>1 DEF Requests
        <3> QED BY <3>1, <3>2, <3>3
    <2> QED BY <2>1
<1>6. ASSUME NEW k \in D
      PROVE  LET o == outs[k] IN Taken(p, Block, at[k], o) = AllParts[o.i][o.q]
    <2> DEFINE o == outs[k]
               a == at[k]
    <2>1. a \in Nat /\ a = pos[k] - from /\ a + o.size <= size /\ o.size \in Nat
        BY <1>3, <1>4, <1>5
    <2>2. Taken(p, Block, a, o) = SubSeq(Block, a + 1, a + o.size)
        BY DEF Taken
    <2>3. SubSeq(Block, a + 1, a + o.size) = [x \in 1 .. o.size |-> <<t, pos[k] + x>>]
        <3> HIDE DEF o, a
        <3> DEFINE n == o.size
        <3>1. Block \in Seq({<<t, from + x>> : x \in 1 .. size}) /\ Len(Block) = size
            BY <1>3, BlockSequence DEF Block
        <3>0. PICK S : Block \in Seq(S)
            BY <3>1
        <3>4. a + n <= Len(Block) /\ n \in Nat
            BY <2>1, <3>1
        <3> HIDE DEF n
        <3>2. SubSeq(Block, a + 1, a + n) = [x \in 1 .. n |-> Block[a + x]]
            BY <2>1, <3>0, <3>4, CutOfSequence
        <3> USE DEF n
        <3>3. \A x \in 1 .. n : Block[a + x] = <<t, pos[k] + x>>
            <4>1. \A x \in 1 .. n : a + x \in 1 .. size /\ from + (a + x) = pos[k] + x
                BY <1>3, <1>4, <2>1
            <4> QED BY <4>1 DEF Block
        <3> QED BY <3>2, <3>3
    <2>4. Taken(0, Block, pos[k], o) = [x \in 1 .. o.size |-> <<t, pos[k] + x>>]
        BY <1>1 DEF Taken, SideBySide
    <2>5. o.i \in DOMAIN batch /\ o.q \in Requests /\ o.size = batch[o.i].sizes[o.q]
        BY DEF LoopInv, PendInv, IsOutputs, IsOutput
    <2>6. o.i = t /\ (o.size = 0 \/ pos[k] = PartOffset(t, o.q))
        BY <1>1, SMTT(30) DEF SideBySide
    <2>7. AllParts[o.i][o.q] = [x \in 1 .. o.size |-> <<o.i, PartOffset(o.i, o.q) + x>>]
        BY <2>5 DEF AllParts, Part
    <2>8. Taken(p, Block, a, o) = [x \in 1 .. o.size |-> <<t, pos[k] + x>>]
        BY <2>2, <2>3
    <2> HIDE DEF o, a
    <2>9. CASE o.size = 0
        <3>1. 1 .. o.size = {}
            BY <2>9
        <3> QED BY <2>7, <2>8, <3>1 DEF o, a
    <2>10. CASE pos[k] = PartOffset(t, o.q)
        BY <2>6, <2>7, <2>8, <2>10 DEF o, a
    <2> QED BY <2>6, <2>9, <2>10
<1>7. at \in Positions(0, outs)
    <2>1. \A k \in D : at[k] = pos[k] - from /\ at[k] \in Nat
        BY <1>3, <1>4
    <2>2. at \in [D -> Nat]
        BY <2>1
    <2>3. \A k \in D : k + 1 \in D => at[k + 1] = at[k] + outs[k].size
        BY <1>2, <1>3, <1>4, <1>5, <2>1
    <2>4. outs # <<>> => at[1] = 0
        <3>1. outs # <<>> => 1 \in D
            <4>1. IsSequence(outs)
                BY DEF LoopInv, PendInv, IsOutputs
            <4> QED BY <4>1, TailShape
        <3> QED BY <1>2, <1>3, <2>1, <3>1
    <2> HIDE DEF at
    <2> QED BY <2>2, <2>3, <2>4 DEF Positions
<1> HIDE DEF at
<1>8. Laid(p, Block, 0, outs, AllParts, L)
    BY <1>6, <1>7 DEF Laid
<1> QED BY <1>8
-----------------------------------------------------------------------------
(***************************************************************************)
(* What a step may do to the copies: nothing but add buffers, queue a copy *)
(* to an output, queue one to a new buffer, or do the first in the queue.  *)
(***************************************************************************)
AddsBuffers ==
    /\ stream' = stream
    /\ IsSequence(pin') /\ Len(pin') \in Nat /\ Len(pin) <= Len(pin')
    /\ \A p \in 1 .. Len(pin) : pin'[p] = pin[p]

QueuesOutput ==
    /\ pin' = pin
    /\ \E op : /\ stream' = Append(stream, op) /\ op.pin = 0
               /\ OpRight(op, stream, pin, AllParts, live)

QueuesFill ==
    \E op, v : /\ stream' = Append(stream, op) /\ op.pin = Len(pin) + 1 /\ op.src = 0
               /\ pin' = Append(pin, v)

RunsFirst ==
    /\ stream # <<>> /\ stream' = Tail(stream) /\ pin' = After(Head(stream), pin)

CopyChange == AddsBuffers \/ QueuesOutput \/ QueuesFill \/ RunsFirst

LEMMA SameParts == ASSUME BatchInv, UNCHANGED <<batch, cfg>> PROVE AllParts' = AllParts
<1>1. Requests' = Requests /\ \A i, q : Part(i, q)' = Part(i, q)
    BY SameBatch
<1> QED BY <1>1 DEF AllParts

\* Whatever a step does, copies to outputs that were right stay so.
LEMMA CopiesStay ==
    ASSUME StreamRight, CopyChange, AllParts' = AllParts, live' \subseteq live
    PROVE  /\ StreamRight'
           /\ \A d : Readable(d, stream, pin, AllParts, live) =>
                         Readable(d, stream', pin', AllParts', live')
           /\ \A d : Promised(d, stream, pin, AllParts, live) =>
                         Promised(d, stream', pin', AllParts', live')
<1> DEFINE P == AllParts
<1>0. /\ QueueRight(stream, pin, P, live) /\ IsSequence(stream) /\ IsSequence(pin)
      /\ Len(pin) \in Nat
    BY LenFacts DEF StreamRight, QueueRight
<1> SUFFICES
        /\ QueueRight(stream', pin', P, live')
        /\ \A d : Readable(d, stream, pin, P, live) => Readable(d, stream', pin', P, live')
        /\ \A d : Promised(d, stream, pin, P, live) => Promised(d, stream', pin', P, live')
    BY DEF StreamRight
<1> HIDE DEF P
<1>1. CASE AddsBuffers
    <2>1. QueueRight(stream, pin', P, live')
        BY <1>0, <1>1, QueueStays DEF AddsBuffers
    <2>2. \A d : Readable(d, stream, pin, P, live) => Readable(d, stream, pin', P, live')
        BY <1>0, <1>1, ReadableStays DEF AddsBuffers
    <2>3. \A d : Promised(d, stream, pin, P, live) => Promised(d, stream, pin', P, live')
        BY <1>0, <1>1, PromisedStays DEF AddsBuffers
    <2> QED BY <1>1, <2>1, <2>2, <2>3 DEF AddsBuffers
<1>2. /\ QueueRight(stream, pin, P, live')
      /\ \A d : Readable(d, stream, pin, P, live) => Readable(d, stream, pin, P, live')
      /\ \A d : Promised(d, stream, pin, P, live) => Promised(d, stream, pin, P, live')
    <2>1. QueueRight(stream, pin, P, live')
        BY <1>0, QueueStays
    <2>2. \A d : Readable(d, stream, pin, P, live) => Readable(d, stream, pin, P, live')
        BY <1>0, ReadableStays
    <2>3. \A d : Promised(d, stream, pin, P, live) => Promised(d, stream, pin, P, live')
        BY <1>0, PromisedStays
    <2> QED BY <2>1, <2>2, <2>3
<1>3. CASE QueuesOutput
    <2>1. PICK op : /\ stream' = Append(stream, op) /\ op.pin = 0
                    /\ OpRight(op, stream, pin, P, live)
        BY <1>3 DEF QueuesOutput, P
    <2>2. OpRight(op, stream, pin, P, live')
        BY <2>1 DEF OpRight
    <2>3. QueueRight(stream', pin, P, live')
        BY <1>2, <2>1, <2>2, QueueAppend
    <2>4. \A d : Readable(d, stream, pin, P, live') => Readable(d, stream', pin, P, live')
        BY <1>0, <2>1, ReadableAppend
    <2>5. \A d : Promised(d, stream, pin, P, live') => Promised(d, stream', pin, P, live')
        BY <1>0, <2>1, PromisedAppend
    <2>6. pin' = pin
        BY <1>3 DEF QueuesOutput
    <2> QED BY <1>2, <2>3, <2>4, <2>5, <2>6
<1>4. CASE QueuesFill
    <2>1. PICK op, v : /\ stream' = Append(stream, op) /\ op.pin = Len(pin) + 1 /\ op.src = 0
                       /\ pin' = Append(pin, v)
        BY <1>4 DEF QueuesFill
    <2>2. QueueRight(stream', pin', P, live')
        BY <1>2, <2>1, QueueFill
    <2>3. /\ Len(pin') = Len(pin) + 1 /\ \A p \in 1 .. Len(pin) : pin'[p] = pin[p]
        BY <1>0, <2>1, AppendShape
    <2>4. ASSUME NEW d, Readable(d, stream, pin, P, live)
          PROVE  Readable(d, stream', pin', P, live')
        <3>1. d.src \in 0 .. Len(pin)
            BY <2>4 DEF Readable
        <3>2. Readable(d, stream, pin', P, live')
            BY <1>0, <2>3, <2>4, ReadableStays
        <3> QED BY <1>0, <2>1, <3>1, <3>2, ReadableAppend
    <2>5. ASSUME NEW d, Promised(d, stream, pin, P, live)
          PROVE  Promised(d, stream', pin', P, live')
        <3>1. d.src \in 1 .. Len(pin)
            BY <2>5 DEF Promised
        <3>2. Promised(d, stream, pin', P, live')
            BY <1>0, <2>3, <2>5, PromisedStays
        <3> QED BY <1>0, <2>1, <3>1, <3>2, PromisedAppend
    <2> QED BY <2>2, <2>4, <2>5
<1>5. CASE RunsFirst
    <2>1. stream # <<>> /\ stream' = Tail(stream) /\ pin' = After(Head(stream), pin)
        BY <1>5 DEF RunsFirst
    <2>2. QueueRight(Tail(stream), After(Head(stream), pin), P, live')
        BY <1>2, <2>1, QueueRun
    <2>3. \A d : Readable(d, stream, pin, P, live') =>
                     Readable(d, Tail(stream), After(Head(stream), pin), P, live')
        BY <1>2, <2>1, ReadableRun
    <2>4. \A d : Promised(d, stream, pin, P, live') =>
                     Promised(d, Tail(stream), After(Head(stream), pin), P, live')
        BY <1>2, <2>1, PromisedRun
    <2> QED BY <1>2, <2>1, <2>2, <2>3, <2>4
<1> QED BY <1>1, <1>3, <1>4, <1>5 DEF CopyChange


LEMMA DataMoved == \A op : Data(op) = Moved(op, pin)
BY DEF Data, Moved, Taken
-----------------------------------------------------------------------------
LEMMA SameJob ==
    ASSUME BatchInv, UNCHANGED <<batch, cfg>> PROVE \A d : IsJob(d)' <=> IsJob(d)
BY SameBatch DEF IsJob

\* No pinned buffer is filled once the tensors are processed and waited for.
LEMMA NoneFilled ==
    ASSUME FillInv, IInv, pc # "finalize", ~Processing, NEW k \in DOMAIN stream
    PROVE  stream[k].pin = 0
BY DEF FillInv

\* Steps that fill no buffer.
LEMMA FillStays ==
    ASSUME FillInv, IInv, IsSequence(stream),
           \/ stream' = stream
           \/ stream # <<>> /\ stream' = Tail(stream)
           \/ \E op : op.pin = 0 /\ stream' = Append(stream, op),
           deferred' = <<>> => deferred = <<>> \/ (~Processing /\ pc # "finalize"),
           Processing' = Processing, pc = "finalize" => pc' = "finalize"
    PROVE  FillInv'
<1>1. ASSUME NEW k \in DOMAIN stream', stream'[k].pin # 0
      PROVE  \E l \in DOMAIN stream : stream[l].pin # 0
    <2>1. CASE stream' = stream
        BY <1>1, <2>1
    <2>2. CASE stream # <<>> /\ stream' = Tail(stream)
        <3>1. k + 1 \in DOMAIN stream /\ stream'[k] = stream[k + 1]
            BY <2>2, TailWithin
        <3> QED BY <1>1, <3>1
    <2>3. CASE \E op : op.pin = 0 /\ stream' = Append(stream, op)
        <3>1. PICK op : op.pin = 0 /\ stream' = Append(stream, op)
            BY <2>3
        <3>2. stream'[k] = op \/ (k \in DOMAIN stream /\ stream'[k] = stream[k])
            BY <3>1, AppendShape
        <3> QED BY <1>1, <3>1, <3>2
    <2> QED BY <2>1, <2>2, <2>3
<1>2. (\E l \in DOMAIN stream : stream[l].pin # 0) =>
          deferred' # <<>> /\ (Processing' \/ pc' = "finalize")
    BY DEF FillInv
<1> QED BY <1>1, <1>2 DEF FillInv

\* Deferred copies that were kept, or taken up by Finalize().
LEMMA DeferredStays ==
    ASSUME LoopInv, RightInv, CopyChange, UNCHANGED <<batch, cfg>>, live' \subseteq live,
           \/ deferred' = deferred /\ finalized' \in {finalized, finalized + 1}
           \/ deferred' = <<>>,
           IInv
    PROVE  DeferredRight'
<1>1. AllParts' = AllParts /\ \A d : IsJob(d)' <=> IsJob(d)
    BY SameParts, SameJob DEF LoopInv
<1>2. \A d : Promised(d, stream, pin, AllParts, live) =>
                 Promised(d, stream', pin', AllParts', live')
    BY <1>1, CopiesStay DEF RightInv
<1>3. CASE deferred' = deferred /\ finalized' \in {finalized, finalized + 1}
    <2>1. finalized \in Nat /\ IsSequence(deferred)
        BY DEF IInv, FlowInv
    <2>2. \A x \in DOMAIN deferred : x \in Nat
        BY <2>1, AppendShape
    <2>3. \A x \in DOMAIN deferred : x > finalized' => x > finalized
        BY <1>3, <2>1, <2>2
    <2>4. RightInv => DeferredRight
        BY DEF RightInv
    <2> QED BY <1>1, <1>2, <1>3, <2>3, <2>4 DEF DeferredRight
<1>4. CASE deferred' = <<>>
    <2>1. DOMAIN deferred' = {}
        BY <1>4
    <2> QED BY <2>1 DEF DeferredRight
<1> QED BY <1>3, <1>4

LEMMA PendStays ==
    ASSUME LoopInv, PendRight, UNCHANGED <<batch, cfg, t>>, pend' = pend,
           pc' = "respond" => pend.size = 0 \/ (offset' = offset /\ Continues(pend))
    PROVE  PendRight'
<1>1. \A i, q : PartOffset(i, q)' = PartOffset(i, q)
    BY SameBatch DEF LoopInv
<1>2. PICK pos \in Positions(pend.off, pend.outs) : SideBySide(pos)
    BY DEF PendRight
<1>3. pos \in Positions(pend'.off, pend'.outs) /\ SideBySide(pos)'
    BY <1>1, <1>2 DEF SideBySide
<1>4. pc' = "respond" => pend'.size = 0 \/ Continues(pend)'
    BY DEF Continues
<1> QED BY <1>3, <1>4 DEF PendRight

LEMMA NonePendingRight ==
    ASSUME pend' = NonePending PROVE PendRight'
<1> DEFINE pos == [k \in {} |-> 0]
<1>1. pend'.off = 0 /\ pend'.size = 0 /\ pend'.outs = <<>>
    BY DEF NonePending
<1>2. DOMAIN pend'.outs = {}
    BY <1>1
<1> HIDE DEF pos
<1>3. pos \in Positions(pend'.off, pend'.outs)
    BY <1>1, <1>2 DEF Positions, pos
<1>4. \A x : SideBySide(x)'
    BY <1>2 DEF SideBySide
<1> QED BY <1>1, <1>2, <1>3, <1>4 DEF PendRight

LEMMA JobStays ==
    ASSUME LoopInv, RightInv, CopyChange, UNCHANGED <<batch, cfg>>, live' \subseteq live,
           job' = job
    PROVE  JobRight'
<1>1. AllParts' = AllParts /\ \A d : IsJob(d)' <=> IsJob(d)
    BY SameParts, SameJob DEF LoopInv
<1> QED BY <1>1, CopiesStay DEF RightInv, JobRight

LEMMA NoJobRight ==
    ASSUME BatchInv, UNCHANGED <<batch, cfg>>, StreamRight', job' = NoJob PROVE JobRight'
<1>1. /\ job'.src = 0 /\ job'.outs = <<>>
      /\ job' = [src |-> job'.src, place |-> job'.place, off |-> job'.off, outs |-> job'.outs]
    BY DEF NoJob
<1>2. IsOutputs(<<>>)
    BY OutputsOfNothing
<1>3. IsOutputs(job'.outs)
    BY <1>1, <1>2
<1>4. IsJob(job')
    BY <1>1, <1>3 DEF IsJob
<1>5. IsJob(job)'
    BY <1>4, SameJob
<1>6. Len(pin') \in Nat
    BY LenFacts DEF StreamRight, QueueRight
<1>7. Laid(0, pin'[0], job'.off, <<>>, AllParts', live')
    BY LaidNothing
<1>8. Readable(job', stream', pin', AllParts', live')
    BY <1>1, <1>6, <1>7 DEF Readable
<1> QED BY <1>5, <1>8 DEF JobRight
-----------------------------------------------------------------------------
LEMMA SkipRight == ASSUME IInv, LoopInv, RightInv, SkipFlush PROVE RightInv'
<1>1. /\ pc = "check" /\ pc' = "respond" /\ ~Due
      /\ UNCHANGED <<batch, cfg, t, r, offset, pend, job, deferred, finalized, pin, stream, live>>
    BY DEF SkipFlush, loopVars, finVars, dataVars
<1>2. StreamRight /\ IsSequence(pin) /\ IsSequence(stream) /\ Len(pin) \in Nat
    BY LenFacts DEF RightInv, StreamRight, QueueRight
<1>3. CopyChange /\ AllParts' = AllParts
    BY <1>1, <1>2, SameParts DEF CopyChange, AddsBuffers, LoopInv
<1>4. StreamRight'
    BY <1>1, <1>2, <1>3, CopiesStay
<1>5. FillInv'
    BY <1>1, <1>2, FillStays DEF RightInv, Processing
<1>6. PendRight'
    <2>1. pend.size = 0 \/ Continues(pend)
        BY <1>1 DEF Due, RightInv, PendRight
    <2> QED BY <1>1, <2>1, PendStays DEF RightInv
<1>7. JobRight' /\ DeferredRight'
    BY <1>1, <1>3, JobStays, DeferredStays
<1> QED BY <1>4, <1>5, <1>6, <1>7 DEF RightInv

\* What a flush hands over: the pending copies, from the tensor or a pinned buffer.
LEMMA FlushFacts ==
    ASSUME IInv, LoopInv, RightInv, pc = "check"
    PROVE  /\ StreamRight /\ IsSequence(pin) /\ IsSequence(stream) /\ Len(pin) \in Nat
           /\ IsOutputs(pend.outs) /\ Processing
           /\ IsSequence(WithPin) /\ Len(WithPin) = Len(pin) + 1 /\ NewPin = Len(pin) + 1
           /\ \A p \in 1 .. Len(pin) : WithPin[p] = pin[p]
           /\ Moved(ToPinned, WithPin) = Block /\ Moved(ToPinned, pin) = Block
           /\ ToPinned.pin = NewPin /\ ToPinned.src = 0
           /\ Settled(NewPin, stream)
<1>1. StreamRight /\ IsSequence(pin) /\ IsSequence(stream) /\ Len(pin) \in Nat
    BY LenFacts DEF RightInv, StreamRight, QueueRight
<1>2. IsOutputs(pend.outs) /\ Processing
    BY DEF LoopInv, PendInv, IInv, FlowInv
<1>3. /\ IsSequence(WithPin) /\ Len(WithPin) = Len(pin) + 1 /\ NewPin = Len(pin) + 1
      /\ \A p \in 1 .. Len(pin) : WithPin[p] = pin[p]
    BY <1>1, AppendShape DEF WithPin, NewPin
<1>4. /\ Moved(ToPinned, WithPin) = Block /\ Moved(ToPinned, pin) = Block
      /\ ToPinned.pin = NewPin /\ ToPinned.src = 0
    BY DEF Moved, Taken, ToPinned, Block
<1>5. Settled(NewPin, stream)
    <2>1. \A k \in DOMAIN stream : stream[k].pin \in 0 .. Len(pin)
        BY <1>1 DEF StreamRight, QueueRight, OpRight
    <2> QED BY <1>1, <1>3, <2>1 DEF Settled
<1> QED BY <1>1, <1>2, <1>3, <1>4, <1>5

\* After a flush that does not defer.
LEMMA FlushedRight ==
    ASSUME IInv, LoopInv, RightInv, pc = "check", pc' = "scatter",
           UNCHANGED <<batch, cfg, t, deferred, finalized, stream>>,
           AddsBuffers, live' \subseteq live, pend' = NonePending, JobRight'
    PROVE  RightInv'
<1>1. StreamRight /\ IsSequence(stream) /\ CopyChange /\ AllParts' = AllParts
    BY FlushFacts, SameParts DEF CopyChange, LoopInv
<1>2. StreamRight' /\ DeferredRight' /\ PendRight'
    BY <1>1, CopiesStay, DeferredStays, NonePendingRight
<1>3. FillInv'
    BY <1>1, FillStays DEF RightInv, Processing
<1> QED BY <1>2, <1>3 DEF RightInv

LEMMA FlushDirectRight == ASSUME IInv, LoopInv, RightInv, FlushDirect PROVE RightInv'
<1>1. /\ pc = "check" /\ pc' = "scatter" /\ pend' = NonePending
      /\ UNCHANGED <<batch, cfg, t, deferred, finalized, stream, pin, live>>
      /\ job' = [src |-> 0, place |-> Tensor.place, off |-> pend.off, outs |-> pend.outs]
    BY DEF FlushDirect, finVars, PinnedHandled
<1>2. AddsBuffers /\ IsOutputs(pend.outs) /\ StreamRight /\ Len(pin) \in Nat
    BY <1>1, FlushFacts DEF AddsBuffers
<1>3. AllParts' = AllParts
    BY <1>1, SameParts DEF LoopInv
<1>4. JobRight'
    <2>1. IsJob(job')
        BY <1>1, <1>2 DEF IsJob
    <2>2. IsJob(job)'
        BY <1>1, <2>1, SameJob DEF LoopInv
    <2>3. Laid(0, pin[0], pend.off, pend.outs, AllParts, live)
        BY PendingFromTensor DEF RightInv
    <2>4. Readable(job', stream, pin, AllParts, live)
        BY <1>1, <1>2, <2>3 DEF Readable
    <2> QED BY <1>1, <1>3, <2>2, <2>4 DEF JobRight
<1> QED BY <1>1, <1>2, <1>4, FlushedRight

LEMMA FlushNowRight == ASSUME IInv, LoopInv, RightInv, FlushNow PROVE RightInv'
<1>1. /\ pc = "check" /\ pc' = "scatter" /\ pend' = NonePending
      /\ UNCHANGED <<batch, cfg, t, deferred, finalized>>
      /\ job' = FromPinned
    BY DEF FlushNow, finVars, PinnedHandled
<1>2. /\ StreamRight /\ IsSequence(pin) /\ Len(pin) \in Nat
      /\ IsOutputs(pend.outs)
      /\ IsSequence(WithPin) /\ Len(WithPin) = Len(pin) + 1 /\ NewPin = Len(pin) + 1
      /\ \A p \in 1 .. Len(pin) : WithPin[p] = pin[p]
      /\ Settled(NewPin, stream)
    BY <1>1, FlushFacts
<1>3. AllParts' = AllParts
    BY <1>1, SameParts DEF LoopInv
<1>4. /\ FromPinned.src = NewPin /\ FromPinned.off = 0 /\ FromPinned.outs = pend.outs
      /\ IsJob(FromPinned)
    BY <1>2 DEF FromPinned, IsJob
<1>5. IsJob(job)'
    BY <1>1, <1>4, SameJob DEF LoopInv
<1>6. CASE CopyOnHost(ToPinned, Tensor.place, "CPU_PINNED", out, WithPin)
    <2>1. pin' = After(ToPinned, WithPin) /\ stream' = stream /\ live' = live
        <3>1. pin' = [WithPin EXCEPT ![ToPinned.pin] = Data(ToPinned)]
            BY <1>2, <1>6, FlushFacts, <1>1 DEF CopyOnHost, Perform
        <3>2. Data(ToPinned) = Moved(ToPinned, WithPin)
            BY FlushFacts, DataMoved, <1>1
        <3>3. ToPinned.pin # 0
            BY <1>1, <1>2, FlushFacts
        <3> QED BY <1>6, <3>1, <3>2, <3>3 DEF After, CopyOnHost
    <2>2. /\ IsSequence(pin') /\ Len(pin') = Len(pin) + 1 /\ pin'[NewPin] = Block
          /\ \A p \in 1 .. Len(pin) : pin'[p] = pin[p]
        <3>1. ToPinned.pin \in 0 .. Len(WithPin) /\ ToPinned.pin = NewPin /\ ToPinned.pin # 0
              /\ Moved(ToPinned, WithPin) = Block
            BY <1>1, <1>2, FlushFacts
        <3>2. /\ IsSequence(After(ToPinned, WithPin)) /\ Len(After(ToPinned, WithPin)) = Len(WithPin)
              /\ After(ToPinned, WithPin)[ToPinned.pin] = Moved(ToPinned, WithPin)
              /\ \A p \in 1 .. Len(WithPin) :
                    p # ToPinned.pin => After(ToPinned, WithPin)[p] = WithPin[p]
            BY <1>2, <3>1, AfterShape
        <3> QED BY <1>2, <2>1, <3>1, <3>2
    <2>3. AddsBuffers
        BY <1>2, <2>1, <2>2 DEF AddsBuffers
    <2>4. Laid(NewPin, Block, 0, pend.outs, AllParts, live)
        BY <1>2, PendingFromBlock DEF RightInv
    <2>5. Readable(FromPinned, stream, pin', AllParts, live)
        BY <1>2, <1>4, <2>2, <2>4 DEF Readable
    <2>6. JobRight'
        BY <1>1, <1>3, <1>5, <2>1, <2>5 DEF JobRight
    <2> QED BY <1>1, <2>1, <2>3, <2>6, FlushedRight
<1>7. CASE CopyFails(Tensor.place, "CPU_PINNED", out, WithPin, PendingResponses)
    <2>1. pin' = WithPin /\ stream' = stream /\ live' = live \ PendingResponses
        BY <1>7 DEF CopyFails
    <2>2. AddsBuffers
        BY <1>2, <2>1 DEF AddsBuffers
    <2>3. Laid(NewPin, WithPin[NewPin], 0, pend.outs, AllParts, live')
        <3>1. Laid(NewPin, Block, 0, pend.outs, AllParts, {})
            BY <1>2, PendingFromBlock DEF RightInv
        <3>2. \A k \in DOMAIN pend.outs : pend.outs[k].q \notin live'
            BY <2>1 DEF PendingResponses
        <3> QED BY <3>1, <3>2 DEF Laid
    <2>4. Readable(FromPinned, stream, WithPin, AllParts, live')
        BY <1>2, <1>4, <2>3 DEF Readable
    <2>5. JobRight'
        BY <1>1, <1>3, <1>5, <2>1, <2>4 DEF JobRight
    <2> QED BY <1>1, <2>1, <2>2, <2>5, FlushedRight
<1> QED BY <1>6, <1>7 DEF FlushNow
-----------------------------------------------------------------------------
LEMMA FlushDeferredRight == ASSUME IInv, LoopInv, RightInv, FlushDeferred PROVE RightInv'
<1>1. /\ pc = "check" /\ pend' = NonePending
      /\ pc' = (IF Done THEN "end" ELSE "respond")
      /\ UNCHANGED <<batch, cfg, t, job, finalized>>
      /\ deferred' = Append(deferred, FromPinned)
      /\ stream' = Append(stream, ToPinned) /\ pin' = WithPin /\ live' = live
    BY DEF FlushDeferred, finVars, PinnedHandled, CopyOnStream
<1>2. /\ StreamRight /\ IsSequence(pin) /\ IsSequence(stream) /\ Len(pin) \in Nat
      /\ IsOutputs(pend.outs) /\ Processing
      /\ IsSequence(WithPin) /\ Len(WithPin) = Len(pin) + 1 /\ NewPin = Len(pin) + 1
      /\ Moved(ToPinned, WithPin) = Block
      /\ ToPinned.pin = NewPin /\ ToPinned.src = 0
    BY <1>1, FlushFacts
<1>3. CopyChange /\ AllParts' = AllParts /\ \A d : IsJob(d)' <=> IsJob(d)
    <2>1. QueuesFill
        BY <1>1, <1>2 DEF QueuesFill, WithPin
    <2> QED BY <1>1, <2>1, SameParts, SameJob DEF CopyChange, LoopInv
<1>4. StreamRight' /\ PendRight' /\ JobRight'
    BY <1>1, <1>2, <1>3, CopiesStay, NonePendingRight, JobStays
<1>5. /\ IsSequence(deferred) /\ Len(deferred) \in Nat /\ DOMAIN deferred = 1 .. Len(deferred)
      /\ DOMAIN deferred' = 1 .. Len(deferred) + 1 /\ deferred'[Len(deferred) + 1] = FromPinned
      /\ \A k \in 1 .. Len(deferred) : deferred'[k] = deferred[k]
      /\ deferred' # <<>>
    <2>1. IsSequence(deferred) /\ deferred' = Append(deferred, FromPinned)
        BY <1>1 DEF IInv, FlowInv
    <2> QED BY <2>1, AppendedShape
<1>6. FillInv'
    BY <1>1, <1>2, <1>5 DEF FillInv, Processing
<1>7. Promised(FromPinned, stream', pin', AllParts', live')
    <2>1. /\ FromPinned.src = NewPin /\ FromPinned.off = 0 /\ FromPinned.outs = pend.outs
        BY DEF FromPinned
    <2>2. /\ Len(stream) + 1 \in DOMAIN stream' /\ stream'[Len(stream) + 1] = ToPinned
        <3>1. IsSequence(stream) /\ stream' = Append(stream, ToPinned)
            BY <1>1, <1>2
        <3> QED BY <3>1, AppendedShape
    <2>3. Laid(NewPin, Block, 0, pend.outs, AllParts, live)
        BY <1>2, PendingFromBlock DEF RightInv
    <2>4. Filling(FromPinned, Len(stream) + 1, stream', WithPin, AllParts, live)
        BY <1>2, <2>1, <2>2, <2>3 DEF Filling
    <2>5. FromPinned.src \in 1 .. Len(WithPin)
        BY <1>2, <2>1
    <2>6. Promised(FromPinned, stream', WithPin, AllParts, live)
        BY <2>2, <2>4, <2>5 DEF Promised
    <2> QED BY <1>1, <1>3, <2>6
<1>8. IsJob(FromPinned)
    BY <1>2 DEF IsJob, FromPinned
<1>9. DeferredRight'
    <2>1. \A d : Promised(d, stream, pin, AllParts, live) =>
                     Promised(d, stream', pin', AllParts', live')
        BY <1>1, <1>2, <1>3, CopiesStay
    <2>2. ASSUME NEW x \in DOMAIN deferred', x > finalized'
          PROVE  IsJob(deferred'[x]) /\ Promised(deferred'[x], stream', pin', AllParts', live')
        <3>1. CASE x = Len(deferred) + 1
            BY <1>5, <1>7, <1>8, <3>1
        <3>2. CASE x # Len(deferred) + 1
            <4>1. x \in DOMAIN deferred /\ deferred'[x] = deferred[x] /\ x > finalized
                BY <1>1, <1>5, <2>2, <3>2
            <4> QED BY <2>1, <4>1 DEF RightInv, DeferredRight
        <3> QED BY <3>1, <3>2
    <2> QED BY <1>3, <2>2 DEF DeferredRight
<1> QED BY <1>4, <1>6, <1>9 DEF RightInv

\* Steps that at most do, queue or fail a copy to an output.
LEMMA OutputStep ==
    ASSUME IInv, LoopInv, RightInv, UNCHANGED <<batch, cfg, t, deferred, finalized>>,
           AddsBuffers \/ QueuesOutput, live' \subseteq live,
           pc = "finalize" => pc' = "finalize"
    PROVE  /\ StreamRight' /\ FillInv' /\ DeferredRight'
           /\ AllParts' = AllParts
           /\ \A d : Readable(d, stream, pin, AllParts, live) =>
                         Readable(d, stream', pin', AllParts', live')
<1>1. StreamRight /\ IsSequence(stream) /\ CopyChange /\ AllParts' = AllParts
    BY SameParts DEF CopyChange, LoopInv, RightInv, StreamRight, QueueRight
<1>2. StreamRight' /\ DeferredRight'
      /\ \A d : Readable(d, stream, pin, AllParts, live) =>
                         Readable(d, stream', pin', AllParts', live')
    BY <1>1, CopiesStay, DeferredStays
<1>3. FillInv'
    <2>1. \/ stream' = stream
          \/ \E op : op.pin = 0 /\ stream' = Append(stream, op)
        BY DEF AddsBuffers, QueuesOutput
    <2> QED BY <1>1, <2>1, FillStays DEF RightInv, Processing
<1> QED BY <1>1, <1>2, <1>3

LEMMA OutputAdded ==
    ASSUME StreamRight, NEW op, op.pin = 0, OpRight(op, stream, pin, AllParts, live),
           NEW from, NEW to, NEW outs, Copy(op, from, to, outs)
    PROVE  (AddsBuffers \/ QueuesOutput) /\ live' \subseteq live
<1>0. IsSequence(pin) /\ Len(pin) \in Nat
    BY LenFacts DEF StreamRight, QueueRight
<1>1. CASE \/ CopyOnHost(op, from, to, outs, pin)
           \/ CopyFails(from, to, outs, pin, {op.q})
    <2>1. stream' = stream /\ pin' = pin /\ live' \subseteq live
        BY <1>1 DEF CopyOnHost, CopyFails, Perform
    <2> QED BY <1>0, <2>1 DEF AddsBuffers
<1>2. CASE CopyOnStream(op, from, to, outs, pin)
    <2>1. stream' = Append(stream, op) /\ pin' = pin /\ live' = live
        BY <1>2 DEF CopyOnStream
    <2> QED BY <2>1 DEF QueuesOutput
<1> QED BY <1>1, <1>2 DEF Copy

\* The copy to the first output of a job.
FirstOp ==
    [src |-> job.src, off |-> job.off, size |-> Head(job.outs).size, pin |-> 0,
     i |-> Head(job.outs).i, q |-> Head(job.outs).q]

LEMMA FirstRight ==
    ASSUME LoopInv, RightInv, job.outs # <<>>
    PROVE  OpRight(FirstOp, stream, pin, AllParts, live) /\ IsOutput(Head(job.outs))
<1> DEFINE o == Head(job.outs)
<1>1. IsJob(job) /\ Readable(job, stream, pin, AllParts, live) /\ IsSequence(job.outs)
    BY DEF RightInv, JobRight, IsJob, IsOutputs
<1>2. IsOutput(o)
    BY <1>1, TailWithin DEF IsJob, IsOutputs
<1>3. o.q \in live => Taken(job.src, pin[job.src], job.off, o) = AllParts[o.i][o.q]
    BY <1>1, LaidHead DEF Readable
<1>4. Moved(FirstOp, pin) = Taken(job.src, pin[job.src], job.off, o)
    BY DEF Moved, Taken, FirstOp
<1>5. o.i \in DOMAIN AllParts /\ o.q \in DOMAIN AllParts[o.i]
    BY <1>2 DEF IsOutput, AllParts
<1>6. 0 \in 0 .. Len(pin)
    BY LenFacts DEF RightInv, StreamRight, QueueRight
<1>7. FirstOp.pin = 0 /\ FirstOp.src = job.src /\ FirstOp.i = o.i /\ FirstOp.q = o.q
    BY DEF FirstOp
<1> HIDE DEF o
<1>8. OpRight(FirstOp, stream, pin, AllParts, live)
    BY <1>1, <1>3, <1>4, <1>5, <1>6, <1>7 DEF OpRight, Readable
<1> QED BY <1>2, <1>8 DEF o

LEMMA ScatterRight == ASSUME IInv, LoopInv, RightInv, Scatter PROVE RightInv'
<1>1. /\ pc = "scatter" /\ pc' = "scatter" /\ job.outs # <<>> /\ pend = NonePending
      /\ UNCHANGED <<batch, cfg, t, pend, deferred, finalized>>
      /\ Copy(FirstOp, job.place, Head(job.outs).place, out)
      /\ job' = [job EXCEPT !.off = @ + Head(job.outs).size, !.outs = Tail(@)]
    BY DEF Scatter, loopVars, finVars, LoopInv, PcInv, FirstOp
<1>2. StreamRight /\ FirstOp.pin = 0
    BY DEF RightInv, FirstOp
<1>3. OpRight(FirstOp, stream, pin, AllParts, live)
    BY <1>1, FirstRight
<1>4. (AddsBuffers \/ QueuesOutput) /\ live' \subseteq live
    BY <1>1, <1>2, <1>3, OutputAdded
<1>5. /\ StreamRight' /\ FillInv' /\ DeferredRight' /\ AllParts' = AllParts
      /\ \A d : Readable(d, stream, pin, AllParts, live) =>
                         Readable(d, stream', pin', AllParts', live')
    BY <1>1, <1>4, OutputStep
<1>6. PendRight'
    BY <1>1, NonePendingRight
<1>7. JobRight'
    <2>1. IsJob(job) /\ Readable(job, stream, pin, AllParts, live)
          /\ IsSequence(job.outs) /\ IsOutputs(job.outs)
        BY DEF RightInv, JobRight, IsJob, IsOutputs
    <2>2. /\ job'.src = job.src /\ job'.outs = Tail(job.outs)
          /\ job'.off = job.off + Head(job.outs).size
          /\ job' = [src |-> job'.src, place |-> job'.place, off |-> job'.off, outs |-> job'.outs]
        BY <1>1, <2>1 DEF IsJob
    <2>3. IsOutputs(job'.outs)
        <3>1. IsSequence(Tail(job.outs))
            BY <1>1, <2>1, TailFacts
        <3>2. \A k \in DOMAIN Tail(job.outs) : IsOutput(Tail(job.outs)[k])
            BY <1>1, <2>1, TailWithin DEF IsOutputs
        <3> QED BY <2>2, <3>1, <3>2 DEF IsOutputs
    <2>4. IsJob(job)'
        BY <1>1, <2>2, <2>3, SameJob DEF IsJob, LoopInv
    <2>5. Laid(job.src, pin[job.src], job'.off, job'.outs, AllParts, live)
        BY <1>1, <2>1, <2>2, LaidHead DEF Readable
    <2>6. Readable(job', stream, pin, AllParts, live)
        BY <2>1, <2>2, <2>5 DEF Readable
    <2> QED BY <1>5, <2>4, <2>6 DEF JobRight
<1> QED BY <1>5, <1>6, <1>7 DEF RightInv

LEMMA ScatterDoneRight == ASSUME IInv, LoopInv, RightInv, ScatterDone PROVE RightInv'
<1>1. /\ pc = "scatter" /\ pend = NonePending /\ job' = NoJob
      /\ UNCHANGED <<batch, cfg, t, pend, deferred, finalized, pin, stream, live>>
    BY DEF ScatterDone, loopVars, finVars, dataVars, LoopInv, PcInv
<1>2. AddsBuffers
    BY <1>1, LenFacts DEF AddsBuffers, RightInv, StreamRight, QueueRight
<1>3. StreamRight' /\ FillInv' /\ DeferredRight'
    BY <1>1, <1>2, OutputStep
<1>4. PendRight' /\ JobRight'
    BY <1>1, <1>3, NonePendingRight, NoJobRight DEF LoopInv
<1> QED BY <1>3, <1>4 DEF RightInv
-----------------------------------------------------------------------------
LEMMA RespondRight ==
    ASSUME IInv, LoopInv, RightInv, RespondTooFewRows \/ RespondNothing \/ RespondFails
    PROVE  RightInv'
<1>1. /\ pc = "respond" /\ pc' = "check"
      /\ UNCHANGED <<batch, cfg, t, pend, job, deferred, finalized, pin, stream>>
      /\ live' \subseteq live
    BY DEF RespondTooFewRows, RespondNothing, RespondFails, NextResponse, finVars, dataVars
<1>2. AddsBuffers
    BY <1>1, LenFacts DEF AddsBuffers, RightInv, StreamRight, QueueRight
<1>3. StreamRight' /\ FillInv' /\ DeferredRight'
    BY <1>1, <1>2, OutputStep
<1>4. PendRight' /\ JobRight'
    BY <1>1, <1>2, PendStays, JobStays DEF RightInv, CopyChange
<1> QED BY <1>3, <1>4 DEF RightInv

\* A part that is copied at once.
DirectOp == [src |-> 0, off |-> offset, size |-> Size, pin |-> 0, i |-> t, q |-> r]

LEMMA DirectRight ==
    ASSUME StreamRight, t \in DOMAIN batch, r \in Requests, Size = batch[t].sizes[r],
           offset = PartOffset(t, r)
    PROVE  OpRight(DirectOp, stream, pin, AllParts, live)
<1>1. /\ DirectOp.pin = 0 /\ DirectOp.src = 0 /\ DirectOp.i = t /\ DirectOp.q = r
      /\ DirectOp.size = Size /\ DirectOp.off = offset
    BY DEF DirectOp
<1>2. Moved(DirectOp, pin) = [k \in 1 .. Size |-> <<t, offset + k>>]
    BY <1>1 DEF Moved, Taken
<1>3. AllParts[t][r] = [k \in 1 .. Size |-> <<t, offset + k>>]
    BY DEF AllParts, Part
<1>4. t \in DOMAIN AllParts /\ r \in DOMAIN AllParts[t] /\ Len(pin) \in Nat
    BY LenFacts DEF AllParts, StreamRight, QueueRight
<1> QED BY <1>1, <1>2, <1>3, <1>4 DEF OpRight

LEMMA SetDirectRight == ASSUME IInv, LoopInv, RightInv, SetDirect PROVE RightInv'
<1>1. NextResponse /\ Copy(DirectOp, Tensor.place, Tensor.dst[r], WithBuffer) /\ pend' = pend
    BY DEF SetDirect, SetFixedSizeBuffer, DirectOp
<1>2. /\ t \in DOMAIN batch /\ r \in Requests /\ Size = batch[t].sizes[r]
      /\ offset = PartOffset(t, r)
      /\ UNCHANGED <<batch, cfg, t, job, deferred, finalized>>
      /\ pc = "respond" /\ pc' = "check"
    BY <1>1, Turn
<1>3. StreamRight /\ Len(pin) \in Nat
    BY LenFacts DEF RightInv, StreamRight, QueueRight
<1>4. OpRight(DirectOp, stream, pin, AllParts, live)
    BY <1>2, <1>3, DirectRight
<1>5. (AddsBuffers \/ QueuesOutput) /\ live' \subseteq live
    <2>1. DirectOp.pin = 0
        BY DEF DirectOp
    <2> QED BY <1>1, <1>3, <1>4, <2>1, OutputAdded
<1>6. StreamRight' /\ FillInv' /\ DeferredRight'
    BY <1>2, <1>5, OutputStep
<1>7. PendRight' /\ JobRight'
    BY <1>1, <1>2, <1>5, PendStays, JobStays DEF RightInv, CopyChange
<1> QED BY <1>6, <1>7 DEF RightInv

\* The next part lies behind those that are pending, or is the only one with bytes.
LEMMA SetPendingPend == ASSUME IInv, LoopInv, RightInv, SetPending PROVE PendRight'
<1> DEFINE outs == pend.outs
           n == Len(outs)
           from == IF pend.size = 0 THEN offset ELSE pend.off
           u == Append(outs, NewOutput)
<1>1. NextResponse /\ pend' = [off |-> from, size |-> pend.size + Size, outs |-> u]
    BY DEF SetPending, SetFixedSizeBuffer, NewOutput
<1>2. /\ t \in DOMAIN batch /\ r \in Requests /\ Size \in Nat
      /\ offset = PartOffset(t, r)
      /\ UNCHANGED <<batch, cfg, t>> /\ pc = "respond" /\ pc' = "check"
    BY <1>1, Turn
<1>3. /\ n \in Nat /\ DOMAIN outs = 1 .. n /\ DOMAIN u = 1 .. n + 1 /\ u[n + 1] = NewOutput
      /\ \A k \in 1 .. n : u[k] = outs[k]
      /\ Len(u) = n + 1 /\ u # <<>> /\ (outs = <<>> <=> n = 0)
    BY AppendShape, AppendFacts, LenFacts DEF LoopInv, PendInv, IsOutputs
<1>4. NewOutput.i = t /\ NewOutput.q = r /\ NewOutput.size = Size
    BY DEF NewOutput
<1>5. PICK pos \in Positions(pend.off, outs) : SideBySide(pos)
    BY DEF RightInv, PendRight
<1>6. /\ pend.off \in Nat /\ pend.size \in Nat
      /\ outs = <<>> => pend.size = 0
      /\ pend.size = 0 => \A k \in 1 .. n : outs[k].size = 0
      /\ pend.size = 0 \/ offset = pend.size + pend.off
    BY <1>2, <1>3 DEF RightInv, PendRight, Continues
<1>7. /\ pos \in [1 .. n -> Nat] /\ (n # 0 => pos[1] = pend.off)
      /\ \A k \in 1 .. n : k + 1 \in 1 .. n => pos[k + 1] = pos[k] + outs[k].size
    BY <1>3, <1>5 DEF Positions
<1>8. \A k \in 1 .. n :
        /\ outs[k].i = t
        /\ pend.off <= pos[k] /\ pos[k] + outs[k].size <= pend.off + pend.size
        /\ k = n => pos[k] + outs[k].size = pend.off + pend.size
        /\ outs[k].size = 0 \/ pos[k] = PartOffset(t, outs[k].q)
    BY <1>3, <1>5 DEF SideBySide
<1>9. offset \in Nat /\ \A k \in 1 .. n : outs[k].size \in Nat
    <2>1. \A k \in 1 .. n : outs[k].i \in DOMAIN batch /\ outs[k].q \in 1 .. RequestCount
              /\ outs[k].size = batch[outs[k].i].sizes[outs[k].q]
        BY <1>3 DEF LoopInv, PendInv, IsOutputs, IsOutput, Requests
    <2>2. \A i \in DOMAIN batch : batch[i].sizes \in Seq(Nat) /\ Len(batch[i].sizes) = RequestCount
        BY DEF LoopInv, BatchInv
    <2>3. ASSUME NEW k \in 1 .. n PROVE outs[k].size \in Nat
        <3>1. /\ outs[k].i \in DOMAIN batch /\ outs[k].q \in 1 .. RequestCount
              /\ outs[k].size = batch[outs[k].i].sizes[outs[k].q]
            BY <2>1
        <3>2. batch[outs[k].i].sizes \in Seq(Nat) /\ Len(batch[outs[k].i].sizes) = RequestCount
            BY <2>2, <3>1
        <3> QED BY <3>1, <3>2, SMTT(30)
    <2>4. offset \in Nat
        BY <1>2, OffsetNat DEF LoopInv
    <2> QED BY <2>3, <2>4
<1> HIDE DEF n, u, outs
\* where the copies take their bytes now
<1>10. PICK at : /\ at \in [1 .. n + 1 -> Nat] /\ at[1] = from
                 /\ \A k \in 1 .. n : at[k + 1] = at[k] + outs[k].size
                 /\ \A k \in 1 .. n :
                      /\ from <= at[k] /\ at[k] + outs[k].size <= from + pend.size
                      /\ outs[k].size = 0 \/ at[k] = PartOffset(t, outs[k].q)
                 /\ at[n + 1] = offset
    <2>1. CASE pend.size = 0
        <3> DEFINE at == [k \in 1 .. n + 1 |-> offset]
        <3>1. at \in [1 .. n + 1 -> Nat] /\ \A k \in 1 .. n + 1 : at[k] = offset
            BY <1>9
        <3> HIDE DEF at
        <3>2. \A k \in 1 .. n : k \in 1 .. n + 1 /\ k + 1 \in 1 .. n + 1 /\ outs[k].size = 0
            BY <1>3, <1>6, <2>1
        <3>3. 1 \in 1 .. n + 1 /\ n + 1 \in 1 .. n + 1
            BY <1>3
        <3> QED BY <1>9, <2>1, <3>1, <3>2, <3>3
    <2>2. CASE pend.size # 0
        <3> DEFINE at == [k \in 1 .. n + 1 |-> IF k = n + 1 THEN offset ELSE pos[k]]
        <3>1. at \in [1 .. n + 1 -> Nat] /\ at[n + 1] = offset /\ \A k \in 1 .. n : at[k] = pos[k]
            BY <1>3, <1>7, <1>9
        <3> HIDE DEF at
        <3>2. n # 0 /\ from = pend.off /\ offset = pend.size + pend.off
            BY <1>3, <1>6, <2>2
        <3>3. at[1] = from
            BY <1>3, <1>7, <3>1, <3>2
        <3>4. ASSUME NEW k \in 1 .. n PROVE at[k + 1] = at[k] + outs[k].size
            <4>1. CASE k = n
                BY <1>3, <1>6, <1>8, <3>1, <3>2, <4>1
            <4>2. CASE k # n
                <5>1. k + 1 \in 1 .. n
                    BY <1>3, <4>2
                <5> QED BY <1>7, <3>1, <5>1
            <4> QED BY <4>1, <4>2
        <3> QED BY <1>8, <3>1, <3>2, <3>3, <3>4
    <2> QED BY <2>1, <2>2
<1>11. at \in Positions(from, u)
    <2>1. \A k \in 1 .. n + 1 : k + 1 \in 1 .. n + 1 => k \in 1 .. n
        BY <1>3
    <2> QED BY <1>3, <1>10, <2>1 DEF Positions
<1>12. from \in Nat
    BY <1>6, <1>9
<1> HIDE DEF from
<1>13. /\ pend'.off = from /\ pend'.size = pend.size + Size /\ pend'.outs = u
    BY <1>1
<1>14. \A i, q : PartOffset(i, q)' = PartOffset(i, q)
    BY <1>2, SameBatch DEF LoopInv
<1>15. ASSUME NEW k \in 1 .. n + 1
       PROVE  /\ u[k].i = t
              /\ from <= at[k] /\ at[k] + u[k].size <= from + (pend.size + Size)
              /\ k = n + 1 => at[k] + u[k].size = from + (pend.size + Size)
              /\ u[k].size = 0 \/ at[k] = PartOffset(t, u[k].q)
    <2>1. CASE k \in 1 .. n
        <3>1. u[k] = outs[k] /\ outs[k].size \in Nat /\ at[k] \in Nat /\ k # n + 1
            BY <1>3, <1>9, <1>10, <2>1
        <3> QED BY <1>2, <1>6, <1>8, <1>10, <1>12, <2>1, <3>1
    <2>2. CASE k = n + 1
        <3>1. at[k] = offset /\ u[k].size = Size /\ u[k].i = t /\ u[k].q = r
            BY <1>3, <1>4, <1>10, <2>2
        <3>2. offset = from + pend.size
            BY <1>6, <1>9 DEF from
        <3> QED BY <1>2, <1>6, <1>9, <1>12, <3>1, <3>2
    <2> QED BY <1>3, <2>1, <2>2
<1>16. SideBySide(at)'
    BY <1>2, <1>3, <1>13, <1>14, <1>15 DEF SideBySide
<1>17. ASSUME pend.size + Size = 0 PROVE \A k \in 1 .. n + 1 : u[k].size = 0
    <2>1. pend.size = 0 /\ Size = 0
        BY <1>2, <1>6, <1>17
    <2> QED BY <1>3, <1>4, <1>6, <2>1
<1>18. pend'.off \in Nat /\ pend'.size \in Nat /\ pend'.outs # <<>>
    BY <1>2, <1>3, <1>6, <1>12, <1>13
<1>19. pend'.size = 0 => \A k \in DOMAIN pend'.outs : pend'.outs[k].size = 0
    BY <1>3, <1>13, <1>17
<1>20. at \in Positions(pend'.off, pend'.outs)
    BY <1>11, <1>13
<1>21. pc' # "respond"
    BY <1>2
<1> QED BY <1>16, <1>18, <1>19, <1>20, <1>21 DEF PendRight
-----------------------------------------------------------------------------
LEMMA SetPendingRight == ASSUME IInv, LoopInv, RightInv, SetPending PROVE RightInv'
<1>1. NextResponse /\ UNCHANGED <<pin, stream, live>>
    BY DEF SetPending, SetFixedSizeBuffer
<1>2. /\ UNCHANGED <<batch, cfg, t, job, deferred, finalized>>
      /\ pc = "respond" /\ pc' = "check"
    BY <1>1, Turn
<1>3. AddsBuffers
    BY <1>1, LenFacts DEF AddsBuffers, RightInv, StreamRight, QueueRight
<1>4. StreamRight' /\ FillInv' /\ DeferredRight'
    BY <1>1, <1>2, <1>3, OutputStep
<1>5. JobRight'
    BY <1>1, <1>2, <1>3, JobStays DEF CopyChange
<1> QED BY <1>4, <1>5, SetPendingPend DEF RightInv

\* The steps between the tensors, and of Finalize().
LEMMA FinalRight ==
    ASSUME IInv, LoopInv, RightInv,
           EndTensor \/ FinalizeSync \/ FinalizeDeferred \/ FinalizeReturn \/ SendResponses
    PROVE  RightInv'
<1>1. /\ pc \in {"end", "finalize", "deferred", "returned"} /\ pend = NonePending
      /\ UNCHANGED <<batch, cfg, pend, pin, stream, live>>
    BY DEF EndTensor, FinalizeSync, FinalizeDeferred, FinalizeReturn, SendResponses, loopVars,
           finVars, dataVars, LoopInv, PcInv
<1>2. AddsBuffers /\ StreamRight /\ IsSequence(stream)
    BY <1>1, LenFacts DEF AddsBuffers, RightInv, StreamRight, QueueRight
<1>3. CopyChange /\ AllParts' = AllParts
    BY <1>1, <1>2, SameParts DEF CopyChange, LoopInv
<1>4. StreamRight' /\ PendRight'
    BY <1>1, <1>2, <1>3, CopiesStay, NonePendingRight
<1>5. /\ finalized \in Nat /\ IsSequence(deferred)
      /\ \/ deferred' = deferred /\ finalized' \in {finalized, finalized + 1}
         \/ deferred' = <<>>
    BY DEF EndTensor, FinalizeSync, FinalizeDeferred, FinalizeReturn, SendResponses, finVars, IInv,
           FlowInv
<1>6. DeferredRight'
    BY <1>1, <1>3, <1>5, DeferredStays
<1>7. CASE EndTensor
    <2>1. /\ pc = "end" /\ t' = t + 1 /\ UNCHANGED <<job, deferred>>
          /\ pc' = IF t < Len(batch) THEN "check" ELSE "finalize"
        BY <1>7 DEF EndTensor, finVars
    <2>2. JobRight'
        BY <1>1, <1>3, <2>1, JobStays
    <2>3. Processing' \/ pc' = "finalize"
        <3>1. t \in Nat /\ Len(batch) \in Nat
            BY DEF IInv, FlowInv
        <3> QED BY <1>1, <2>1, <3>1 DEF Processing
    <2>4. FillInv'
        BY <1>1, <2>1, <2>3 DEF RightInv, FillInv
    <2> QED BY <1>4, <1>6, <2>2, <2>4 DEF RightInv
<1>8. CASE FinalizeSync
    <2>1. /\ pc = "finalize" /\ pc' = "deferred" /\ UNCHANGED <<t, job, deferred>>
          /\ deferred # <<>> /\ needSync => Synchronized
        BY <1>8 DEF FinalizeSync, loopVars, finVars
    <2>2. JobRight'
        BY <1>1, <1>3, <2>1, JobStays
    <2>3. deferred # <<>> => stream = <<>>
        <3>1. Len(stream) \in Nat /\ (Len(stream) = 0 <=> stream = <<>>)
            BY LenFacts DEF IInv, StreamInv
        <3> QED BY <2>1, <3>1 DEF Synchronized, IInv, StreamInv, Recorded
    <2>4. FillInv'
        <3>1. deferred # <<>> => DOMAIN stream' = {}
            BY <1>1, <2>3
        <3> QED BY <1>1, <2>1, <3>1 DEF RightInv, FillInv
    <2> QED BY <1>4, <1>6, <2>2, <2>4 DEF RightInv
<1>9. ASSUME pc \in {"deferred", "returned"} PROVE FillInv'
    <2>1. ~Processing
        BY <1>9 DEF IInv, FlowInv
    <2>2. \A k \in DOMAIN stream : stream[k].pin = 0
        BY <1>9, <2>1, NoneFilled DEF RightInv
    <2> QED BY <1>1, <2>2 DEF FillInv
<1>10. CASE FinalizeDeferred
    <2>1. /\ pc = "deferred" /\ finalized < Len(deferred) /\ job' = deferred[finalized + 1]
        BY <1>10 DEF FinalizeDeferred
    <2>2. ~Processing
        BY <2>1 DEF IInv, FlowInv
    <2>3. \A k \in DOMAIN stream : stream[k].pin = 0
        BY <2>1, <2>2, NoneFilled DEF RightInv
    <2> DEFINE d == deferred[finalized + 1]
    <2>4. finalized + 1 \in DOMAIN deferred /\ finalized + 1 > finalized
        <3>1. DOMAIN deferred = 1 .. Len(deferred) /\ Len(deferred) \in Nat
            BY <1>5, AppendShape
        <3> QED BY <1>5, <2>1, <3>1
    <2>5. IsJob(d) /\ Promised(d, stream, pin, AllParts, live)
        BY <2>4 DEF RightInv, DeferredRight
    <2> HIDE DEF d
    <2>6. Readable(d, stream, pin, AllParts, live)
        <3>1. d.src \in 1 .. Len(pin) /\ Len(pin) \in Nat
            BY <1>2, <2>5, LenFacts DEF Promised, StreamRight, QueueRight
        <3>2. d.src # 0
            BY <3>1
        <3> QED BY <2>3, <2>5, <3>2 DEF Promised, Filling
    <2>7. IsJob(job)'
        <3>1. IsJob(job')
            BY <2>1, <2>5 DEF d
        <3> QED BY <1>1, <3>1, SameJob DEF LoopInv
    <2>8. JobRight'
        BY <1>1, <1>3, <2>1, <2>6, <2>7 DEF JobRight, d
    <2> QED BY <1>4, <1>6, <1>9, <2>1, <2>8 DEF RightInv
<1>11. CASE FinalizeReturn \/ SendResponses
    <2>1. pc \in {"deferred", "returned"} /\ job' = job
        BY <1>11 DEF FinalizeReturn, SendResponses
    <2>2. JobRight'
        BY <1>1, <1>3, <2>1, JobStays
    <2> QED BY <1>4, <1>6, <1>9, <2>1, <2>2 DEF RightInv
<1> QED BY <1>7, <1>8, <1>10, <1>11

LEMMA RunCopyRight == ASSUME IInv, LoopInv, RightInv, RunCopy PROVE RightInv'
<1>1. /\ stream # <<>> /\ stream' = Tail(stream)
      /\ UNCHANGED <<batch, cfg, pc, t, r, offset, pend, job, deferred, finalized, live>>
      /\ Perform(Head(stream), out, pin)
    BY DEF RunCopy, loopVars, finVars
<1>2. StreamRight /\ IsSequence(stream)
    BY DEF RightInv, StreamRight, QueueRight
<1>3. pin' = After(Head(stream), pin)
    <2>1. Data(Head(stream)) = Moved(Head(stream), pin)
        BY DataMoved
    <2> QED BY <1>1, <2>1 DEF Perform, After
<1>4. CopyChange /\ AllParts' = AllParts
    BY <1>1, <1>3, SameParts DEF CopyChange, RunsFirst, LoopInv
<1>5. StreamRight'
    BY <1>1, <1>2, <1>4, CopiesStay
<1>6. JobRight' /\ DeferredRight'
    BY <1>1, <1>4, JobStays, DeferredStays
<1>7. PendRight'
    BY <1>1, PendStays DEF RightInv, PendRight
<1>8. FillInv'
    BY <1>1, <1>2, FillStays DEF RightInv, Processing
<1> QED BY <1>5, <1>6, <1>7, <1>8 DEF RightInv

LEMMA StutterRight == ASSUME LoopInv, RightInv, Terminating \/ UNCHANGED vars PROVE RightInv'
<1>1. UNCHANGED <<batch, cfg, pc, t, r, offset, pend, job, deferred, finalized, live, pin, stream>>
    BY DEF Terminating, vars, loopVars, finVars, dataVars
<1>2. AllParts' = AllParts /\ \A d : IsJob(d)' <=> IsJob(d)
    BY <1>1, SameParts, SameJob DEF LoopInv
<1>3. StreamRight' /\ FillInv' /\ JobRight' /\ DeferredRight'
    BY <1>1, <1>2 DEF RightInv, StreamRight, FillInv, Processing, JobRight, DeferredRight
<1>4. PendRight'
    BY <1>1, PendStays DEF RightInv, PendRight
<1> QED BY <1>3, <1>4 DEF RightInv

LEMMA InitRight == Init => RightInv
<1> SUFFICES ASSUME Init PROVE RightInv
    OBVIOUS
<1>1. /\ pend = NonePending /\ job = NoJob /\ deferred = <<>> /\ pin = <<>> /\ stream = <<>>
      /\ pc = "check"
    BY DEF Init
<1>2. /\ DOMAIN stream = {} /\ DOMAIN deferred = {} /\ DOMAIN pend.outs = {}
      /\ pend.off = 0 /\ pend.size = 0 /\ pend.outs = <<>> /\ Len(pin) = 0
      /\ job.src = 0 /\ job.outs = <<>>
      /\ job = [src |-> job.src, place |-> job.place, off |-> job.off, outs |-> job.outs]
    BY <1>1, EmptyFacts DEF NonePending, NoJob
<1>3. StreamRight /\ FillInv /\ DeferredRight
    BY <1>1, <1>2, EmptyFacts DEF StreamRight, QueueRight, FillInv, DeferredRight
<1>4. JobRight
    <2>1. IsOutputs(<<>>) /\ Laid(0, pin[0], job.off, <<>>, AllParts, live)
        BY OutputsOfNothing, LaidNothing
    <2> QED BY <1>2, <2>1 DEF JobRight, IsJob, Readable
<1>5. PendRight
    <2> DEFINE pos == [k \in {} |-> 0]
    <2>1. pos \in Positions(pend.off, pend.outs)
        BY <1>2 DEF Positions
    <2>2. \A x : SideBySide(x)
        BY <1>2 DEF SideBySide
    <2> QED BY <1>1, <1>2, <2>1, <2>2 DEF PendRight
<1> QED BY <1>3, <1>4, <1>5 DEF RightInv

LEMMA NextRight == IInv /\ LoopInv /\ RightInv /\ [Next]_vars => RightInv'
BY SkipRight, FlushDirectRight, FlushNowRight, FlushDeferredRight, ScatterRight, ScatterDoneRight,
   RespondRight, SetPendingRight, SetDirectRight, FinalRight, RunCopyRight, StutterRight DEF Next
-----------------------------------------------------------------------------
PutAt(f, g, i, q, v) ==
    /\ g[i][q] = v
    /\ \A j \in DOMAIN batch, p \in Requests : <<j, p>> # <<i, q>> => g[j][p] = f[j][p]

LEMMA PutInGrid ==
    ASSUME NEW f, Grid(f), NEW i \in DOMAIN batch, NEW q \in Requests, NEW v,
           NEW g, g = [f EXCEPT ![i][q] = v]
    PROVE  Grid(g) /\ PutAt(f, g, i, q, v)
<1>1. /\ DOMAIN f = DOMAIN batch /\ DOMAIN f[i] = Requests
      /\ \A j \in DOMAIN batch : f[j] = [p \in Requests |-> f[j][p]]
    BY DEF Grid
<1>2. g = [j \in DOMAIN batch |-> IF j = i THEN [f[i] EXCEPT ![q] = v] ELSE f[j]]
    BY <1>1, Zenon DEF Grid
<1>3. g[i] = [f[i] EXCEPT ![q] = v] /\ \A j \in DOMAIN batch : j # i => g[j] = f[j]
    BY <1>2
<1>4. g[i] = [p \in Requests |-> IF p = q THEN v ELSE f[i][p]]
    BY <1>1, <1>3
<1>5. g[i][q] = v /\ \A p \in Requests : p # q => g[i][p] = f[i][p]
    BY <1>4
<1>6. Grid(g)
    <2>1. \A j \in DOMAIN batch : g[j] = [p \in Requests |-> g[j][p]]
        BY <1>1, <1>3, <1>4
    <2>2. g = [j \in DOMAIN batch |-> g[j]]
        BY <1>2
    <2> QED BY <2>1, <2>2 DEF Grid
<1> QED BY <1>3, <1>5, <1>6 DEF PutAt

LEMMA GridStays == ASSUME BatchInv, UNCHANGED <<batch, cfg>> PROVE \A f : Grid(f)' <=> Grid(f)
BY SameBatch DEF Grid

\* What is done, queued or lost with a copy that fails.
LEMMA OutputEffect ==
    ASSUME StreamRight, LiveInv, NEW op, op.pin = 0, OpRight(op, stream, pin, AllParts, live),
           op.i \in DOMAIN batch, op.q \in Requests,
           NEW from, NEW to, NEW outs, Grid(outs), Copy(op, from, to, outs),
           NEW i \in DOMAIN batch, NEW q \in live'
    PROVE  /\ Has(outs, i, q) => Has(out', i, q)
           /\ Queued(stream, i, q) => Queued(stream', i, q)
           /\ To(op, i, q) => Has(out', i, q) \/ Queued(stream', i, q)
<1>0. IsSequence(stream)
    BY DEF StreamRight, QueueRight
<1>1. CASE CopyOnHost(op, from, to, outs, pin)
    <2>1. /\ out' = [outs EXCEPT ![op.i][op.q] = Moved(op, pin)]
          /\ stream' = stream /\ live' = live
        BY <1>1, DataMoved DEF CopyOnHost, Perform
    <2>0. PutAt(outs, out', op.i, op.q, Moved(op, pin))
        BY <2>1, PutInGrid
    <2>2. /\ out'[op.i][op.q] = Moved(op, pin)
          /\ \A j \in DOMAIN batch, p \in Requests :
                <<j, p>> # <<op.i, op.q>> => out'[j][p] = outs[j][p]
        BY <2>0 DEF PutAt
    <2>3. q \in Requests /\ q \in live
        BY <2>1 DEF LiveInv
    <2>4. CASE <<i, q>> = <<op.i, op.q>>
        <3>1. Has(out', i, q)
            BY <2>2, <2>3, <2>4 DEF Has, OpRight
        <3> QED BY <2>1, <3>1
    <2>5. CASE <<i, q>> # <<op.i, op.q>>
        BY <2>1, <2>2, <2>3, <2>5 DEF Has, To
    <2> QED BY <2>4, <2>5
<1>2. CASE CopyOnStream(op, from, to, outs, pin)
    <2>1. out' = outs /\ stream' = Append(stream, op)
        BY <1>2 DEF CopyOnStream
    <2>2. /\ Len(stream) \in Nat /\ DOMAIN stream = 1 .. Len(stream)
          /\ DOMAIN stream' = 1 .. Len(stream) + 1 /\ stream'[Len(stream) + 1] = op
          /\ \A k \in 1 .. Len(stream) : stream'[k] = stream[k]
        BY <1>0, <2>1, AppendedShape
    <2>3. Queued(stream, i, q) => Queued(stream', i, q)
        BY <2>2 DEF Queued
    <2>4. To(op, i, q) => Queued(stream', i, q)
        BY <2>2 DEF Queued
    <2> QED BY <2>1, <2>3, <2>4
<1>3. CASE CopyFails(from, to, outs, pin, {op.q})
    <2>1. out' = outs /\ stream' = stream /\ live' = live \ {op.q}
        BY <1>3 DEF CopyFails
    <2> QED BY <2>1 DEF To
<1> QED BY <1>1, <1>2, <1>3 DEF Copy

LEMMA OutputGrid ==
    ASSUME NEW op, op.pin = 0, op.i \in DOMAIN batch, op.q \in Requests,
           NEW from, NEW to, NEW outs, Grid(outs), Copy(op, from, to, outs)
    PROVE  Grid(out')
<1>1. out' = outs \/ out' = [outs EXCEPT ![op.i][op.q] = Data(op)]
    BY DEF Copy, CopyOnHost, CopyOnStream, CopyFails, Perform
<1>2. CASE out' = [outs EXCEPT ![op.i][op.q] = Data(op)]
    BY <1>2, PutInGrid
<1> QED BY <1>1, <1>2

\* The stream delivers what is queued.
LEMMA RunEffect ==
    ASSUME StreamRight, LiveInv, BatchInv, Grid(out), RunCopy,
           NEW i \in DOMAIN batch, NEW q \in live
    PROVE  /\ Has(out, i, q) => Has(out', i, q)
           /\ Queued(stream, i, q) => Has(out', i, q) \/ Queued(stream', i, q)
<1> DEFINE op == Head(stream)
<1>1. /\ stream # <<>> /\ stream' = Tail(stream) /\ Perform(op, out, pin)
    BY DEF RunCopy
<1>2. /\ 1 \in DOMAIN stream /\ op = stream[1]
      /\ \A k \in DOMAIN stream : k # 1 => k - 1 \in DOMAIN stream' /\ stream'[k - 1] = stream[k]
    BY <1>1, TailWithin DEF StreamRight, QueueRight
<1>3. OpRight(op, stream, pin, AllParts, live)
    BY <1>2 DEF StreamRight, QueueRight
<1>4. Queued(stream, i, q) => (op.pin = 0 /\ To(op, i, q)) \/ Queued(stream', i, q)
    <2> SUFFICES ASSUME NEW k \in DOMAIN stream, stream[k].pin = 0, To(stream[k], i, q)
                 PROVE  (op.pin = 0 /\ To(op, i, q)) \/ Queued(stream', i, q)
        BY DEF Queued
    <2>1. CASE k = 1
        BY <1>2, <2>1
    <2>2. CASE k # 1
        BY <1>2, <2>2 DEF Queued
    <2> QED BY <2>1, <2>2
<1> HIDE DEF op
<1>5. q \in Requests
    BY DEF LiveInv
<1>6. CASE op.pin = 0
    <2>1. out' = [out EXCEPT ![op.i][op.q] = Moved(op, pin)]
        BY <1>1, <1>6, DataMoved DEF Perform
    <2>2. op.i \in DOMAIN batch /\ op.q \in Requests
        BY <1>3, <1>6 DEF OpRight, AllParts
    <2>0. PutAt(out, out', op.i, op.q, Moved(op, pin))
        BY <2>1, <2>2, PutInGrid
    <2>3. /\ out'[op.i][op.q] = Moved(op, pin)
          /\ \A j \in DOMAIN batch, p \in Requests :
                <<j, p>> # <<op.i, op.q>> => out'[j][p] = out[j][p]
        BY <2>0 DEF PutAt
    <2>4. CASE <<i, q>> = <<op.i, op.q>>
        BY <1>3, <1>6, <2>3, <2>4 DEF OpRight, Has
    <2>5. CASE <<i, q>> # <<op.i, op.q>>
        BY <1>4, <1>5, <2>3, <2>5 DEF Has, To
    <2> QED BY <2>4, <2>5
<1>7. CASE op.pin # 0
    <2>1. out' = out
        BY <1>1, <1>7 DEF Perform
    <2> QED BY <1>4, <1>7, <2>1
<1> QED BY <1>6, <1>7

LEMMA RunGrid ==
    ASSUME StreamRight, Grid(out), RunCopy PROVE Grid(out')
<1> DEFINE op == Head(stream)
<1>1. /\ stream # <<>> /\ Perform(op, out, pin)
    BY DEF RunCopy
<1>2. 1 \in DOMAIN stream /\ op = stream[1]
    BY <1>1, TailWithin DEF StreamRight, QueueRight
<1>3. OpRight(op, stream, pin, AllParts, live)
    BY <1>2 DEF StreamRight, QueueRight
<1> HIDE DEF op
<1>4. CASE op.pin = 0
    <2>1. op.i \in DOMAIN batch /\ op.q \in Requests
        BY <1>3, <1>4 DEF OpRight, AllParts
    <2>2. out' = [out EXCEPT ![op.i][op.q] = Data(op)]
        BY <1>1, <1>4 DEF Perform
    <2> QED BY <2>1, <2>2, PutInGrid
<1>5. CASE op.pin # 0
    BY <1>1, <1>5 DEF Perform
<1> QED BY <1>4, <1>5
-----------------------------------------------------------------------------
\* What is delivered stays so, and what is handled now is delivered.
LEMMA CoverStays ==
    ASSUME CoverInv, Grid(out)', UNCHANGED batch, live' \subseteq live,
           Range(states) \subseteq Range(states'),
           \A i \in DOMAIN batch, q \in live' :
                Handled(i, q) /\ Delivered(i, q) => Delivered(i, q)',
           \A i \in DOMAIN batch, q \in live' : Handled(i, q)' /\ ~Handled(i, q) =>
                /\ Wants(i, q) => Delivered(i, q)'
                /\ batch[i].kind = "state" => <<i, q>> \in Range(states')
    PROVE  CoverInv'
<1>1. \A i \in DOMAIN batch, q \in live' : Wants(i, q)' <=> Wants(i, q)
    BY DEF Wants
<1>2. ASSUME NEW i \in DOMAIN batch, NEW q \in live', Handled(i, q)'
      PROVE  /\ Wants(i, q) => Delivered(i, q)'
             /\ batch[i].kind = "state" => <<i, q>> \in Range(states')
    <2>1. CASE Handled(i, q)
        BY <2>1 DEF CoverInv
    <2>2. CASE ~Handled(i, q)
        BY <1>2, <2>2
    <2> QED BY <2>1, <2>2
<1> QED BY <1>1, <1>2 DEF CoverInv

LEMMA Grown ==
    ASSUME NEW s, IsSequence(s), NEW e, NEW u, u = Append(s, e)
    PROVE  Range(s) \subseteq Range(u) /\ e \in Range(u)
<1>1. /\ Len(s) \in Nat /\ DOMAIN s = 1 .. Len(s) /\ DOMAIN u = 1 .. Len(s) + 1
      /\ u[Len(s) + 1] = e /\ \A k \in 1 .. Len(s) : u[k] = s[k]
    BY AppendedShape
<1> QED BY <1>1 DEF Range

\* Steps that copy nothing, and move copies from one list to another.
LEMMA MoveCover ==
    ASSUME LoopInv, CoverInv, UNCHANGED <<batch, cfg, t, r, states, out, stream>>, live' \subseteq live,
           \A i, q : Within(job.outs, i, q) \/ Within(pend.outs, i, q) \/ Deferred(i, q) =>
                     Within(job'.outs, i, q) \/ Within(pend'.outs, i, q) \/ Deferred(i, q)'
    PROVE  CoverInv'
<1>1. AllParts' = AllParts /\ Grid(out)'
    BY SameParts, GridStays DEF LoopInv, CoverInv
<1>2. \A i, q : Handled(i, q)' <=> Handled(i, q)
    BY DEF Handled
<1>3. \A i \in DOMAIN batch, q \in live' : Delivered(i, q) => Delivered(i, q)'
    BY <1>1 DEF Delivered, Has
<1> QED BY <1>1, <1>2, <1>3, CoverStays

LEMMA WithinNothing == \A i, q : ~Within(<<>>, i, q)
<1>1. DOMAIN <<>> = {}
    OBVIOUS
<1> QED BY <1>1 DEF Within

LEMMA FlushCover ==
    ASSUME IInv, LoopInv, RightInv, CoverInv, SkipFlush \/ FlushDirect \/ FlushNow \/ FlushDeferred
    PROVE  CoverInv'
<1>1. /\ pc = "check" /\ job.outs = <<>> /\ UNCHANGED <<batch, cfg, t, r, states, finalized>>
    BY DEF SkipFlush, FlushDirect, FlushNow, FlushDeferred, loopVars, finVars, LoopInv, PcInv
<1>2. CASE SkipFlush
    <2>1. UNCHANGED <<out, stream, live, pend, job, deferred>>
        BY <1>2 DEF SkipFlush, loopVars, finVars, dataVars
    <2> QED BY <1>1, <2>1, MoveCover DEF Deferred
<1>3. CASE FlushDirect
    <2>1. /\ UNCHANGED <<out, stream, live, deferred>> /\ job'.outs = pend.outs
        BY <1>3 DEF FlushDirect, finVars
    <2> QED BY <1>1, <2>1, MoveCover, WithinNothing DEF Deferred
<1>4. CASE FlushNow
    <2>1. /\ UNCHANGED <<stream, deferred>> /\ job'.outs = pend.outs /\ live' \subseteq live
          /\ out' = out
        <3>1. ToPinned.pin # 0
            BY <1>1, FlushFacts
        <3> QED BY <1>4, <3>1 DEF FlushNow, finVars, FromPinned, CopyOnHost, CopyFails, Perform
    <2> QED BY <1>1, <2>1, MoveCover, WithinNothing DEF Deferred
<1>5. CASE FlushDeferred
    <2>1. /\ out' = out /\ live' = live /\ stream' = Append(stream, ToPinned) /\ job' = job
          /\ deferred' = Append(deferred, FromPinned) /\ pend' = NonePending
        BY <1>5 DEF FlushDeferred, CopyOnStream, PinnedHandled
    <2>2. /\ Len(deferred) \in Nat /\ DOMAIN deferred = 1 .. Len(deferred)
          /\ DOMAIN deferred' = 1 .. Len(deferred) + 1 /\ deferred'[Len(deferred) + 1] = FromPinned
          /\ \A k \in 1 .. Len(deferred) : deferred'[k] = deferred[k]
        BY <2>1, AppendedShape DEF IInv, FlowInv
    <2>3. /\ Len(stream) \in Nat /\ DOMAIN stream = 1 .. Len(stream)
          /\ DOMAIN stream' = 1 .. Len(stream) + 1
          /\ \A k \in 1 .. Len(stream) : stream'[k] = stream[k]
        BY <2>1, AppendedShape DEF IInv, StreamInv
    <2>4. Len(deferred) + 1 > finalized' /\ FromPinned.outs = pend.outs
        BY <1>1, <2>2 DEF LoopInv, PcInv, IInv, FlowInv, FromPinned
    <2>5. \A i, q : Within(pend.outs, i, q) => Deferred(i, q)'
        BY <2>2, <2>4 DEF Deferred
    <2>6. \A i, q : Deferred(i, q) => Deferred(i, q)'
        BY <1>1, <2>2 DEF Deferred
    <2>7. \A i, q : Queued(stream, i, q) => Queued(stream', i, q)
        BY <2>3 DEF Queued
    <2>8. AllParts' = AllParts /\ Grid(out)'
        BY <1>1, <2>1, SameParts, GridStays DEF LoopInv, CoverInv
    <2>9. \A i, q : Handled(i, q)' <=> Handled(i, q)
        BY <1>1 DEF Handled
    <2>10. \A i \in DOMAIN batch, q \in live' : Delivered(i, q) => Delivered(i, q)'
        BY <2>1, <2>5, <2>6, <2>7, <2>8 DEF Delivered, Has
    <2> QED BY <1>1, <2>1, <2>8, <2>9, <2>10, CoverStays
<1> QED BY <1>2, <1>3, <1>4, <1>5

LEMMA ScatterCover == ASSUME IInv, LoopInv, RightInv, CoverInv, Scatter PROVE CoverInv'
<1>1. /\ pc = "scatter" /\ job.outs # <<>>
      /\ UNCHANGED <<batch, cfg, t, r, states, pend, deferred, finalized>>
      /\ Copy(FirstOp, job.place, Head(job.outs).place, out)
      /\ job' = [job EXCEPT !.off = @ + Head(job.outs).size, !.outs = Tail(@)]
    BY DEF Scatter, loopVars, finVars, FirstOp
<1>2. OpRight(FirstOp, stream, pin, AllParts, live) /\ IsOutput(Head(job.outs))
    BY <1>1, FirstRight
<1>3. FirstOp.pin = 0 /\ FirstOp.i = Head(job.outs).i /\ FirstOp.q = Head(job.outs).q
    BY DEF FirstOp
<1>4. FirstOp.i \in DOMAIN batch /\ FirstOp.q \in Requests
    BY <1>2, <1>3 DEF IsOutput
<1>5. StreamRight /\ LiveInv /\ BatchInv /\ Grid(out)
    BY DEF RightInv, LoopInv, CoverInv
<1>6. live' \subseteq live
    BY <1>1, <1>2, <1>3, <1>5, OutputAdded
<1>7. Grid(out)' /\ AllParts' = AllParts
    <2>1. Grid(out')
        BY <1>1, <1>3, <1>4, <1>5, OutputGrid
    <2> QED BY <1>1, <1>5, <2>1, GridStays, SameParts
<1>8. job'.outs = Tail(job.outs) /\ IsSequence(job.outs)
    BY <1>1 DEF RightInv, JobRight, IsJob, IsOutputs
<1>9. \A i, q : Within(job.outs, i, q) => To(FirstOp, i, q) \/ Within(job'.outs, i, q)
    <2>1. \A k \in DOMAIN job.outs : k # 1 => k - 1 \in DOMAIN Tail(job.outs)
                                              /\ Tail(job.outs)[k - 1] = job.outs[k]
        BY <1>1, <1>8, TailWithin
    <2>2. Head(job.outs) = job.outs[1]
        BY <1>1, <1>8, TailWithin
    <2>3. ASSUME NEW i, NEW q, NEW k \in DOMAIN job.outs, To(job.outs[k], i, q)
          PROVE  To(FirstOp, i, q) \/ Within(job'.outs, i, q)
        <3>1. CASE k = 1
            BY <1>3, <2>2, <2>3, <3>1 DEF To
        <3>2. CASE k # 1
            BY <1>8, <2>1, <2>3, <3>2 DEF Within
        <3> QED BY <3>1, <3>2
    <2> QED BY <2>3 DEF Within
<1>10. ASSUME NEW i \in DOMAIN batch, NEW q \in live', Delivered(i, q)
       PROVE  Delivered(i, q)'
    <2>1. /\ Has(out, i, q) => Has(out', i, q)
          /\ Queued(stream, i, q) => Queued(stream', i, q)
          /\ To(FirstOp, i, q) => Has(out', i, q) \/ Queued(stream', i, q)
        BY <1>1, <1>2, <1>3, <1>4, <1>5, OutputEffect
    <2>2. Deferred(i, q) => Deferred(i, q)'
        BY <1>1 DEF Deferred
    <2> QED BY <1>1, <1>7, <1>9, <1>10, <2>1, <2>2 DEF Delivered, Has
<1>11. \A i, q : Handled(i, q)' <=> Handled(i, q)
    BY <1>1 DEF Handled
<1> QED BY <1>1, <1>6, <1>7, <1>10, <1>11, CoverStays
-----------------------------------------------------------------------------
\* A turn handles the part of response r: if it is wanted it is delivered, else none is due.
LEMMA TurnCover ==
    ASSUME LoopInv, IInv, CoverInv, NextResponse, Grid(out)', live' \subseteq live,
           states' = states \/ states' = Append(states, <<t, r>>),
           \A i \in DOMAIN batch, q \in live' :
                /\ Has(out, i, q) /\ <<i, q>> # <<t, r>> => Has(out', i, q)
                /\ Queued(stream, i, q) => Queued(stream', i, q)
                /\ Within(pend.outs, i, q) => Within(pend'.outs, i, q),
           r \in live' /\ Wants(t, r) =>
                Has(out', t, r) \/ Queued(stream', t, r) \/ Within(pend'.outs, t, r),
           r \in live' /\ batch[t].kind = "state" => states' = Append(states, <<t, r>>)
    PROVE  CoverInv'
<1>1. /\ t \in DOMAIN batch /\ r \in Requests
      /\ UNCHANGED <<batch, cfg, t, job, deferred, finalized>> /\ r' = r + 1
    BY Turn
<1>2. AllParts' = AllParts /\ LiveInv
    BY <1>1, SameParts DEF LoopInv
<1>3. live' \subseteq Requests /\ Requests \subseteq Nat
    BY <1>2 DEF LiveInv, Requests
<1>4. \A i \in DOMAIN batch, q \in live' : Handled(i, q)' <=> Handled(i, q) \/ <<i, q>> = <<t, r>>
    BY <1>1, <1>3 DEF Handled
<1>5. \A i \in DOMAIN batch, q \in live' : Handled(i, q) => <<i, q>> # <<t, r>>
    BY <1>1, <1>3 DEF Handled, LoopInv, BatchInv
<1>6. /\ Range(states) \subseteq Range(states')
      /\ states' = Append(states, <<t, r>>) => <<t, r>> \in Range(states')
    <2>1. IsSequence(states)
        BY DEF LoopInv, StatesInv
    <2>2. CASE states' = Append(states, <<t, r>>)
        BY <2>1, <2>2, Grown
    <2>3. CASE states' = states
        <3>1. states' = Append(states, <<t, r>>) => <<t, r>> \in Range(states')
            BY <2>1, Grown
        <3> QED BY <2>3, <3>1 DEF Range
    <2> QED BY <2>2, <2>3
<1>7. ASSUME NEW i \in DOMAIN batch, NEW q \in live', Handled(i, q), Delivered(i, q)
      PROVE  Delivered(i, q)'
    <2>1. <<i, q>> # <<t, r>>
        BY <1>5, <1>7
    <2>2. Deferred(i, q) => Deferred(i, q)'
        BY <1>1 DEF Deferred
    <2> QED BY <1>1, <1>2, <1>7, <2>1, <2>2 DEF Delivered, Has
<1>8. ASSUME NEW i \in DOMAIN batch, NEW q \in live', Handled(i, q)', ~Handled(i, q)
      PROVE  /\ Wants(i, q) => Delivered(i, q)'
             /\ batch[i].kind = "state" => <<i, q>> \in Range(states')
    <2>1. i = t /\ q = r
        BY <1>4, <1>8
    <2>2. Wants(i, q) => Has(out', i, q) \/ Queued(stream', i, q) \/ Within(pend'.outs, i, q)
        BY <2>1
    <2>3. Has(out', i, q) => Has(out, i, q)'
        BY <1>2 DEF Has
    <2> QED BY <1>6, <2>1, <2>2, <2>3 DEF Delivered
<1> QED BY <1>1, <1>6, <1>7, <1>8, CoverStays

LEMMA RespondCover ==
    ASSUME IInv, LoopInv, RightInv, CoverInv, RespondTooFewRows \/ RespondNothing \/ RespondFails
    PROVE  CoverInv'
<1>1. /\ NextResponse /\ UNCHANGED <<out, stream, pend>> /\ live' \subseteq live
      /\ states' = states \/ states' = Append(states, <<t, r>>)
    BY DEF RespondTooFewRows, RespondNothing, RespondFails, dataVars
<1>2. r \notin live' \/ (~Wants(t, r) /\ batch[t].kind # "state")
    BY DEF RespondTooFewRows, RespondNothing, RespondFails, dataVars, Wanted, Wants, Tensor
<1>3. Grid(out)'
    <2>1. UNCHANGED <<batch, cfg>>
        BY <1>1, Turn
    <2> QED BY <1>1, <2>1, GridStays DEF LoopInv, CoverInv
<1> QED BY <1>1, <1>2, <1>3, TurnCover DEF Has

\* What SetFixedSizeBuffer does first.
LEMMA SetBuffer ==
    ASSUME LoopInv, IInv, CoverInv, SetFixedSizeBuffer
    PROVE  /\ NextResponse
           /\ t \in DOMAIN batch /\ r \in Requests /\ UNCHANGED <<batch, cfg>>
           /\ Size = batch[t].sizes[r] /\ offset = PartOffset(t, r)
           /\ Grid(WithBuffer)
           /\ \A i \in DOMAIN batch, q \in Requests :
                 <<i, q>> # <<t, r>> => WithBuffer[i][q] = out[i][q]
           /\ states' = states \/ states' = Append(states, <<t, r>>)
           /\ batch[t].kind = "state" => states' = Append(states, <<t, r>>)
<1>1. /\ NextResponse
      /\ states' = IF Tensor.kind = "state" THEN Append(states, <<t, r>>) ELSE states
    BY DEF SetFixedSizeBuffer
<1>2. /\ t \in DOMAIN batch /\ r \in Requests /\ UNCHANGED <<batch, cfg>>
      /\ Size = batch[t].sizes[r] /\ offset = PartOffset(t, r)
    BY <1>1, Turn
<1>3. Grid(WithBuffer) /\ PutAt(out, WithBuffer, t, r, Junk(Size))
    BY <1>2, PutInGrid DEF WithBuffer, CoverInv
<1>4. \A i \in DOMAIN batch, q \in Requests :
          <<i, q>> # <<t, r>> => WithBuffer[i][q] = out[i][q]
    BY <1>3 DEF PutAt
<1> QED BY <1>1, <1>2, <1>3, <1>4 DEF Tensor

LEMMA SetPendingCover == ASSUME IInv, LoopInv, RightInv, CoverInv, SetPending PROVE CoverInv'
<1>1. /\ SetFixedSizeBuffer /\ out' = WithBuffer /\ UNCHANGED <<stream, live>>
      /\ pend'.outs = Append(pend.outs, NewOutput)
    BY DEF SetPending, NewOutput
<1>2. /\ NextResponse /\ t \in DOMAIN batch /\ r \in Requests /\ UNCHANGED <<batch, cfg>>
      /\ Grid(WithBuffer)
      /\ \A i \in DOMAIN batch, q \in Requests :
                 <<i, q>> # <<t, r>> => WithBuffer[i][q] = out[i][q]
      /\ states' = states \/ states' = Append(states, <<t, r>>)
      /\ batch[t].kind = "state" => states' = Append(states, <<t, r>>)
    BY <1>1, SetBuffer
<1>3. Grid(out)' /\ live \subseteq Requests
    BY <1>1, <1>2, GridStays DEF LoopInv, LiveInv
<1>4. /\ \A i, q : Within(pend.outs, i, q) => Within(pend'.outs, i, q)
      /\ Within(pend'.outs, t, r)
    <2>1. /\ Len(pend.outs) \in Nat /\ DOMAIN pend.outs = 1 .. Len(pend.outs)
          /\ DOMAIN pend'.outs = 1 .. Len(pend.outs) + 1
          /\ pend'.outs[Len(pend.outs) + 1] = NewOutput
          /\ \A k \in 1 .. Len(pend.outs) : pend'.outs[k] = pend.outs[k]
        BY <1>1, AppendedShape DEF LoopInv, PendInv, IsOutputs
    <2>2. To(NewOutput, t, r)
        BY DEF NewOutput, To
    <2> QED BY <2>1, <2>2 DEF Within
<1>5. \A i \in DOMAIN batch, q \in live' : Has(out, i, q) /\ <<i, q>> # <<t, r>> => Has(out', i, q)
    BY <1>1, <1>2, <1>3 DEF Has
<1> QED BY <1>1, <1>2, <1>3, <1>4, <1>5, TurnCover

LEMMA SetDirectCover == ASSUME IInv, LoopInv, RightInv, CoverInv, SetDirect PROVE CoverInv'
<1>1. /\ SetFixedSizeBuffer /\ Copy(DirectOp, Tensor.place, Tensor.dst[r], WithBuffer)
      /\ pend' = pend
    BY DEF SetDirect, DirectOp
<1>2. /\ NextResponse /\ t \in DOMAIN batch /\ r \in Requests /\ UNCHANGED <<batch, cfg>>
      /\ Size = batch[t].sizes[r] /\ offset = PartOffset(t, r)
      /\ Grid(WithBuffer)
      /\ \A i \in DOMAIN batch, q \in Requests :
                 <<i, q>> # <<t, r>> => WithBuffer[i][q] = out[i][q]
      /\ states' = states \/ states' = Append(states, <<t, r>>)
      /\ batch[t].kind = "state" => states' = Append(states, <<t, r>>)
    BY <1>1, SetBuffer
<1>3. StreamRight /\ LiveInv /\ BatchInv
    BY DEF RightInv, LoopInv
<1>4. OpRight(DirectOp, stream, pin, AllParts, live)
    BY <1>2, <1>3, DirectRight
<1>5. DirectOp.pin = 0 /\ DirectOp.i = t /\ DirectOp.q = r
    BY DEF DirectOp
<1>6. Grid(out)' /\ live' \subseteq live
    <2>1. Grid(out')
        BY <1>1, <1>2, <1>5, OutputGrid
    <2>2. live' \subseteq live
        BY <1>1, <1>3, <1>4, <1>5, OutputAdded
    <2> QED BY <1>2, <1>3, <2>1, <2>2, GridStays
<1>7. ASSUME NEW i \in DOMAIN batch, NEW q \in live'
      PROVE  /\ Has(out, i, q) /\ <<i, q>> # <<t, r>> => Has(out', i, q)
             /\ Queued(stream, i, q) => Queued(stream', i, q)
             /\ i = t /\ q = r => Has(out', i, q) \/ Queued(stream', i, q)
    <2>1. /\ Has(WithBuffer, i, q) => Has(out', i, q)
          /\ Queued(stream, i, q) => Queued(stream', i, q)
          /\ To(DirectOp, i, q) => Has(out', i, q) \/ Queued(stream', i, q)
        BY <1>1, <1>2, <1>3, <1>4, <1>5, OutputEffect
    <2>2. Has(out, i, q) /\ <<i, q>> # <<t, r>> => Has(WithBuffer, i, q)
        BY <1>2, <1>3, <1>6 DEF Has, LiveInv
    <2> QED BY <1>5, <2>1, <2>2 DEF To
<1> QED BY <1>1, <1>2, <1>6, <1>7, TurnCover
-----------------------------------------------------------------------------
LEMMA FinalCover ==
    ASSUME IInv, LoopInv, RightInv, CoverInv,
           \/ ScatterDone \/ EndTensor \/ FinalizeSync \/ FinalizeDeferred \/ FinalizeReturn
           \/ SendResponses \/ Terminating \/ UNCHANGED vars
    PROVE  CoverInv'
<1>1. UNCHANGED <<batch, cfg, states, out, stream, live, pend>>
    BY DEF ScatterDone, EndTensor, FinalizeSync, FinalizeDeferred, FinalizeReturn, SendResponses,
           Terminating, vars, loopVars, dataVars
<1>2. CASE EndTensor
    <2>1. /\ pc = "end" /\ t' = t + 1 /\ r' = 1 /\ UNCHANGED <<job, deferred, finalized>>
        BY <1>2 DEF EndTensor, finVars
    <2>2. AllParts' = AllParts /\ Grid(out)'
        BY <1>1, SameParts, GridStays DEF LoopInv, CoverInv
    <2>3. \A i \in DOMAIN batch, q \in live : Handled(i, q)' => Handled(i, q)
        <3>1. /\ live \subseteq 1 .. RequestCount /\ r > RequestCount /\ RequestCount \in Nat
              /\ r \in Nat /\ t \in Nat /\ DOMAIN batch \subseteq Nat
            BY <2>1, SameBatch, <1>1 DEF LoopInv, LiveInv, PcInv, Done, Requests, BatchInv
        <3> QED BY <2>1, <3>1 DEF Handled
    <2>4. \A i \in DOMAIN batch, q \in live' : Delivered(i, q) => Delivered(i, q)'
        BY <1>1, <2>1, <2>2 DEF Delivered, Deferred, Has
    <2> QED BY <1>1, <2>2, <2>3, <2>4, CoverStays
<1>3. CASE ~EndTensor
    <2>1. UNCHANGED <<t, r>>
        BY <1>3 DEF ScatterDone, FinalizeSync, FinalizeDeferred, FinalizeReturn, SendResponses,
                    Terminating, vars, loopVars
    <2>2. ASSUME NEW i, NEW q,
                 Within(job.outs, i, q) \/ Within(pend.outs, i, q) \/ Deferred(i, q)
          PROVE  Within(job'.outs, i, q) \/ Within(pend'.outs, i, q) \/ Deferred(i, q)'
        <3>1. CASE \/ ScatterDone \/ FinalizeSync \/ SendResponses \/ Terminating \/ UNCHANGED vars
            <4>1. UNCHANGED <<deferred, finalized>> /\ (job' = job \/ job.outs = <<>>)
                BY <3>1 DEF ScatterDone, FinalizeSync, SendResponses, Terminating, vars, finVars
            <4> QED BY <1>1, <2>2, <4>1, WithinNothing DEF Deferred
        <3>2. CASE FinalizeDeferred
            <4>1. /\ pc = "deferred" /\ job' = deferred[finalized + 1]
                  /\ finalized' = finalized + 1 /\ deferred' = deferred
                BY <3>2 DEF FinalizeDeferred
            <4>2. job.outs = <<>>
                BY <4>1 DEF LoopInv, PcInv
            <4>3. finalized \in Nat /\ DOMAIN deferred \subseteq Nat
                <5>1. DOMAIN deferred = 1 .. Len(deferred) /\ Len(deferred) \in Nat
                    BY AppendShape DEF IInv, FlowInv
                <5> QED BY <5>1 DEF IInv, FlowInv
            <4>4. Deferred(i, q) => Within(job'.outs, i, q) \/ Deferred(i, q)'
                <5> SUFFICES ASSUME NEW x \in DOMAIN deferred, x > finalized,
                                    Within(deferred[x].outs, i, q)
                             PROVE  Within(job'.outs, i, q) \/ Deferred(i, q)'
                    BY DEF Deferred
                <5>1. x = finalized + 1 \/ x > finalized + 1
                    BY <4>3
                <5> QED BY <4>1, <5>1 DEF Deferred
            <4> QED BY <1>1, <2>2, <4>2, <4>4, WithinNothing
        <3>3. CASE FinalizeReturn
            <4>1. finalized = Len(deferred) /\ job' = job
                BY <3>3 DEF FinalizeReturn
            <4>2. ~Deferred(i, q)
                <5>1. DOMAIN deferred = 1 .. Len(deferred) /\ Len(deferred) \in Nat
                    BY AppendShape DEF IInv, FlowInv
                <5> QED BY <4>1, <5>1 DEF Deferred
            <4> QED BY <1>1, <2>2, <4>1, <4>2
        <3> QED BY <1>3, <3>1, <3>2, <3>3
    <2> QED BY <1>1, <2>1, <2>2, MoveCover
<1> QED BY <1>2, <1>3

LEMMA RunCopyCover == ASSUME IInv, LoopInv, RightInv, CoverInv, RunCopy PROVE CoverInv'
<1>1. UNCHANGED <<batch, cfg, t, r, pend, job, deferred, finalized, live, states>>
    BY DEF RunCopy, loopVars, finVars
<1>2. StreamRight /\ LiveInv /\ BatchInv /\ Grid(out)
    BY DEF RightInv, LoopInv, CoverInv
<1>3. Grid(out)' /\ AllParts' = AllParts
    BY <1>1, <1>2, RunGrid, GridStays, SameParts
<1>4. ASSUME NEW i \in DOMAIN batch, NEW q \in live', Delivered(i, q)
      PROVE  Delivered(i, q)'
    <2>1. /\ Has(out, i, q) => Has(out', i, q)
          /\ Queued(stream, i, q) => Has(out', i, q) \/ Queued(stream', i, q)
        BY <1>1, <1>2, RunEffect
    <2> QED BY <1>1, <1>3, <1>4, <2>1 DEF Delivered, Deferred, Has
<1>5. \A i, q : Handled(i, q)' <=> Handled(i, q)
    BY <1>1 DEF Handled
<1> QED BY <1>1, <1>3, <1>4, <1>5, CoverStays

LEMMA InitCover == Init => CoverInv
<1> SUFFICES ASSUME Init PROVE CoverInv
    OBVIOUS
<1>1. LoopInv
    BY InitLoop
<1>2. t = 1 /\ r = 1 /\ live = Requests
      /\ out = [i \in DOMAIN batch |-> [q \in Requests |-> <<>>]]
    BY DEF Init
<1>3. Grid(out)
    BY <1>2 DEF Grid
<1>4. \A i \in DOMAIN batch, q \in live : ~Handled(i, q)
    BY <1>1, <1>2 DEF Handled, LoopInv, BatchInv, Requests
<1> QED BY <1>3, <1>4 DEF CoverInv

LEMMA NextCover == IInv /\ LoopInv /\ RightInv /\ CoverInv /\ [Next]_vars => CoverInv'
BY FlushCover, ScatterCover, RespondCover, SetPendingCover, SetDirectCover, FinalCover, RunCopyCover
   DEF Next

\* Finalize() leaves no deferred copies behind.
EmptyInv == pc \in {"returned", "sent"} => deferred = <<>>

LEMMA InitEmpty == Init => EmptyInv
BY DEF Init, EmptyInv

LEMMA NextEmpty == LoopInv /\ EmptyInv /\ [Next]_vars => EmptyInv'
<1> SUFFICES ASSUME LoopInv, EmptyInv, [Next]_vars PROVE EmptyInv'
    OBVIOUS
<1> USE DEF EmptyInv
<1>1. CASE SkipFlush \/ FlushDirect \/ FlushNow \/ FlushDeferred
    BY <1>1 DEF SkipFlush, FlushDirect, FlushNow, FlushDeferred
<1>2. CASE Scatter \/ ScatterDone
    <2>1. pc' \notin {"returned", "sent"}
        <3>1. t \in Int /\ Len(batch) \in Int
            BY SameBatch, <1>2 DEF LoopInv, PcInv, BatchInv
        <3> QED BY <1>2, <3>1 DEF Scatter, ScatterDone
    <2> QED BY <2>1
<1>3. CASE RespondTooFewRows \/ RespondNothing \/ RespondFails \/ SetPending \/ SetDirect
    BY <1>3 DEF RespondTooFewRows, RespondNothing, RespondFails, SetPending, SetDirect,
               SetFixedSizeBuffer, NextResponse
<1>4. CASE EndTensor \/ FinalizeSync \/ FinalizeDeferred
    BY <1>4 DEF EndTensor, FinalizeSync, FinalizeDeferred
<1>5. CASE FinalizeReturn \/ SendResponses
    BY <1>5 DEF FinalizeReturn, SendResponses, finVars
<1>6. CASE Terminating \/ RunCopy \/ UNCHANGED vars
    BY <1>6 DEF Terminating, RunCopy, vars, finVars
<1> QED BY <1>1, <1>2, <1>3, <1>4, <1>5, <1>6 DEF Next

(***************************************************************************)
(* Each response that is sent without an error holds its part of every     *)
(* tensor it asked for, and its states were returned: in a batch of any    *)
(* tensors and sizes, through whatever buffers the bytes went, however the *)
(* stream interleaved, and whatever failed for other responses.            *)
(***************************************************************************)
THEOREM PartsDelivered == Spec => []Scattered
<1>1. IInv /\ LoopInv /\ RightInv /\ CoverInv /\ EmptyInv => Scattered
    <2> SUFFICES ASSUME IInv, LoopInv, RightInv, CoverInv, EmptyInv, pc = "sent",
                        NEW i \in DOMAIN batch, NEW q \in live
                 PROVE  /\ q \in batch[i].wants \/ batch[i].kind = "state" =>
                              out[i][q] = Part(i, q)
                        /\ batch[i].kind = "state" => <<i, q>> \in Range(states)
        BY DEF Scattered
    <2>1. ~Processing /\ stream = <<>>
        BY DEF IInv, FlowInv, StreamInv
    <2>2. Handled(i, q)
        BY <2>1, SameBatch DEF Handled, Processing, LoopInv, PcInv, BatchInv
    <2>3. job.outs = <<>> /\ pend.outs = <<>>
        BY DEF LoopInv, PcInv, NonePending
    <2>4. ~Deferred(i, q)
        BY DOMAIN <<>> = {} DEF EmptyInv, Deferred
    <2>5. ~Queued(stream, i, q)
        BY <2>1, DOMAIN <<>> = {} DEF Queued
    <2>6. Wants(i, q) => Has(out, i, q)
        BY <2>2, <2>3, <2>4, <2>5, WithinNothing DEF CoverInv, Delivered
    <2>7. q \in Requests
        BY DEF LoopInv, LiveInv
    <2>8. AllParts[i][q] = Part(i, q)
        BY <2>7 DEF AllParts
    <2> QED BY <2>2, <2>6, <2>8 DEF CoverInv, Wants, Has
<1> QED BY InitInv, InitLoop, InitRight, InitCover, InitEmpty, NextInv, NextLoop, NextRight,
           NextCover, NextEmpty, <1>1, PTL DEF Spec
=============================================================================
