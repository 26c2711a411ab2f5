------------------------ MODULE InputCollectorProofs ------------------------
(***************************************************************************)
(* The input collector writes the tensors it was given or has allocated    *)
(* only when they may be written, tells its caller to wait for every copy  *)
(* that is in flight, keeps its offsets within its tensors, answers        *)
(* requests with an error for a cause only, and leaves in every tensor the *)
(* bytes of the others: for every batch and configuration.                 *)
(***************************************************************************)
EXTENDS InputCollector, FiniteSetTheorems, SequenceTheorems, TLAPS

(***************************************************************************)
(* Until buffer_ready_event_ has fired nothing is queued on the stream,    *)
(* Finalize() has not passed its own wait, and the tensors still to be     *)
(* processed have no cells: what ProcessTensor puts there is their first   *)
(* contents.                                                               *)
(***************************************************************************)
Untouched(i) == i > t \/ (i = t /\ pc = "begin")

ReadyInv ==
    bufferReady \/ /\ eventSet /\ stream = <<>>
                   /\ pc \notin {"deferred", "returned", "consumed"}
                   /\ \A i \in DOMAIN batch : Untouched(i) => mem[i] = <<>>

FlowInv == t \in Nat /\ DOMAIN batch \subseteq Nat

IInv == FlowInv /\ ReadyInv

Written == \A i \in DOMAIN batch :
              Len(mem[i]) # 0 /\ mem'[i] # mem[i] => bufferReady
-----------------------------------------------------------------------------
LEMMA InitInv == Init => IInv
<1> SUFFICES ASSUME Init PROVE IInv
    OBVIOUS
<1>1. PICK s \in Scenarios : batch = s[1] /\ cfg = s[2]
    BY DEF Init
<1>2. DOMAIN batch \subseteq Nat /\ cfg.ready \in BOOLEAN
    BY <1>1, ScenarioAssumption
<1>3. /\ t = 1 /\ pc = "begin" /\ stream = <<>>
      /\ eventSet = cfg.ready /\ bufferReady = ~cfg.ready
      /\ \A i \in DOMAIN batch : mem[i] = <<>>
    BY DEF Init
<1> QED BY <1>2, <1>3 DEF IInv, FlowInv, ReadyInv

\* t never goes down and the batch stays.
LEMMA FlowStep == FlowInv /\ [Next]_vars => FlowInv'
<1> SUFFICES ASSUME FlowInv, [Next]_vars PROVE FlowInv'
    OBVIOUS
<1>1. batch' = batch
    BY DEF Next, vars, BeginGiven, BeginReused, BeginAllocated, BeginFailed,
           GetNextContiguousInput, InputsExhausted, SkipFlushPinned, FlushPinnedDirect,
           FlushPinnedNow, FlushPinnedDeferred, SkipFlushKernel, LaunchCopyKernel,
           FlushKernelDirect, SetTooLarge, SetPendingPinned, SetPendingKernel, SetDirect,
           NextBuffer, FinalizeSync, FinalizeReady, FinalizeDeferred, FinalizeReturn,
           CallerSync, Terminating, RunCopy, BufferReadyFires
<1>2. t' = t \/ t' = t + 1
    BY DEF Next, vars, collVars, BeginGiven, BeginReused, BeginAllocated, BeginFailed,
           Enter, AdvanceTo, AfterFlush,
           GetNextContiguousInput, InputsExhausted, SkipFlushPinned, FlushPinnedDirect,
           FlushPinnedNow, FlushPinnedDeferred, SkipFlushKernel, LaunchCopyKernel,
           FlushKernelDirect, SetTooLarge, SetPendingPinned, SetPendingKernel, SetDirect,
           NextBuffer, FinalizeSync, FinalizeReady, FinalizeDeferred, FinalizeReturn,
           CallerSync, Terminating, RunCopy, BufferReadyFires
<1> QED BY <1>1, <1>2 DEF FlowInv

\* The steps that copy wait for the event first, so it has fired.
LEMMA WaitStep ==
    ASSUME IInv, WaitBufferReady
    PROVE  ReadyInv' /\ Written
BY DEF IInv, ReadyInv, WaitBufferReady, Written

\* A step that makes no copy and leaves the tensors alone.
LEMMA QuietStep ==
    ASSUME IInv, UNCHANGED <<batch, mem, stream, eventSet>>, bufferReady => bufferReady',
           pc' \notin {"deferred", "returned", "consumed"},
           \/ t' = t /\ (pc' = "begin" => pc = "begin")
           \/ t' = t + 1
    PROVE  ReadyInv' /\ Written
<1>1. \A i \in DOMAIN batch : Untouched(i)' => Untouched(i)
    BY DEF IInv, FlowInv, Untouched
<1> QED BY <1>1 DEF IInv, ReadyInv, Written

\* A tensor gets its first cells.
LEMMA EnterStep ==
    ASSUME IInv, NEW place, NEW bytes, pc = "begin", Enter(place, bytes),
           UNCHANGED <<batch, stream, eventVars>>
    PROVE  ReadyInv' /\ Written
<1>1. /\ \A i : i # t => mem'[i] = mem[i]
      /\ \/ t' = t + 1 /\ pc' \in {"begin", "finalize"}
         \/ t' = t /\ pc' = "next"
    BY DEF Enter, AdvanceTo
<1>2. \A i \in DOMAIN batch : Untouched(i)' => Untouched(i) /\ i # t
    BY <1>1 DEF IInv, FlowInv, Untouched
<1>3. t \in DOMAIN batch => Untouched(t)
    BY DEF Untouched
<1> QED BY <1>1, <1>2, <1>3 DEF IInv, ReadyInv, Written, eventVars

LEMMA ReadyStep == IInv /\ [Next]_vars => ReadyInv' /\ [Written]_vars
<1> SUFFICES ASSUME IInv, [Next]_vars PROVE ReadyInv' /\ Written
    OBVIOUS
<1>1. CASE BeginGiven
    BY <1>1, EnterStep DEF BeginGiven
<1>2. CASE BeginAllocated
    <2>1. PICK k \in DOMAIN Tensor.allowed : Enter(Tensor.allowed[k], Total(Collected(Tensor)))
        BY <1>2 DEF BeginAllocated
    <2> QED BY <1>2, <2>1, EnterStep DEF BeginAllocated
<1>3. CASE \/ FlushPinnedDirect \/ FlushPinnedNow \/ FlushPinnedDeferred \/ LaunchCopyKernel
           \/ FlushKernelDirect \/ SetDirect \/ FinalizeReady
    <2>1. WaitBufferReady
        BY <1>3 DEF FlushPinnedDirect, FlushPinnedNow, FlushPinnedDeferred, LaunchCopyKernel,
                    FlushKernelDirect, SetDirect, FinalizeReady
    <2> QED BY <2>1, WaitStep
<1>4. CASE \/ BeginReused \/ BeginFailed \/ SkipFlushKernel
    <2>1. /\ UNCHANGED <<batch, mem, stream, eventSet, bufferReady>>
          /\ \/ t' = t + 1 /\ pc' \in {"begin", "finalize"}
             \/ t' = t /\ pc' = "set"
        BY <1>4 DEF BeginReused, BeginFailed, SkipFlushKernel, AfterFlush, AdvanceTo, copyVars,
                    eventVars
    <2> QED BY <2>1, QuietStep
<1>5. CASE \/ GetNextContiguousInput \/ InputsExhausted \/ SkipFlushPinned \/ SetTooLarge
           \/ SetPendingPinned \/ SetPendingKernel \/ FinalizeSync
    <2>1. /\ UNCHANGED <<batch, t, mem, stream, eventSet, bufferReady>>
          /\ pc' \in {"pinned", "kernel", "next", "ready"}
        BY <1>5 DEF GetNextContiguousInput, InputsExhausted, SkipFlushPinned, SetTooLarge,
                    SetPendingPinned, SetPendingKernel, NextBuffer, FinalizeSync, collVars,
                    copyVars, eventVars
    <2> QED BY <2>1, QuietStep
<1>6. CASE FinalizeDeferred \/ FinalizeReturn \/ CallerSync \/ Terminating \/ RunCopy
    <2>1. /\ pc \in {"deferred", "returned", "consumed"} \/ stream # <<>>
          /\ bufferReady' = bufferReady
        BY <1>6 DEF FinalizeDeferred, FinalizeReturn, CallerSync, Terminating, RunCopy, eventVars,
                    vars
    <2> QED BY <2>1 DEF IInv, ReadyInv, Written
<1>7. CASE BufferReadyFires
    BY <1>7 DEF BufferReadyFires, copyVars, ReadyInv, Written
<1>8. CASE UNCHANGED vars
    BY <1>8 DEF vars, collVars, copyVars, eventVars, IInv, ReadyInv, Untouched, Written
<1> QED BY <1>1, <1>2, <1>3, <1>4, <1>5, <1>6, <1>7, <1>8 DEF Next

(***************************************************************************)
(* Whatever the batch, no byte of a tensor changes before                  *)
(* buffer_ready_event_ has fired: every handler that copies waits for it,  *)
(* and so does Finalize() before the deferred copies.                      *)
(***************************************************************************)
THEOREM WrittenWhenReady == Spec => TensorWrittenWhenReady
<1>1. IInv /\ [Next]_vars => IInv' /\ [Written]_vars
    BY FlowStep, ReadyStep DEF IInv
<1> QED BY InitInv, <1>1, PTL DEF Spec, TensorWrittenWhenReady, Written
-----------------------------------------------------------------------------
(***************************************************************************)
(* Sequences of whatever.                                                  *)
(***************************************************************************)
IsSequence(s) == \E S : s \in Seq(S)

\* Appending makes a sequence one longer.
LEMMA AppendFacts ==
    ASSUME NEW s, IsSequence(s), NEW e
    PROVE  /\ IsSequence(Append(s, e))
           /\ Append(s, e) # <<>> /\ Len(s) \in Nat /\ Len(Append(s, e)) = Len(s) + 1
<1> PICK S : s \in Seq(S)
    BY DEF IsSequence
<1>1. s \in Seq(S \cup {e})
    BY SeqMonotonic
<1>2. Append(s, e) \in Seq(S \cup {e})
    BY <1>1
<1> QED BY <1>1, <1>2 DEF IsSequence

\* Taking the first element away makes it one shorter.
LEMMA TailFacts ==
    ASSUME NEW s, IsSequence(s), s # <<>>
    PROVE  /\ IsSequence(Tail(s))
           /\ Len(s) \in Nat \ {0} /\ Len(Tail(s)) = Len(s) - 1
<1> PICK S : s \in Seq(S)
    BY DEF IsSequence
<1> QED BY HeadTailProperties, EmptySeq DEF IsSequence

\* Replacing an element keeps the length.
LEMMA ExceptFacts ==
    ASSUME NEW s, IsSequence(s), NEW i, NEW e
    PROVE  IsSequence([s EXCEPT ![i] = e]) /\ Len([s EXCEPT ![i] = e]) = Len(s)
<1> PICK S : s \in Seq(S)
    BY DEF IsSequence
<1>1. s \in Seq(S \cup {e})
    BY SeqMonotonic
<1>2. s \in [1 .. Len(s) -> S \cup {e}] /\ Len(s) \in Nat
    BY <1>1, LenProperties
<1>3. [s EXCEPT ![i] = e] \in [1 .. Len(s) -> S \cup {e}]
    BY <1>2
<1>4. [s EXCEPT ![i] = e] \in Seq(S \cup {e}) /\ Len([s EXCEPT ![i] = e]) = Len(s)
    BY <1>2, <1>3, LenProperties
<1> QED BY <1>4 DEF IsSequence

\* The length, and the sequence without elements.
LEMMA LenFacts ==
    ASSUME NEW s, IsSequence(s)
    PROVE  Len(s) \in Nat /\ (Len(s) = 0 <=> s = <<>>) /\ DOMAIN s = 1 .. Len(s)
BY EmptySeq, LenProperties DEF IsSequence

LEMMA EmptyFacts == IsSequence(<<>>) /\ Len(<<>>) = 0
<1>1. <<>> \in Seq({}) /\ Len(<<>>) = 0
    OBVIOUS
<1> QED BY <1>1 DEF IsSequence
-----------------------------------------------------------------------------
(***************************************************************************)
(* What a series of copies keeps, from its start a to its result b: there  *)
(* are as many buffers, copies on the stream are only added, cuda says     *)
(* whether there are any, and requests are only answered.                  *)
(***************************************************************************)
IsState(st) ==
    /\ st = [mem |-> st.mem, stream |-> st.stream, live |-> st.live, cuda |-> st.cuda]
    /\ IsSequence(st.mem) /\ IsSequence(st.stream) /\ st.cuda \in BOOLEAN

Kept(a, b) ==
    /\ IsState(b)
    /\ Len(b.mem) = Len(a.mem)
    /\ Len(a.stream) <= Len(b.stream)
    /\ ~b.cuda => b.stream = a.stream /\ ~a.cuda
    /\ b.live \subseteq a.live

\* Nothing done keeps it all.
LEMMA KeptBySame ==
    ASSUME NEW a, IsState(a) PROVE Kept(a, a)
BY LenFacts DEF IsState, Kept

LEMMA KeptByBoth ==
    ASSUME NEW a, NEW b, NEW c, IsState(a), Kept(a, b), Kept(b, c) PROVE Kept(a, c)
<1>1. Len(a.stream) \in Nat /\ Len(b.stream) \in Nat /\ Len(c.stream) \in Nat
    BY LenFacts DEF Kept, IsState
<1> QED BY <1>1 DEF Kept

LEMMA KeptByAnswer ==
    ASSUME NEW a, IsState(a), NEW reqs PROVE Kept(a, [a EXCEPT !.live = @ \ reqs])
<1> DEFINE b == [a EXCEPT !.live = @ \ reqs]
<1>1. /\ b.mem = a.mem /\ b.stream = a.stream /\ b.live = a.live \ reqs /\ b.cuda = a.cuda
      /\ b = [mem |-> b.mem, stream |-> b.stream, live |-> b.live, cuda |-> b.cuda]
    BY DEF IsState
<1> HIDE DEF b
<1>2. IsState(b)
    BY <1>1 DEF IsState
<1>3. Len(a.stream) \in Nat
    BY LenFacts DEF IsState
<1> QED BY <1>1, <1>2, <1>3 DEF Kept, b

\* One copy, made at once or queued or failing.
LEMMA KeptByCopyBuffer ==
    ASSUME NEW a, IsState(a), NEW op, NEW mode \in {"host", "stream"}, NEW fails \in BOOLEAN, NEW reqs
    PROVE  Kept(a, CopyBuffer(a, op, mode, fails, reqs))
<1> DEFINE b == CopyBuffer(a, op, mode, fails, reqs)
<1>1. CASE fails
    <2>1. b = [a EXCEPT !.live = @ \ reqs]
        BY <1>1 DEF CopyBuffer
    <2> QED BY <2>1, KeptByAnswer
<1>2. CASE ~fails /\ mode = "host"
    <2>1. b = [a EXCEPT !.mem = Perform(@, op)]
        BY <1>2 DEF CopyBuffer
    <2>2. IsSequence(Perform(a.mem, op)) /\ Len(Perform(a.mem, op)) = Len(a.mem)
        BY ExceptFacts DEF Perform, IsState
    <2> HIDE DEF b
    <2>3. /\ b.mem = Perform(a.mem, op) /\ b.stream = a.stream /\ b.live = a.live
          /\ b.cuda = a.cuda
          /\ b = [mem |-> b.mem, stream |-> b.stream, live |-> b.live, cuda |-> b.cuda]
        BY <2>1 DEF IsState
    <2>4. Kept(a, b)
        BY <2>2, <2>3, LenFacts DEF Kept, IsState
    <2> QED BY <2>4 DEF b
<1>3. CASE ~fails /\ mode = "stream"
    <2>1. b = [a EXCEPT !.stream = Append(@, op), !.cuda = TRUE]
        BY <1>3 DEF CopyBuffer
    <2>2. /\ IsSequence(Append(a.stream, op)) /\ Len(a.stream) \in Nat
          /\ Len(Append(a.stream, op)) = Len(a.stream) + 1
        BY AppendFacts DEF IsState
    <2> HIDE DEF b
    <2>3. /\ b.mem = a.mem /\ b.stream = Append(a.stream, op) /\ b.live = a.live
          /\ b.cuda = TRUE
          /\ b = [mem |-> b.mem, stream |-> b.stream, live |-> b.live, cuda |-> b.cuda]
        BY <2>1 DEF IsState
    <2>4. IsState(b)
        BY <2>2, <2>3 DEF IsState
    <2>5. /\ Len(b.mem) = Len(a.mem) /\ Len(a.stream) <= Len(b.stream)
          /\ b.cuda /\ b.live \subseteq a.live
        BY <2>2, <2>3
    <2>6. Kept(a, b)
        BY <2>4, <2>5 DEF Kept
    <2> QED BY <2>6 DEF b
<1> QED BY <1>1, <1>2, <1>3

LEMMA KeptByDirectCopy ==
    ASSUME NEW a, IsState(a), NEW b, NEW dst, NEW place, NEW off, NEW fails \in BOOLEAN
    PROVE  Kept(a, DirectCopy(a, b, dst, place, off, fails))
<1>1. CopyMode(MemoryType(b.place), MemoryType(place), cfg.copyOnStream) \in {"host", "stream"}
    BY DEF CopyMode
<1>2. CASE Overflows(off, b.size, Len(a.mem[dst]))
    BY <1>2, KeptByAnswer DEF DirectCopy
<1>3. CASE ~Overflows(off, b.size, Len(a.mem[dst]))
    BY <1>1, <1>3, KeptByCopyBuffer DEF DirectCopy
<1> QED BY <1>2, <1>3
-----------------------------------------------------------------------------
(***************************************************************************)
(* The copies of one handler, one by one.                                  *)
(***************************************************************************)
CopyOne(st, c) == DirectCopy(st, c.buf, c.dst, c.place, c.off, c.fails)
Copying == INSTANCE FoldTheorems WITH Op <- CopyOne

CopyOf(bufs, dst, place, base, F, i) ==
    [buf |-> bufs[i], dst |-> dst, place |-> place,
     off |-> base + SizeBefore(bufs, i), fails |-> i \in F]

\* h[k] is what the first k copies result in.
InOrder(h, n, st, bufs, dst, place, base, F) ==
    /\ h[0] = st
    /\ \A k \in 1 .. n : h[k] = DirectCopy(h[k - 1], bufs[k], dst, place,
                                          base + SizeBefore(bufs, k), k \in F)

\* CopyAll makes its copies in the order of the buffers.
LEMMA CopyAllInOrder ==
    ASSUME NEW n \in Nat, NEW bufs, DOMAIN bufs = 1 .. n,
           NEW st, NEW dst, NEW place, NEW base, NEW F
    PROVE  \E h : /\ InOrder(h, n, st, bufs, dst, place, base, F)
                 /\ CopyAll(st, bufs, dst, place, base, F) = h[n]
<1> DEFINE S == 1 .. n
           arg == [i \in S |-> CopyOf(bufs, dst, place, base, F, i)]
           index == [i \in DOMAIN bufs |-> i]
           Is(f) == f = [s \in SUBSET DOMAIN index |->
               IF s = {} THEN st
               ELSE LET x == Max(s)
                    IN  DirectCopy(f[s \ {x}], bufs[index[x]], dst, place,
                                   base + SizeBefore(bufs, index[x]), index[x] \in F)]
           fold == CHOOSE f : Is(f)
<1>1. CopyAll(st, bufs, dst, place, base, F) = fold[DOMAIN index]
    BY DEF CopyAll, FoldLeftDomain, FoldLeft, MapThenFoldSet
<1>2. DOMAIN index = S
    OBVIOUS
<1>3. ASSUME NEW s \in SUBSET S, s # {}
      PROVE  /\ Max(s) = Copying!Largest(s) /\ Max(s) \in S /\ index[Max(s)] = Max(s)
             /\ arg[Max(s)] = CopyOf(bufs, dst, place, base, F, Max(s))
    <2>1. Max(s) = Copying!Largest(s)
        BY DEF Max, Copying!Largest
    <2>2. Max(s) \in S
        BY <1>3, <2>1, Copying!LargestExists
    <2> QED BY <2>1, <2>2
<1>4. ASSUME NEW f PROVE Is(f) <=> Copying!IsIndexFold(f, S, arg, st)
    <2>1. ASSUME NEW s \in SUBSET S, s # {}
          PROVE  CopyOne(f[s \ {Copying!Largest(s)}], arg[Copying!Largest(s)])
                     = DirectCopy(f[s \ {Max(s)}], bufs[index[Max(s)]], dst, place,
                                  base + SizeBefore(bufs, index[Max(s)]), index[Max(s)] \in F)
        <3> DEFINE i == Max(s)
        <3>1. /\ i = Copying!Largest(s) /\ index[i] = i
              /\ arg[i] = CopyOf(bufs, dst, place, base, F, i)
            BY <1>3, <2>1
        <3> HIDE DEF S, arg, index, i
        <3>2. CopyOne(f[s \ {i}], arg[i])
                  = DirectCopy(f[s \ {i}], bufs[i], dst, place, base + SizeBefore(bufs, i), i \in F)
            <4>1. LET c == CopyOf(bufs, dst, place, base, F, i)
                  IN  /\ c.buf = bufs[i] /\ c.dst = dst /\ c.place = place
                      /\ c.off = base + SizeBefore(bufs, i) /\ c.fails = (i \in F)
                BY DEF CopyOf
            <4> QED BY <3>1, <4>1 DEF CopyOne
        <3> QED BY <3>1, <3>2 DEF i
    <2> HIDE DEF arg, index, S
    <2> QED BY <1>2, <2>1 DEF Copying!IsIndexFold
<1>5. \E f : Is(f)
    <2>1. PICK f : Copying!IsIndexFold(f, 1 .. n, arg, st)
        <3> HIDE DEF arg
        <3> QED BY Copying!IndexFoldExists
    <2> HIDE DEF Is
    <2> QED BY <1>4, <2>1
<1>6. Is(fold)
    <2> HIDE DEF Is
    <2> QED BY <1>5
<1> HIDE DEF fold
<1>7. Copying!IsIndexFold(fold, 1 .. n, arg, st)
    <2> HIDE DEF Is, arg
    <2> QED BY <1>4, <1>6
<1> DEFINE h == [k \in 0 .. n |-> fold[1 .. k]]
<1>8. Copying!IsChain(h, n, arg, st)
    <2> HIDE DEF arg
    <2> QED BY <1>7, Copying!IndexFoldIsChain
<1>9. h[n] = fold[DOMAIN index]
    BY <1>2
<1> HIDE DEF h, index
<1>10. InOrder(h, n, st, bufs, dst, place, base, F)
    <2>1. h[0] = st /\ \A k \in 1 .. n : h[k] = CopyOne(h[k - 1], arg[k])
        BY <1>8 DEF Copying!IsChain
    <2>2. ASSUME NEW k \in 1 .. n
          PROVE  h[k] = DirectCopy(h[k - 1], bufs[k], dst, place,
                                   base + SizeBefore(bufs, k), k \in F)
        <3>1. /\ arg[k].buf = bufs[k] /\ arg[k].dst = dst /\ arg[k].place = place
              /\ arg[k].off = base + SizeBefore(bufs, k) /\ arg[k].fails = (k \in F)
            BY DEF CopyOf
        <3> HIDE DEF arg
        <3> QED BY <2>1, <3>1 DEF CopyOne
    <2> QED BY <2>1, <2>2 DEF InOrder
<1> QED BY <1>1, <1>9, <1>10

\* So a series of them keeps what each of them keeps.
LEMMA KeptByCopyAll ==
    ASSUME NEW a, IsState(a), NEW bufs, IsSequence(bufs), NEW dst, NEW place, NEW base, NEW F
    PROVE  Kept(a, CopyAll(a, bufs, dst, place, base, F))
<1> DEFINE n == Len(bufs)
<1>1. n \in Nat /\ DOMAIN bufs = 1 .. n
    BY LenFacts
<1>2. PICK h : /\ InOrder(h, n, a, bufs, dst, place, base, F)
               /\ CopyAll(a, bufs, dst, place, base, F) = h[n]
    <2> HIDE DEF n
    <2> QED BY <1>1, CopyAllInOrder
<1> DEFINE T == {k \in Nat : k <= n => Kept(a, h[k])}
<1>3. 0 \in T
    BY <1>2, KeptBySame DEF InOrder
<1>4. \A k \in Nat : k \in T => k + 1 \in T
    <2> SUFFICES ASSUME NEW k \in Nat, k <= n => Kept(a, h[k]), k + 1 <= n
                 PROVE  Kept(a, h[k + 1])
        OBVIOUS
    <2>1. k + 1 \in 1 .. n /\ (k + 1) - 1 = k /\ Kept(a, h[k])
        BY <1>1
    <2>2. h[k + 1] = DirectCopy(h[k], bufs[k + 1], dst, place,
                               base + SizeBefore(bufs, k + 1), k + 1 \in F)
        BY <1>2, <2>1 DEF InOrder
    <2>3. IsState(h[k]) /\ (k + 1 \in F) \in BOOLEAN
        BY <2>1 DEF Kept
    <2> HIDE DEF n
    <2>4. Kept(h[k], h[k + 1])
        BY <2>2, <2>3, KeptByDirectCopy
    <2> QED BY <2>1, <2>4, KeptByBoth
<1> HIDE DEF T
<1>5. \A k \in Nat : k \in T
    BY <1>3, <1>4, Copying!NaturalInduction
<1> QED BY <1>1, <1>2, <1>5 DEF T
-----------------------------------------------------------------------------
(***************************************************************************)
(* The flag covers the stream, and the event does where it was recorded    *)
(* last: at the end of each tensor and of Finalize(), so that what is      *)
(* queued in between is not yet covered by it.                             *)
(***************************************************************************)
Recorded == needSync /\ cfg.event => mark = Len(stream)

SyncInv ==
    /\ IsSequence(stream) /\ IsSequence(mem) /\ IsSequence(deferred)
    /\ IsSequence(pend.bufs) /\ IsSequence(kern.bufs)
    /\ needSync \in BOOLEAN /\ finalized \in Nat
    /\ mark \in Nat /\ mark <= Len(stream)
    /\ stream # <<>> => needSync
    /\ pc \in {"begin", "finalize", "ready", "returned"} \/ (pc = "deferred" /\ deferred = <<>>)
           => Recorded

LEMMA SyncInit == Init => SyncInv
<1> SUFFICES ASSUME Init PROVE SyncInv
    OBVIOUS
<1>1. PICK s \in Scenarios : batch = s[1]
    BY DEF Init
<1>2. IsSequence([i \in DOMAIN batch |-> <<>>])
    <2>1. Len(batch) \in Nat /\ DOMAIN batch = 1 .. Len(batch)
        BY <1>1, ScenarioAssumption
    <2>2. [i \in DOMAIN batch |-> <<>>] \in Seq({<<>>})
        BY <2>1
    <2> QED BY <2>2 DEF IsSequence
<1>3. /\ stream = <<>> /\ mem = [i \in DOMAIN batch |-> <<>>] /\ deferred = <<>> /\ mark = 0
      /\ pend.bufs = <<>> /\ kern.bufs = <<>> /\ needSync = FALSE /\ finalized = 0
    BY DEF Init, NonePending
<1>4. IsSequence(stream) /\ Len(stream) = 0
    BY <1>3, EmptyFacts
<1>5. /\ IsSequence(mem) /\ IsSequence(deferred) /\ IsSequence(pend.bufs) /\ IsSequence(kern.bufs)
    BY <1>2, <1>3, EmptyFacts
<1>6. mark \in Nat /\ mark <= Len(stream)
    BY <1>3, <1>4
<1> QED BY <1>3, <1>4, <1>5, <1>6 DEF SyncInv, Recorded

\* What the copies of a handler start with.
LEMMA StartState == SyncInv => IsState(Start) /\ Start.cuda = FALSE
BY DEF SyncInv, IsState, Start

\* Copies made from any start that queues what Start does.
LEMMA EffectKeeps ==
    ASSUME SyncInv, NEW a, NEW b, Kept(a, b), a.stream = stream, Effect(b)
    PROVE  /\ IsSequence(stream') /\ IsSequence(mem') /\ needSync' \in BOOLEAN
           /\ Len(stream) <= Len(stream')
           /\ Len(stream) \in Nat /\ Len(stream') \in Nat
           /\ stream' # <<>> => needSync'
           /\ Len(mem') = Len(a.mem) /\ live' \subseteq a.live
<1>1. stream' = b.stream /\ mem' = b.mem /\ live' = b.live /\ needSync' = (needSync \/ b.cuda)
    BY DEF Effect
<1>2. Len(stream) \in Nat /\ Len(b.stream) \in Nat
    BY LenFacts DEF SyncInv, Kept, IsState
<1> QED BY <1>1, <1>2 DEF SyncInv, Kept, IsState

\* The copy from a pinned buffer.
LEMMA CopyFromPinnedKeeps ==
    ASSUME NEW a, IsState(a), NEW def, NEW onStream, NEW fails \in BOOLEAN
    PROVE  Kept(a, CopyFromPinned(a, def, onStream, fails))
<1>1. CopyMode("CPU_PINNED", MemoryType(view[def.dst].place), onStream) \in {"host", "stream"}
    BY DEF CopyMode
<1> QED BY <1>1, KeptByCopyBuffer DEF CopyFromPinned

\* Staging adds the pinned buffer.
LEMMA StagedKeeps ==
    ASSUME SyncInv, NEW F
    PROVE  \E a : /\ IsState(a) /\ Kept(a, Staged(F)) /\ a.stream = stream /\ a.live = live
                 /\ a.cuda = FALSE
                 /\ a.mem = Append(mem, [i \in 1 .. pend.size |-> Junk])
                 /\ Len(a.mem) = Len(mem) + 1
<1> DEFINE cells == [i \in 1 .. pend.size |-> Junk]
           s == Start
           a == [s EXCEPT !.mem = Append(@, cells)]
<1> HIDE DEF cells
<1>0. /\ s.mem = mem /\ s.stream = stream /\ s.live = live /\ s.cuda = FALSE
      /\ s = [mem |-> s.mem, stream |-> s.stream, live |-> s.live, cuda |-> s.cuda]
    BY DEF Start
<1>1. /\ a.stream = stream /\ a.live = live /\ a.cuda = FALSE /\ a.mem = Append(mem, cells)
      /\ a = [mem |-> a.mem, stream |-> a.stream, live |-> a.live, cuda |-> a.cuda]
    <2> HIDE DEF s
    <2> QED BY <1>0
<1>2. Staged(F) = CopyAll(a, pend.bufs, Len(mem) + 1, "CPU_PINNED", 0, F)
    BY DEF Staged, cells
<1>3. IsSequence(Append(mem, cells)) /\ Len(Append(mem, cells)) = Len(mem) + 1
    BY AppendFacts DEF SyncInv
<1> HIDE DEF a
<1>4. IsState(a)
    BY <1>1, <1>3 DEF IsState, SyncInv
<1>5. Kept(a, Staged(F))
    BY <1>2, <1>4, KeptByCopyAll DEF SyncInv
<1> QED BY <1>1, <1>3, <1>4, <1>5 DEF cells

-----------------------------------------------------------------------------
\* Steps that queue no copy and record no event.
LEMMA SyncQuietStep ==
    ASSUME SyncInv, UNCHANGED <<cfg, stream, needSync, mark>>, IsSequence(mem'),
           IsSequence(deferred'), IsSequence(pend.bufs'), IsSequence(kern.bufs'), finalized' \in Nat,
           pc' \in {"begin", "finalize", "ready", "returned"} \/ (pc' = "deferred" /\ deferred' = <<>>)
               => Recorded
    PROVE  SyncInv'
BY DEF SyncInv, Recorded

LEMMA SyncBeginStep ==
    ASSUME SyncInv, BeginGiven \/ BeginReused \/ BeginAllocated \/ BeginFailed PROVE SyncInv'
<1>1. ASSUME NEW place, NEW bytes, Enter(place, bytes) PROVE IsSequence(mem')
    <2> DEFINE cells == [i \in 1 .. bytes |-> Junk]
    <2>1. mem' = [mem EXCEPT ![t] = cells]
        BY <1>1 DEF Enter
    <2> HIDE DEF cells
    <2> QED BY <2>1, ExceptFacts DEF SyncInv
<1>2. IsSequence(mem')
    <2>1. CASE BeginGiven
        BY <1>1, <2>1 DEF BeginGiven
    <2>2. CASE BeginAllocated
        BY <1>1, <2>2 DEF BeginAllocated
    <2>3. CASE BeginReused \/ BeginFailed
        BY <2>3 DEF BeginReused, BeginFailed, copyVars, SyncInv
    <2> QED BY <2>1, <2>2, <2>3
<1>3. /\ pc = "begin" /\ UNCHANGED <<cfg, stream, needSync, mark, deferred, finalized, pend, kern>>
    BY DEF BeginGiven, BeginReused, BeginAllocated, BeginFailed, copyVars, finVars
<1>4. UNCHANGED <<pend.bufs, kern.bufs>>
    BY <1>3
<1> QED BY <1>2, <1>3, <1>4, SyncQuietStep DEF SyncInv

LEMMA SyncQuietSteps ==
    ASSUME SyncInv,
           \/ GetNextContiguousInput \/ InputsExhausted \/ SkipFlushPinned
           \/ SetTooLarge \/ SetPendingPinned \/ SetPendingKernel
           \/ FinalizeReady \/ CallerSync \/ Terminating \/ BufferReadyFires \/ UNCHANGED vars
    PROVE  SyncInv'
<1>1. UNCHANGED <<cfg, stream, needSync, mark, mem, deferred, finalized>>
    BY DEF GetNextContiguousInput, InputsExhausted, SkipFlushPinned, NextBuffer,
           SetTooLarge, SetPendingPinned, SetPendingKernel,
           FinalizeReady, CallerSync, Terminating, BufferReadyFires, vars, copyVars, finVars
<1>2. \/ pc' = pc
      \/ pc' \in {"next", "pinned", "kernel", "consumed"}
      \/ pc = "ready" /\ pc' = "deferred"
    BY DEF GetNextContiguousInput, InputsExhausted, SkipFlushPinned, NextBuffer,
           SetTooLarge, SetPendingPinned, SetPendingKernel,
           FinalizeReady, CallerSync, Terminating, BufferReadyFires, vars
<1>3. /\ pend' = pend \/ pend' = Pending(pend)
      /\ kern' = kern \/ kern' = Pending(kern)
    BY DEF GetNextContiguousInput, InputsExhausted, SkipFlushPinned, NextBuffer,
           SetTooLarge, SetPendingPinned, SetPendingKernel,
           FinalizeReady, CallerSync, Terminating, BufferReadyFires, vars, collVars
<1>4. \A p : IsSequence(p.bufs) => IsSequence(Pending(p).bufs)
    BY AppendFacts DEF Pending
<1>5. IsSequence(pend.bufs') /\ IsSequence(kern.bufs')
    BY <1>3, <1>4 DEF SyncInv
<1> QED BY <1>1, <1>2, <1>5, SyncQuietStep DEF SyncInv

\* Steps that copy before the tensor is done.
LEMMA SyncCopyStep ==
    ASSUME SyncInv, NEW a, NEW b, Kept(a, b), a.stream = stream, Effect(b),
           UNCHANGED <<cfg, mark>>, pc' \notin {"begin", "finalize", "ready", "returned"},
           pc' = "deferred" => deferred' # <<>>,
           IsSequence(deferred'), IsSequence(pend.bufs'), IsSequence(kern.bufs'), finalized' \in Nat
    PROVE  SyncInv'
<1>1. mark \in Nat /\ mark <= Len(stream)
    BY DEF SyncInv
<1>2. /\ IsSequence(stream') /\ IsSequence(mem') /\ needSync' \in BOOLEAN
      /\ mark' \in Nat /\ mark' <= Len(stream')
      /\ stream' # <<>> => needSync'
    BY <1>1, EffectKeeps
<1> QED BY <1>2 DEF SyncInv

LEMMA SyncFlushPinnedStep ==
    ASSUME SyncInv, FlushPinnedDirect \/ FlushPinnedNow \/ FlushPinnedDeferred PROVE SyncInv'
<1>1. /\ UNCHANGED <<cfg, mark, finalized, kern>> /\ pc' = "kernel" /\ pend' = NonePending
      /\ deferred' = deferred \/ deferred' = Append(deferred, Deferred)
    BY DEF FlushPinnedDirect, FlushPinnedNow, FlushPinnedDeferred, finVars, PinnedHandled
<1>2. IsSequence(deferred') /\ IsSequence(pend.bufs') /\ IsSequence(kern.bufs') /\ finalized' \in Nat
    BY <1>1, AppendFacts, EmptyFacts DEF SyncInv, NonePending
<1>3. CASE FlushPinnedDirect
    <2>1. PICK F : Effect(CopyAll(Start, pend.bufs, t, Place, pend.off, F))
        BY <1>3 DEF FlushPinnedDirect
    <2>2. Kept(Start, CopyAll(Start, pend.bufs, t, Place, pend.off, F)) /\ Start.stream = stream
        BY StartState, KeptByCopyAll DEF SyncInv, Start
    <2> QED BY <1>1, <1>2, <2>1, <2>2, SyncCopyStep
<1>4. CASE FlushPinnedNow
    <2>1. PICK F \in SUBSET Breakable(pend.bufs, "CPU_PINNED"), fails \in FinalFaults(t) :
              Effect(CopyFromPinned(Staged(F), Deferred, cfg.copyOnStream, fails))
        BY <1>4 DEF FlushPinnedNow
    <2>2. PICK a : IsState(a) /\ Kept(a, Staged(F)) /\ a.stream = stream
        BY StagedKeeps
    <2>3. fails \in BOOLEAN /\ IsState(Staged(F))
        BY <2>2 DEF FinalFaults, Kept
    <2>4. Kept(a, CopyFromPinned(Staged(F), Deferred, cfg.copyOnStream, fails))
        BY <2>2, <2>3, CopyFromPinnedKeeps, KeptByBoth
    <2> QED BY <1>1, <1>2, <2>1, <2>2, <2>4, SyncCopyStep
<1>5. CASE FlushPinnedDeferred
    <2>1. PICK F : Effect(Staged(F))
        BY <1>5 DEF FlushPinnedDeferred
    <2>2. PICK a : IsState(a) /\ Kept(a, Staged(F)) /\ a.stream = stream
        BY StagedKeeps
    <2> QED BY <1>1, <1>2, <2>1, <2>2, SyncCopyStep
<1> QED BY <1>3, <1>4, <1>5

LEMMA SyncDirectStep == ASSUME SyncInv, SetDirect PROVE SyncInv'
<1>1. PICK F : Effect(DirectCopy(Start, cur, t, Place, offset, F # {}))
    BY DEF SetDirect
<1>2. Kept(Start, DirectCopy(Start, cur, t, Place, offset, F # {})) /\ Start.stream = stream
    BY StartState, KeptByDirectCopy DEF Start
<1>3. pc' = "next" /\ UNCHANGED <<cfg, mark, deferred, finalized, pend, kern>>
    BY DEF SetDirect, NextBuffer, finVars
<1>4. UNCHANGED <<pend.bufs, kern.bufs>>
    BY <1>3
<1> QED BY <1>1, <1>2, <1>3, <1>4, SyncCopyStep DEF SyncInv

LEMMA SyncDeferredStep == ASSUME SyncInv, FinalizeDeferred PROVE SyncInv'
<1> DEFINE def == deferred[finalized + 1]
<1>1. PICK fails \in FinalFaults(def.dst) : Effect(CopyFromPinned(Start, def, FALSE, fails))
    BY DEF FinalizeDeferred
<1>2. Kept(Start, CopyFromPinned(Start, def, FALSE, fails)) /\ Start.stream = stream
    BY StartState, CopyFromPinnedKeeps DEF FinalFaults, Start
<1>3. /\ pc = "deferred" /\ finalized < Len(deferred) /\ finalized' = finalized + 1
      /\ UNCHANGED <<cfg, pc, mark, deferred, pend, kern>>
    BY DEF FinalizeDeferred, collVars
<1>4. deferred' # <<>> /\ UNCHANGED <<pend.bufs, kern.bufs>>
    BY <1>3, LenFacts DEF SyncInv
<1> HIDE DEF def
<1>5. /\ IsSequence(deferred') /\ IsSequence(pend.bufs') /\ IsSequence(kern.bufs')
      /\ finalized' \in Nat /\ pc' \notin {"begin", "finalize", "ready", "returned"}
    BY <1>3, <1>4 DEF SyncInv
<1> QED BY <1>1, <1>2, <1>3, <1>4, <1>5, SyncCopyStep

(***************************************************************************)
(* Behind the last flush of a tensor the event is recorded.                *)
(***************************************************************************)
LEMMA SyncFlushKernelStep ==
    ASSUME SyncInv, SkipFlushKernel \/ LaunchCopyKernel \/ FlushKernelDirect PROVE SyncInv'
<1>1. /\ UNCHANGED <<cfg, deferred, finalized, pend>> /\ kern' \in {kern, NonePending} /\ AfterFlush
    BY DEF SkipFlushKernel, LaunchCopyKernel, FlushKernelDirect, finVars
<1>2. /\ UNCHANGED pend.bufs /\ IsSequence(kern.bufs')
    BY <1>1, EmptyFacts DEF SyncInv, NonePending
<1>3. /\ IsSequence(stream') /\ IsSequence(mem') /\ needSync' \in BOOLEAN
      /\ Len(stream) <= Len(stream')
      /\ Len(stream) \in Nat /\ Len(stream') \in Nat
      /\ stream' # <<>> => needSync'
    <2>1. CASE SkipFlushKernel
        <3>1. UNCHANGED <<stream, mem, needSync>>
            BY <2>1 DEF SkipFlushKernel, copyVars
        <3> QED BY <3>1, LenFacts DEF SyncInv
    <2>2. CASE LaunchCopyKernel
        <3>1. Effect(Gather(Start)) /\ Start.stream = stream
            BY <2>2 DEF LaunchCopyKernel, Start
        <3>2. Kept(Start, Gather(Start))
            BY StartState, KeptByCopyBuffer DEF Gather
        <3> QED BY <3>1, <3>2, EffectKeeps
    <2>3. CASE FlushKernelDirect
        <3>1. PICK F : Effect(CopyAll(Start, kern.bufs, t, Place, kern.off, F))
            BY <2>3 DEF FlushKernelDirect
        <3>2. Kept(Start, CopyAll(Start, kern.bufs, t, Place, kern.off, F)) /\ Start.stream = stream
            BY StartState, KeptByCopyAll DEF SyncInv, Start
        <3> QED BY <3>1, <3>2, EffectKeeps
    <2> QED BY <2>1, <2>2, <2>3
<1>4. /\ mark' \in Nat /\ mark' <= Len(stream')
      /\ pc' # "set" => Recorded'
      /\ pc' \in {"set", "begin", "finalize"}
    <2>1. CASE cur = NoBuffer
        <3>1. /\ mark' = IF needSync' /\ cfg.event THEN Len(stream') ELSE mark
              /\ pc' \in {"begin", "finalize"}
            BY <1>1, <2>1 DEF AfterFlush, RecordEvent, AdvanceTo
        <3> QED BY <1>1, <1>3, <3>1 DEF SyncInv, Recorded
    <2>2. CASE cur # NoBuffer
        <3>1. mark' = mark /\ pc' = "set"
            BY <1>1, <2>2 DEF AfterFlush
        <3> QED BY <1>1, <1>3, <3>1 DEF SyncInv
    <2> QED BY <2>1, <2>2
<1> QED BY <1>1, <1>2, <1>3, <1>4 DEF SyncInv

(***************************************************************************)
(* Finalize() clears the flag only when nothing is queued any more.        *)
(***************************************************************************)
LEMMA SyncFinalizeStep == ASSUME SyncInv, FinalizeSync \/ FinalizeReturn PROVE SyncInv'
<1>1. UNCHANGED <<cfg, mem, stream, deferred, finalized, pend, kern>>
    BY DEF FinalizeSync, FinalizeReturn, collVars, copyVars, finVars
<1>2. UNCHANGED <<pend.bufs, kern.bufs>>
    BY <1>1
<1>3. Len(stream) \in Nat /\ (Len(stream) = 0 <=> stream = <<>>)
    BY LenFacts DEF SyncInv
<1>4. CASE FinalizeSync
    <2>1. pc = "finalize" /\ pc' = "ready" /\ mark' = mark
        BY <1>4 DEF FinalizeSync
    <2>2. CASE deferred # <<>> /\ needSync
        <3>1. stream = <<>> /\ needSync' = FALSE
            BY <1>3, <1>4, <2>2 DEF FinalizeSync, Synchronized, SyncInv, Recorded
        <3> QED BY <1>1, <1>2, <2>1, <3>1 DEF SyncInv, Recorded
    <2>3. CASE ~(deferred # <<>> /\ needSync)
        <3>1. needSync' = needSync
            BY <1>4, <2>3 DEF FinalizeSync
        <3> QED BY <1>1, <1>2, <2>1, <3>1, SyncQuietStep DEF SyncInv
    <2> QED BY <2>2, <2>3
<1>5. CASE FinalizeReturn
    <2>1. /\ pc = "deferred" /\ pc' = "returned" /\ needSync' = needSync
          /\ mark' = IF (deferred # <<>> /\ needSync) /\ cfg.event THEN Len(stream) ELSE mark
        BY <1>5 DEF FinalizeReturn, RecordEvent, copyVars
    <2> QED BY <1>1, <1>2, <1>3, <2>1 DEF SyncInv, Recorded
<1> QED BY <1>4, <1>5

LEMMA SyncRunStep == ASSUME SyncInv, RunCopy PROVE SyncInv'
<1>1. /\ stream # <<>> /\ stream' = Tail(stream)
      /\ mark' = IF mark = 0 THEN 0 ELSE mark - 1
      /\ mem' = Perform(mem, Head(stream))
      /\ UNCHANGED <<cfg, pc, deferred, finalized, pend, kern, needSync>>
    BY DEF RunCopy, collVars, finVars
<1>2. /\ IsSequence(stream')
      /\ Len(stream) \in Nat \ {0} /\ Len(stream') = Len(stream) - 1
    BY <1>1, TailFacts DEF SyncInv
<1>3. IsSequence(mem') /\ UNCHANGED <<pend.bufs, kern.bufs>>
    <2> DEFINE op == Head(stream)
               d == op.dst
               e == Overwrite(mem[d], op.off, IF op.src = 0 THEN op.data ELSE mem[op.src])
    <2>1. Perform(mem, op) = [mem EXCEPT ![d] = e]
        BY DEF Perform
    <2>2. IsSequence(mem)
        BY DEF SyncInv
    <2> HIDE DEF d, e
    <2>3. IsSequence([mem EXCEPT ![d] = e])
        BY <2>2, ExceptFacts
    <2> QED BY <1>1, <2>1, <2>3
<1>4. mark' \in Nat /\ mark' <= Len(stream')
    BY <1>1, <1>2 DEF SyncInv
<1>5. Recorded => Recorded'
    <2>1. ASSUME mark = Len(stream) PROVE mark' = Len(stream')
        <3>1. mark # 0
            BY <1>2, <2>1
        <3>2. mark' = mark - 1
            BY <1>1, <3>1
        <3> QED BY <1>2, <2>1, <3>2
    <2>2. needSync' = needSync /\ cfg' = cfg
        BY <1>1
    <2> QED BY <2>1, <2>2 DEF Recorded
<1> QED BY <1>1, <1>2, <1>3, <1>4, <1>5 DEF SyncInv

LEMMA SyncStep == SyncInv /\ [Next]_vars => SyncInv'
BY SyncBeginStep, SyncQuietSteps, SyncFlushPinnedStep, SyncDirectStep, SyncDeferredStep,
   SyncFlushKernelStep, SyncFinalizeStep, SyncRunStep DEF Next

(***************************************************************************)
(* Whatever the batch and whatever failed: when Finalize() returns FALSE   *)
(* nothing is in flight, and when it returns TRUE the event, if there is   *)
(* one, was recorded behind everything that is.                            *)
(***************************************************************************)
THEOREM SyncCovers == Spec => []SyncCoversCopies
<1>1. SyncInv => SyncCoversCopies
    BY DEF SyncInv, Recorded, SyncCoversCopies
<1> QED BY SyncInit, SyncStep, <1>1, PTL DEF Spec
-----------------------------------------------------------------------------
(***************************************************************************)
(* Sums and runs of buffers.                                               *)
(***************************************************************************)
AddSize(sum, b) == sum + b.size
Adding == INSTANCE FoldTheorems WITH Op <- AddSize

LEMMA TotalIsFold ==
    \A bufs : Total(bufs) = Adding!FoldOver(DOMAIN bufs, bufs, 0)[DOMAIN bufs]
BY DEF Total, FoldLeft, MapThenFoldSet, Max, Adding!FoldOver, Adding!Largest, AddSize

\* One buffer more adds its size.
LEMMA TotalOneMore ==
    ASSUME NEW n \in Nat, NEW s, NEW u, DOMAIN s = 1 .. n, DOMAIN u = 1 .. n + 1,
           \A k \in 1 .. n : s[k] = u[k]
    PROVE  Total(u) = Total(s) + u[n + 1].size
<1>1. Adding!FoldOver(1 .. n + 1, u, 0)[1 .. n + 1]
          = AddSize(Adding!FoldOver(1 .. n, s, 0)[1 .. n], u[n + 1])
    BY Adding!FoldOneMore
<1> QED BY <1>1, TotalIsFold DEF AddSize

LEMMA TotalEmpty == Total(<<>>) = 0
BY TotalIsFold, Adding!FoldOfNothing

LEMMA TotalAppend ==
    ASSUME NEW S, NEW s \in Seq(S), NEW e \in S PROVE Total(Append(s, e)) = Total(s) + e.size
<1>1. /\ Len(s) \in Nat /\ DOMAIN s = 1 .. Len(s)
      /\ DOMAIN Append(s, e) = 1 .. Len(s) + 1 /\ Append(s, e)[Len(s) + 1] = e
      /\ \A k \in 1 .. Len(s) : s[k] = Append(s, e)[k]
    OBVIOUS
<1> QED BY <1>1, TotalOneMore

\* Sizes being natural numbers, so is their sum.
LEMMA TotalNat ==
    ASSUME NEW S, \A e \in S : e.size \in Nat, NEW s \in Seq(S) PROVE Total(s) \in Nat
<1>1. Len(s) \in Nat /\ DOMAIN s = 1 .. Len(s) /\ \A k \in 1 .. Len(s) : s[k] \in S
    OBVIOUS
<1>2. \A v \in Nat, k \in 1 .. Len(s) : AddSize(v, s[k]) \in Nat
    BY <1>1 DEF AddSize
<1>3. Adding!FoldOver(1 .. Len(s), s, 0)[1 .. Len(s)] \in Nat
    BY <1>1, <1>2, Adding!FoldStays
<1> QED BY <1>1, <1>3, TotalIsFold

Joined(a, b) == a \o b
Joining == INSTANCE FoldTheorems WITH Op <- Joined

\* Sequences of elements of S are joined to one.
LEMMA FlattenSeqType ==
    ASSUME NEW S, NEW seqs \in Seq(Seq(S)) PROVE FlattenSeq(seqs) \in Seq(S)
<1> DEFINE n == Len(seqs)
           Is(f) == f = [i \in 1 .. n |-> IF i = 1 THEN seqs[i] ELSE f[i - 1] \o seqs[i]]
           joined == CHOOSE f : Is(f)
<1>1. CASE n = 0
    <2>1. Len(seqs) = 0
        BY <1>1
    <2>2. FlattenSeq(seqs) = seqs
        BY <2>1 DEF FlattenSeq
    <2>3. seqs = <<>> /\ <<>> \in Seq(S)
        BY <2>1, EmptySeq
    <2> HIDE DEF joined, Is
    <2> QED BY <2>2, <2>3
<1>2. CASE n # 0
    <2>1. FlattenSeq(seqs) = joined[n]
        BY <1>2 DEF FlattenSeq
    <2>2. n \in Nat \ {0} /\ \A k \in 1 .. n : seqs[k] \in Seq(S)
        BY <1>2
    <2> HIDE DEF n
    <2>3. \A f : Is(f) <=> Joining!IsRunning(f, n, seqs)
        BY DEF Joining!IsRunning, Joined
    <2> HIDE DEF Is
    <2>4. \E f : Is(f)
        BY <2>2, <2>3, Joining!RunningExists
    <2>5. Joining!IsRunning(joined, n, seqs)
        BY <2>3, <2>4
    <2> HIDE DEF joined
    <2>8. seqs[1] \in Seq(S)
        BY <2>2
    <2>6. \A v \in Seq(S), k \in 2 .. n : Joined(v, seqs[k]) \in Seq(S)
        BY <2>2 DEF Joined
    <2>7. \A i \in 1 .. n : joined[i] \in Seq(S)
        BY <2>2, <2>5, <2>6, <2>8, Joining!RunningStays
    <2> QED BY <2>1, <2>2, <2>7
<1> QED BY <1>1, <1>2

\* The iterator's run of contiguous buffers does have an end.
LEMMA RunEndType ==
    ASSUME NEW bufs, Len(bufs) \in Nat, NEW i \in 1 .. Len(bufs)
    PROVE  /\ RunEnd(bufs, i) \in i .. Len(bufs)
           /\ \A k \in i .. RunEnd(bufs, i) - 1 : Adjacent(bufs[k], bufs[k + 1])
<1> DEFINE Ends(m, j) == /\ \A k \in m .. j - 1 : Adjacent(bufs[k], bufs[k + 1])
                         /\ j = Len(bufs) \/ ~Adjacent(bufs[j], bufs[j + 1])
           Has(m) == \E j \in m .. Len(bufs) : Ends(m, j)
           All(d) == \A m \in 1 .. Len(bufs) : Len(bufs) - m = d => Has(m)
           T == {d \in Nat : All(d)}
<1>1. 0 \in T
    <2> HIDE DEF Has
    <2> SUFFICES ASSUME NEW m \in 1 .. Len(bufs), Len(bufs) - m = 0 PROVE Has(m)
        OBVIOUS
    <2>1. m = Len(bufs)
        OBVIOUS
    <2>2. m \in m .. Len(bufs) /\ m .. m - 1 = {}
        OBVIOUS
    <2>3. Ends(m, m)
        BY <2>1, <2>2
    <2> HIDE DEF Ends
    <2> QED BY <2>2, <2>3 DEF Has
<1>2. ASSUME NEW d \in Nat, All(d), NEW m \in 1 .. Len(bufs), Len(bufs) - m = d + 1
      PROVE  Has(m)
    <2>1. CASE ~Adjacent(bufs[m], bufs[m + 1])
        <3>1. Ends(m, m) /\ m \in m .. Len(bufs)
            BY <2>1
        <3> HIDE DEF Ends
        <3> QED BY <3>1 DEF Has
    <2>2. CASE Adjacent(bufs[m], bufs[m + 1])
        <3>1. m + 1 \in 1 .. Len(bufs) /\ Len(bufs) - (m + 1) = d
            BY <1>2
        <3>2. Has(m + 1)
            <4> HIDE DEF Has
            <4> QED BY <1>2, <3>1
        <3> HIDE DEF All
        <3>3. PICK j \in m + 1 .. Len(bufs) : Ends(m + 1, j)
            <4> HIDE DEF Ends
            <4> QED BY <3>2 DEF Has
        <3>4. j \in m .. Len(bufs)
            OBVIOUS
        <3>5. ASSUME NEW k \in m .. j - 1 PROVE Adjacent(bufs[k], bufs[k + 1])
            <4>1. k = m \/ k \in m + 1 .. j - 1
                OBVIOUS
            <4> QED BY <2>2, <3>3, <4>1
        <3>6. Ends(m, j)
            BY <3>3, <3>5
        <3> HIDE DEF Ends
        <3> QED BY <3>4, <3>6 DEF Has
    <2> QED BY <2>1, <2>2
<1> HIDE DEF Has
<1>3. \A d \in Nat : d \in T => d + 1 \in T
    <2>1. \A d \in Nat : All(d) => All(d + 1)
        BY <1>2
    <2> HIDE DEF All
    <2> QED BY <2>1
<1> HIDE DEF T, Has
<1>7. \A d \in Nat : d \in T
    BY <1>1, <1>3, Adding!NaturalInduction
<1>4. \E j \in i .. Len(bufs) : Ends(i, j)
    <2>1. Len(bufs) - i \in T
        BY <1>7
    <2>2. Has(i)
        BY <2>1 DEF T
    <2> HIDE DEF Ends
    <2> QED BY <2>2 DEF Has
<1>5. RunEnd(bufs, i) = CHOOSE j \in i .. Len(bufs) : Ends(i, j)
    BY DEF RunEnd
<1>6. RunEnd(bufs, i) \in i .. Len(bufs) /\ Ends(i, RunEnd(bufs, i))
    <2> HIDE DEF Ends
    <2> QED BY <1>4, <1>5
<1> QED BY <1>6
-----------------------------------------------------------------------------
(***************************************************************************)
(* Types.  Pending copies keep to the tensor because a buffer only joins   *)
(* those it continues: the others have been flushed when it is set, which  *)
(* Flushed says of the states in between.                                  *)
(***************************************************************************)
Collectable == [place : Places, addr : Nat, size : Nat, first : Nat, last : Nat]
Views == [kind : {"none", "buffer", "reused", "error"}, place : Places \cup {"NONE"},
          addr : Nat, bytes : Nat]

FromScenario == \E s \in Scenarios : batch = s[1] /\ cfg = s[2]

Gathering == {"next", "pinned", "kernel", "set"}

PendingInv(p) ==
    /\ p \in [off : Nat, size : Nat, bufs : Seq(Collectable)]
    /\ p.size = Total(p.bufs)
    /\ p.bufs = <<>> => p = NonePending
    /\ t <= Len(batch) => p.off + p.size <= view[t].bytes
    /\ pc \notin Gathering => p = NonePending

Flushed(p) == p = NonePending \/ (cur # NoBuffer /\ (p.size > 0 => Continues(p)))

TypeInv ==
    /\ FromScenario
    /\ pc \in {"begin", "finalize", "ready", "deferred", "returned", "consumed"} \cup Gathering
    /\ t \in 1 .. Len(batch) + 1
    /\ pc \in {"begin"} \cup Gathering <=> t <= Len(batch)
    /\ view \in [DOMAIN batch -> Views]
    /\ Len(mem) >= Len(batch)
    /\ finalized <= Len(deferred)
    /\ live \subseteq Requests
    /\ eventSet \in BOOLEAN /\ bufferReady \in BOOLEAN
    /\ faults \in 0 .. cfg.maxFaults
    /\ cursor.next \in Nat \ {0}
    /\ cur \in Collectable \cup {NoBuffer} /\ offset \in Nat
    /\ PendingInv(pend) /\ PendingInv(kern)
    /\ pc \in {"kernel", "set"} => Flushed(pend)
    /\ pc = "set" => Flushed(kern) /\ cur # NoBuffer

\* What is known of the batch and the configuration.
LEMMA BatchFacts ==
    ASSUME FromScenario
    PROVE  /\ Len(batch) \in Nat \ {0} /\ DOMAIN batch = 1 .. Len(batch)
           /\ cfg.maxFaults \in Nat /\ cfg.ready \in BOOLEAN
           /\ RequestCount \in Nat
           /\ \A i \in DOMAIN batch :
                 /\ batch[i].inputs \in Seq(Seq(InputBuffers))
                 /\ Len(batch[i].inputs) = RequestCount
                 /\ batch[i].allowed \in Seq(Places) /\ batch[i].bytes \in Nat
<1> PICK s \in Scenarios : batch = s[1] /\ cfg = s[2]
    BY DEF FromScenario
<1>1. /\ Len(batch) \in Nat \ {0} /\ DOMAIN batch = 1 .. Len(batch)
      /\ cfg.maxFaults \in Nat /\ cfg.ready \in BOOLEAN
      /\ \A i \in DOMAIN batch :
            /\ batch[i].inputs \in Seq(Seq(InputBuffers))
            /\ Len(batch[i].inputs) = RequestCount
            /\ batch[i].allowed \in Seq(Places) /\ batch[i].bytes \in Nat
    <2>1. /\ Len(s[1]) \in Nat \ {0} /\ DOMAIN s[1] = 1 .. Len(s[1])
          /\ s[2].ready \in BOOLEAN /\ s[2].maxFaults \in Nat
          /\ \A i \in DOMAIN s[1] :
                /\ s[1][i].inputs \in Seq(Seq(InputBuffers))
                /\ Len(s[1][i].inputs) = Len(s[1][1].inputs)
                /\ s[1][i].allowed \in Seq(Places) /\ s[1][i].bytes \in Nat
        BY ScenarioAssumption
    <2> QED BY <2>1 DEF RequestCount
<1>2. RequestCount \in Nat
    <2>1. batch[1].inputs \in Seq(Seq(InputBuffers))
        BY <1>1
    <2> QED BY <2>1 DEF RequestCount
<1> QED BY <1>1, <1>2

LEMMA CollectedType ==
    ASSUME FromScenario, NEW i \in DOMAIN batch
    PROVE  /\ Collected(batch[i]) \in Seq(Collectable)
           /\ Total(Collected(batch[i])) \in Nat
<1> DEFINE inputs == batch[i].inputs
           One(r, k) == [place |-> inputs[r][k].place, addr |-> inputs[r][k].addr,
                         size |-> inputs[r][k].size, first |-> r, last |-> r]
           ofRequest == [r \in Requests |-> [k \in DOMAIN inputs[r] |-> One(r, k)]]
<1>1. /\ inputs \in Seq(Seq(InputBuffers)) /\ Len(inputs) = RequestCount /\ RequestCount \in Nat
      /\ Requests = 1 .. RequestCount
    BY BatchFacts DEF Requests
<1>2. ASSUME NEW r \in Requests PROVE ofRequest[r] \in Seq(Collectable)
    <2>1. inputs[r] \in Seq(InputBuffers)
        BY <1>1
    <2>2. /\ Len(inputs[r]) \in Nat /\ DOMAIN inputs[r] = 1 .. Len(inputs[r])
          /\ \A k \in 1 .. Len(inputs[r]) : inputs[r][k] \in InputBuffers
        BY <2>1
    <2>3. \A k \in 1 .. Len(inputs[r]) : One(r, k) \in Collectable
        BY <1>1, <2>2 DEF InputBuffers, Collectable
    <2> HIDE DEF One
    <2>4. [k \in 1 .. Len(inputs[r]) |-> One(r, k)] \in Seq(Collectable)
        BY <2>2, <2>3
    <2> QED BY <2>2, <2>4
<1>3. ofRequest \in Seq(Seq(Collectable))
    <2>1. \A r \in 1 .. RequestCount : ofRequest[r] \in Seq(Collectable)
        BY <1>1, <1>2
    <2>2. ofRequest = [r \in 1 .. RequestCount |-> ofRequest[r]]
        BY <1>1
    <2> HIDE DEF ofRequest
    <2>3. [r \in 1 .. RequestCount |-> ofRequest[r]] \in Seq(Seq(Collectable))
        BY <1>1, <2>1
    <2> QED BY <2>2, <2>3
<1>4. Collected(batch[i]) = FlattenSeq(ofRequest)
    BY DEF Collected
<1> HIDE DEF ofRequest
<1>5. Collected(batch[i]) \in Seq(Collectable)
    BY <1>3, <1>4, FlattenSeqType
<1>6. \A e \in Collectable : e.size \in Nat
    BY DEF Collectable
<1> QED BY <1>5, <1>6, TotalNat

\* Nothing is pending, whatever the tensor.
LEMMA NonePendingInv ==
    NonePending \in [off : Nat, size : Nat, bufs : Seq(Collectable)] /\ Total(NonePending.bufs) = 0
BY TotalEmpty DEF NonePending

LEMMA TypeInit == Init => TypeInv
<1> SUFFICES ASSUME Init PROVE TypeInv
    OBVIOUS
<1>1. FromScenario
    BY DEF Init, FromScenario
<1>2. /\ pc = "begin" /\ t = 1 /\ view = [i \in DOMAIN batch |-> NoView]
      /\ mem = [i \in DOMAIN batch |-> <<>>] /\ cursor = [next |-> 1, stop |-> FALSE]
      /\ cur = NoBuffer /\ offset = 0 /\ pend = NonePending /\ kern = NonePending
      /\ deferred = <<>> /\ finalized = 0 /\ live = Requests
      /\ eventSet = cfg.ready /\ bufferReady = ~cfg.ready /\ faults = 0
    BY DEF Init
<1>3. view \in [DOMAIN batch -> Views] /\ t \in DOMAIN batch /\ view[t].bytes = 0
    <2>1. NoView \in Views /\ NoView.bytes = 0
        BY DEF NoView, Views
    <2> QED BY <1>1, <1>2, <2>1, BatchFacts
<1>4. Len(mem) = Len(batch)
    BY <1>1, <1>2, BatchFacts
<1>5. PendingInv(pend) /\ PendingInv(kern)
    <2>1. NonePending.off = 0 /\ NonePending.size = 0
        BY DEF NonePending
    <2> QED BY <1>2, <1>3, <2>1, NonePendingInv DEF PendingInv
<1>6. finalized <= Len(deferred)
    BY <1>2
<1>7. cursor.next = 1
    BY <1>2
<1> QED BY <1>1, <1>2, <1>3, <1>4, <1>5, <1>6, <1>7, BatchFacts DEF TypeInv, Gathering
-----------------------------------------------------------------------------
\* The batch stays.
LEMMA SameBatch ==
    ASSUME TypeInv, UNCHANGED <<batch, cfg>> PROVE FromScenario' /\ Requests' = Requests
BY DEF TypeInv, FromScenario, Requests, RequestCount

LEMMA FailType ==
    ASSUME TypeInv, NEW n \in Nat, Fail(n), cfg' = cfg PROVE faults' \in 0 .. cfg'.maxFaults
BY BatchFacts DEF TypeInv, Fail

LEMMA FaultCount ==
    ASSUME NEW bufs, IsSequence(bufs), NEW place, NEW F \in SUBSET Breakable(bufs, place)
    PROVE  Cardinality(F) \in Nat
<1>1. F \subseteq 1 .. Len(bufs) /\ Len(bufs) \in Nat
    <2>1. F \subseteq DOMAIN bufs
        BY DEF Breakable
    <2> QED BY <2>1, LenFacts
<1>2. IsFiniteSet(F)
    <2>1. IsFiniteSet(1 .. Len(bufs))
        BY <1>1, FS_Interval
    <2> QED BY <1>1, <2>1, FS_Subset
<1> QED BY <1>2, FS_CardinalityType

\* The waits leave the flags Boolean.
LEMMA WaitType ==
    ASSUME TypeInv, WaitBufferReady PROVE eventSet' \in BOOLEAN /\ bufferReady' \in BOOLEAN
BY DEF TypeInv, WaitBufferReady

\* On to another tensor with nothing pending.
LEMMA AdvanceType ==
    ASSUME TypeInv, pc \in {"begin", "kernel"}, AdvanceTo,
           UNCHANGED <<batch, cfg, cur, offset, cursor, deferred, finalized>>,
           view' \in [DOMAIN batch -> Views], Len(mem') >= Len(batch), live' \subseteq Requests,
           eventSet' \in BOOLEAN, bufferReady' \in BOOLEAN, faults' \in 0 .. cfg'.maxFaults,
           pend' = NonePending, kern' = NonePending
    PROVE  TypeInv'
<1>1. FromScenario' /\ live' \subseteq Requests' /\ view' \in [DOMAIN batch' -> Views]
    BY SameBatch
<1>2. t' = t + 1 /\ pc' = IF t < Len(batch) THEN "begin" ELSE "finalize"
    BY DEF AdvanceTo
<1>3. Len(batch) \in Nat /\ DOMAIN batch = 1 .. Len(batch) /\ t \in 1 .. Len(batch)
    BY BatchFacts DEF TypeInv, Gathering
<1>4. t' \in 1 .. Len(batch') + 1 /\ (pc' \in {"begin"} \cup Gathering <=> t' <= Len(batch'))
    BY <1>2, <1>3 DEF Gathering
<1>5. t' <= Len(batch) => view'[t'].bytes \in Nat
    BY <1>1, <1>3, <1>4 DEF Views
<1>6. PendingInv(pend)' /\ PendingInv(kern)'
    <2>1. NonePending.off = 0 /\ NonePending.size = 0
        BY DEF NonePending
    <2> QED BY <1>5, <2>1, NonePendingInv DEF PendingInv
<1>7. pc' \in {"begin", "finalize"}
    BY <1>2
<1>8. finalized' <= Len(deferred') /\ Len(mem') >= Len(batch') /\ cursor'.next \in Nat \ {0}
    BY DEF TypeInv
<1> QED BY <1>1, <1>4, <1>6, <1>7, <1>8 DEF TypeInv, Gathering

LEMMA EnterType ==
    ASSUME TypeInv, SyncInv, pc = "begin", NEW place \in Places, NEW bytes \in Nat,
           Enter(place, bytes), faults' \in 0 .. cfg'.maxFaults,
           UNCHANGED <<batch, cfg, cur, pend, kern, live, deferred, finalized, eventSet, bufferReady>>
    PROVE  TypeInv'
<1>1. t \in DOMAIN batch /\ pend = NonePending /\ kern = NonePending
    BY BatchFacts DEF TypeInv, PendingInv, Gathering
<1>2. view' \in [DOMAIN batch -> Views]
    <2> DEFINE v == [kind |-> "buffer", place |-> place, addr |-> 0, bytes |-> bytes]
    <2>1. v \in Views
        BY DEF Views
    <2>2. view' = [view EXCEPT ![t] = v]
        BY DEF Enter
    <2> QED BY <2>1, <2>2 DEF TypeInv
<1>3. Len(mem') >= Len(batch)
    <2> DEFINE cells == [i \in 1 .. bytes |-> Junk]
    <2>1. mem' = [mem EXCEPT ![t] = cells]
        BY DEF Enter
    <2> HIDE DEF cells
    <2>2. Len(mem') = Len(mem)
        BY <2>1, ExceptFacts DEF SyncInv
    <2> QED BY <2>2 DEF TypeInv
<1>4. CASE bytes = 0
    <2>1. AdvanceTo /\ UNCHANGED <<cursor, offset>>
        BY <1>4 DEF Enter
    <2> QED BY <1>1, <1>2, <1>3, <2>1, AdvanceType DEF TypeInv
<1>5. CASE bytes # 0
    <2>1. pc' = "next" /\ t' = t /\ cursor'.next = 1 /\ offset' = 0
        BY <1>5 DEF Enter
    <2>2. FromScenario' /\ live' \subseteq Requests' /\ view' \in [DOMAIN batch' -> Views]
        BY <1>2, SameBatch DEF TypeInv
    <2>3. view'[t].bytes \in Nat
        BY <1>1, <1>2 DEF Views
    <2>4. PendingInv(pend)' /\ PendingInv(kern)'
        <3>1. NonePending.off = 0 /\ NonePending.size = 0
            BY DEF NonePending
        <3>2. /\ NonePending \in [off : Nat, size : Nat, bufs : Seq(Collectable)]
              /\ NonePending.size = Total(NonePending.bufs)
              /\ NonePending.off + NonePending.size <= view'[t].bytes
            BY <2>3, <3>1, NonePendingInv
        <3>3. pend' = NonePending /\ kern' = NonePending
            BY <1>1
        <3>4. PendingInv(pend)'
            BY <2>1, <3>2, <3>3 DEF PendingInv
        <3>5. PendingInv(kern)'
            BY <2>1, <3>2, <3>3 DEF PendingInv
        <3> QED BY <3>4, <3>5
    <2> QED BY <1>3, <2>1, <2>2, <2>4 DEF TypeInv, Gathering
<1> QED BY <1>4, <1>5

LEMMA BeginType ==
    ASSUME TypeInv, SyncInv, BeginGiven \/ BeginReused \/ BeginAllocated \/ BeginFailed
    PROVE  TypeInv'
<1>1. /\ pc = "begin" /\ t \in DOMAIN batch /\ pend = NonePending /\ kern = NonePending
      /\ FromScenario
    <2>1. pc = "begin"
        BY DEF BeginGiven, BeginReused, BeginAllocated, BeginFailed
    <2> QED BY <2>1, BatchFacts DEF TypeInv, PendingInv, Gathering
<1>2. /\ Tensor.allowed \in Seq(Places) /\ Tensor.bytes \in Nat
      /\ Collected(Tensor) \in Seq(Collectable) /\ Total(Collected(Tensor)) \in Nat
    BY <1>1, BatchFacts, CollectedType DEF Tensor
<1>3. view \in [DOMAIN batch -> Views] /\ view[t] \in Views
    BY <1>1 DEF TypeInv
<1>4. CASE BeginGiven
    <2>1. Tensor.allowed[1] \in Places
        BY <1>2, <1>4 DEF BeginGiven
    <2>2. Enter(Tensor.allowed[1], Tensor.bytes)
        BY <1>4 DEF BeginGiven
    <2> QED BY <1>1, <1>2, <1>4, <2>1, <2>2, EnterType DEF BeginGiven, TypeInv, finVars, eventVars
<1>5. CASE BeginAllocated
    <2>1. PICK k \in DOMAIN Tensor.allowed :
              Fail(k - 1) /\ Enter(Tensor.allowed[k], Total(Collected(Tensor)))
        BY <1>5 DEF BeginAllocated
    <2>2. Tensor.allowed[k] \in Places /\ k - 1 \in Nat
        BY <1>2
    <2>3. UNCHANGED <<batch, cfg, cur, pend, kern, live, deferred, finalized, eventSet, bufferReady>>
        BY <1>5 DEF BeginAllocated, finVars, eventVars
    <2>4. faults' \in 0 .. cfg'.maxFaults
        BY <2>1, <2>2, <2>3, FailType
    <2> QED BY <1>1, <1>2, <2>1, <2>2, <2>3, <2>4, EnterType
<1>6. CASE BeginReused
    <2>1. /\ AdvanceTo /\ UNCHANGED <<batch, cfg, cur, offset, cursor, deferred, finalized, mem,
                                      live, eventSet, bufferReady, faults, pend, kern>>
        BY <1>6 DEF BeginReused, copyVars, finVars, eventVars
    <2>2. view' \in [DOMAIN batch -> Views]
        <3> DEFINE bufs == Collected(Tensor)
                   v == [kind |-> "reused", place |-> bufs[1].place, addr |-> bufs[1].addr,
                         bytes |-> Total(bufs)]
        <3>1. view' = [view EXCEPT ![t] = v] /\ Reusable(bufs)
            BY <1>6 DEF BeginReused
        <3>2. bufs # <<>>
            BY <3>1, TotalEmpty DEF Reusable
        <3>3. bufs \in Seq(Collectable) /\ Total(bufs) \in Nat
            BY <1>2
        <3> HIDE DEF bufs
        <3>4. bufs[1] \in Collectable
            BY <3>2, <3>3
        <3>5. v \in Views
            BY <3>3, <3>4 DEF Views, Collectable
        <3> QED BY <1>3, <3>1, <3>5
    <2> QED BY <1>1, <2>1, <2>2, AdvanceType DEF TypeInv
<1>7. CASE BeginFailed
    <2>1. /\ AdvanceTo /\ live' = {}
          /\ UNCHANGED <<batch, cfg, cur, offset, cursor, deferred, finalized, mem,
                         eventSet, bufferReady, pend, kern>>
          /\ view' = [view EXCEPT ![t].kind = "error"]
          /\ faults' = faults \/ Fail(Len(Tensor.allowed))
        BY <1>7 DEF BeginFailed, finVars, eventVars
    <2>2. view' \in [DOMAIN batch -> Views]
        <3>1. [view[t] EXCEPT !.kind = "error"] \in Views
            BY <1>3 DEF Views
        <3>2. view' = [view EXCEPT ![t] = [view[t] EXCEPT !.kind = "error"]]
            BY <2>1
        <3> QED BY <1>3, <3>1, <3>2
    <2>3. faults' \in 0 .. cfg'.maxFaults
        <3>1. Len(Tensor.allowed) \in Nat
            BY <1>2
        <3> QED BY <2>1, <3>1, FailType DEF TypeInv
    <2> QED BY <1>1, <2>1, <2>2, <2>3, AdvanceType DEF TypeInv
<1> QED BY <1>4, <1>5, <1>6, <1>7
-----------------------------------------------------------------------------
\* What is pending of a tensor, when the step leaves the tensor alone.
LEMMA PendingType ==
    ASSUME TypeInv, pc \in Gathering, pc' \in Gathering, UNCHANGED <<batch, t, view>>
    PROVE  /\ pend' \in {pend, NonePending} => PendingInv(pend)'
           /\ kern' \in {kern, NonePending} => PendingInv(kern)'
<1>1. t \in DOMAIN batch /\ view[t].bytes \in Nat /\ t <= Len(batch)
    BY BatchFacts DEF TypeInv, Views, Gathering
<1>2. NonePending.off = 0 /\ NonePending.size = 0
    BY DEF NonePending
<1>3. /\ PendingInv(pend) /\ PendingInv(kern) /\ t' = t /\ view' = view /\ batch' = batch
      /\ NonePending \in [off : Nat, size : Nat, bufs : Seq(Collectable)]
      /\ NonePending.size = Total(NonePending.bufs)
      /\ NonePending.off + NonePending.size <= view[t].bytes
    BY <1>1, <1>2, NonePendingInv DEF TypeInv
<1>4. ASSUME pend' \in {pend, NonePending} PROVE PendingInv(pend)'
    BY <1>3, <1>4 DEF PendingInv
<1>5. ASSUME kern' \in {kern, NonePending} PROVE PendingInv(kern)'
    BY <1>3, <1>5 DEF PendingInv
<1> QED BY <1>4, <1>5

\* A step within a tensor.
LEMMA StayType ==
    ASSUME TypeInv, pc \in Gathering, pc' \in Gathering, UNCHANGED <<batch, cfg, t, view>>,
           Len(mem') >= Len(batch), finalized' <= Len(deferred'), live' \subseteq live,
           eventSet' \in BOOLEAN, bufferReady' \in BOOLEAN, faults' \in 0 .. cfg'.maxFaults,
           cursor'.next \in Nat \ {0}, cur' \in Collectable \cup {NoBuffer}, offset' \in Nat,
           PendingInv(pend)', PendingInv(kern)',
           pc' \in {"kernel", "set"} => Flushed(pend)',
           pc' = "set" => Flushed(kern)' /\ cur' # NoBuffer
    PROVE  TypeInv'
<1>1. FromScenario' /\ Requests' = Requests
    BY SameBatch
<1>2. live' \subseteq Requests' /\ view' \in [DOMAIN batch' -> Views]
      /\ t' \in 1 .. Len(batch') + 1 /\ t' <= Len(batch')
    BY <1>1 DEF TypeInv, Gathering
<1>3. pc' \in {"begin"} \cup Gathering
    OBVIOUS
<1> QED BY <1>1, <1>2, <1>3 DEF TypeInv

\* The part of the state that handlers without copies leave alone.
LEMMA StayQuietType ==
    ASSUME TypeInv, pc \in Gathering, pc' \in Gathering,
           UNCHANGED <<batch, cfg, t, view, mem, finalized, deferred, eventSet, bufferReady, faults>>,
           live' \subseteq live,
           cursor'.next \in Nat \ {0}, cur' \in Collectable \cup {NoBuffer}, offset' \in Nat,
           PendingInv(pend)', PendingInv(kern)',
           pc' \in {"kernel", "set"} => Flushed(pend)',
           pc' = "set" => Flushed(kern)' /\ cur' # NoBuffer
    PROVE  TypeInv'
BY StayType DEF TypeInv

LEMMA IterateType ==
    ASSUME TypeInv, GetNextContiguousInput \/ InputsExhausted PROVE TypeInv'
<1>1. /\ pc = "next" /\ pc' = "pinned" /\ pc \in Gathering /\ pc' \in Gathering
      /\ UNCHANGED <<batch, cfg, t, view, offset, pend, kern, mem, live, faults, finalized, deferred,
                     eventSet, bufferReady>>
    BY DEF GetNextContiguousInput, InputsExhausted, copyVars, finVars, eventVars, Gathering
<1>2. PendingInv(pend)' /\ PendingInv(kern)'
    BY <1>1, PendingType
<1>3. cursor'.next \in Nat \ {0} /\ cur' \in Collectable \cup {NoBuffer}
    <2>1. CASE InputsExhausted
        BY <2>1 DEF InputsExhausted, TypeInv
    <2>2. CASE GetNextContiguousInput
        <3> DEFINE bufs == Collected(Tensor)
                   i == cursor.next
                   j == IF cfg.coalesce THEN RunEnd(bufs, i) ELSE i
        <3>1. bufs \in Seq(Collectable)
            BY <1>1, BatchFacts, CollectedType DEF TypeInv, Tensor, Gathering
        <3>2. /\ i \in Nat \ {0} /\ ~AtEnd
              /\ cur' = [place |-> bufs[i].place, addr |-> bufs[i].addr,
                         size |-> Total(SubSeq(bufs, i, j)),
                         first |-> bufs[i].first, last |-> bufs[j].first]
              /\ cursor' = [next |-> j + 1, stop |-> StopsAfter(bufs, j)]
            BY <2>2 DEF GetNextContiguousInput, TypeInv
        <3>3. i \in 1 .. Len(bufs)
            BY <3>1, <3>2 DEF AtEnd
        <3> HIDE DEF bufs, i
        <3>4. j \in i .. Len(bufs) /\ Len(bufs) \in Nat
            BY <3>1, <3>3, RunEndType
        <3> HIDE DEF j
        <3>5. bufs[i] \in Collectable /\ bufs[j] \in Collectable
            BY <3>1, <3>3, <3>4
        <3>6. SubSeq(bufs, i, j) \in Seq(Collectable)
            BY <3>1, <3>3, <3>4
        <3>7. Total(SubSeq(bufs, i, j)) \in Nat
            BY <3>6, TotalNat DEF Collectable
        <3>8. cur' \in Collectable
            BY <3>2, <3>5, <3>7 DEF Collectable
        <3> QED BY <3>2, <3>3, <3>4, <3>8
    <2> QED BY <1>1, <2>1, <2>2
<1>4. offset' \in Nat /\ live' \subseteq live
    BY <1>1 DEF TypeInv
<1> QED BY <1>1, <1>2, <1>3, <1>4, StayQuietType

(***************************************************************************)
(* The flushes leave nothing pending, or what the buffer in hand continues.*)
(***************************************************************************)
LEMMA DueFlushed ==
    ASSUME NEW p, p.bufs = <<>> => p = NonePending, ~Due(p) \/ p.bufs = <<>> PROVE Flushed(p)
BY DEF Due, Flushed

LEMMA FlushPinnedType ==
    ASSUME TypeInv, SyncInv,
           \/ SkipFlushPinned \/ FlushPinnedDirect \/ FlushPinnedNow \/ FlushPinnedDeferred
    PROVE  TypeInv'
<1>1. /\ pc = "pinned" /\ pc' = "kernel" /\ pc \in Gathering /\ pc' \in Gathering
      /\ UNCHANGED <<batch, cfg, t, view, cursor, cur, offset, kern, finalized>>
      /\ pend' \in {pend, NonePending}
    BY DEF SkipFlushPinned, FlushPinnedDirect, FlushPinnedNow, FlushPinnedDeferred, collVars,
           copyVars, finVars, eventVars, Gathering, PinnedHandled
<1>2. PendingInv(pend)' /\ PendingInv(kern)'
    BY <1>1, PendingType
<1>3. Flushed(pend)'
    <2>1. CASE SkipFlushPinned
        <3>1. pend' = pend /\ Flushed(pend)
            BY <2>1, DueFlushed DEF SkipFlushPinned, collVars, TypeInv, PendingInv
        <3> QED BY <1>1, <3>1 DEF Flushed, Continues
    <2>2. CASE ~SkipFlushPinned
        BY <2>2 DEF FlushPinnedDirect, FlushPinnedNow, FlushPinnedDeferred, PinnedHandled, Flushed
    <2> QED BY <2>1, <2>2
<1>4. /\ cursor'.next \in Nat \ {0} /\ cur' \in Collectable \cup {NoBuffer} /\ offset' \in Nat
    BY <1>1 DEF TypeInv
<1>5. CASE SkipFlushPinned
    <2>1. UNCHANGED <<mem, deferred, live, eventSet, bufferReady, faults>>
        BY <1>5 DEF SkipFlushPinned, copyVars, finVars, eventVars
    <2> QED BY <1>1, <1>2, <1>3, <1>4, <2>1, StayQuietType
<1>6. CASE FlushPinnedDirect \/ FlushPinnedNow \/ FlushPinnedDeferred
    <2>1. eventSet' \in BOOLEAN /\ bufferReady' \in BOOLEAN
        BY <1>6, WaitType DEF FlushPinnedDirect, FlushPinnedNow, FlushPinnedDeferred
    <2>2. finalized' <= Len(deferred')
        <3>1. Len(deferred') >= Len(deferred) /\ Len(deferred) \in Nat /\ Len(deferred') \in Nat
            BY <1>6, AppendFacts, LenFacts DEF FlushPinnedDirect, FlushPinnedNow,
               FlushPinnedDeferred, finVars, SyncInv
        <3> QED BY <1>1, <3>1 DEF TypeInv, SyncInv
    <2>3. faults' \in 0 .. cfg'.maxFaults
        <3>1. \A place : \A F \in SUBSET Breakable(pend.bufs, place) : Cardinality(F) \in Nat
            BY FaultCount DEF SyncInv
        <3>2. \E n \in Nat : Fail(n)
            <4>1. CASE FlushPinnedDirect
                <5>1. PICK F \in SUBSET Breakable(pend.bufs, Place) :
                          Fail(Cardinality(F) + IF pend.size > 0 THEN 1 ELSE 0)
                    BY <4>1 DEF FlushPinnedDirect
                <5> QED BY <3>1, <5>1
            <4>2. CASE FlushPinnedNow
                <5>1. PICK F \in SUBSET Breakable(pend.bufs, "CPU_PINNED"), fails \in FinalFaults(t) :
                          Fail(Cardinality(F) + IF fails THEN 1 ELSE 0)
                    BY <4>2 DEF FlushPinnedNow
                <5> QED BY <3>1, <5>1
            <4>3. CASE FlushPinnedDeferred
                <5>1. PICK F \in SUBSET Breakable(pend.bufs, "CPU_PINNED") : Fail(Cardinality(F))
                    BY <4>3 DEF FlushPinnedDeferred
                <5> QED BY <3>1, <5>1
            <4> QED BY <1>6, <4>1, <4>2, <4>3
        <3> QED BY <1>1, <3>2, FailType
    <2>4. Len(mem') >= Len(batch) /\ live' \subseteq live
        <3>1. Len(mem) >= Len(batch) /\ Len(batch) \in Nat /\ Len(mem) \in Nat
            BY BatchFacts, LenFacts DEF TypeInv, SyncInv
        <3>2. CASE FlushPinnedDirect
            <4>1. PICK F : Effect(CopyAll(Start, pend.bufs, t, Place, pend.off, F))
                BY <3>2 DEF FlushPinnedDirect
            <4>2. /\ Kept(Start, CopyAll(Start, pend.bufs, t, Place, pend.off, F))
                  /\ Start.stream = stream /\ Start.mem = mem /\ Start.live = live
                BY StartState, KeptByCopyAll DEF SyncInv, Start
            <4>3. Len(mem') = Len(Start.mem) /\ live' \subseteq Start.live
                BY <4>1, <4>2, EffectKeeps
            <4> QED BY <3>1, <4>2, <4>3
        <3>3. CASE FlushPinnedNow
            <4>1. PICK F \in SUBSET Breakable(pend.bufs, "CPU_PINNED"), fails \in FinalFaults(t) :
                      Effect(CopyFromPinned(Staged(F), Deferred, cfg.copyOnStream, fails))
                BY <3>3 DEF FlushPinnedNow
            <4>2. PICK a : /\ IsState(a) /\ Kept(a, Staged(F)) /\ a.stream = stream /\ a.live = live
                           /\ Len(a.mem) = Len(mem) + 1
                BY StagedKeeps
            <4>3. fails \in BOOLEAN /\ IsState(Staged(F))
                BY <4>2 DEF FinalFaults, Kept
            <4>4. Kept(a, CopyFromPinned(Staged(F), Deferred, cfg.copyOnStream, fails))
                BY <4>2, <4>3, CopyFromPinnedKeeps, KeptByBoth
            <4>5. Len(mem') = Len(a.mem) /\ live' \subseteq a.live
                BY <4>1, <4>2, <4>4, EffectKeeps
            <4> QED BY <3>1, <4>2, <4>5
        <3>4. CASE FlushPinnedDeferred
            <4>1. PICK F : Effect(Staged(F))
                BY <3>4 DEF FlushPinnedDeferred
            <4>2. PICK a : /\ IsState(a) /\ Kept(a, Staged(F)) /\ a.stream = stream /\ a.live = live
                           /\ Len(a.mem) = Len(mem) + 1
                BY StagedKeeps
            <4>3. Len(mem') = Len(a.mem) /\ live' \subseteq a.live
                BY <4>1, <4>2, EffectKeeps
            <4> QED BY <3>1, <4>2, <4>3
        <3> QED BY <1>6, <3>2, <3>3, <3>4
    <2> QED BY <1>1, <1>2, <1>3, <1>4, <2>1, <2>2, <2>3, <2>4, StayType
<1> QED BY <1>5, <1>6

\* What AfterFlush does with the tensor.
LEMMA FlushKernelType ==
    ASSUME TypeInv, SyncInv, SkipFlushKernel \/ LaunchCopyKernel \/ FlushKernelDirect
    PROVE  TypeInv'
<1>1. /\ pc = "kernel" /\ pc \in Gathering /\ AfterFlush
      /\ UNCHANGED <<batch, cfg, view, cursor, cur, offset, pend, deferred, finalized>>
      /\ kern' \in {kern, NonePending}
    BY DEF SkipFlushKernel, LaunchCopyKernel, FlushKernelDirect, finVars, Gathering
<1>2. Flushed(kern)' /\ Flushed(pend)'
    <2>1. Flushed(pend)'
        BY <1>1 DEF TypeInv, Flushed, Continues
    <2>2. CASE SkipFlushKernel
        <3>1. kern' = kern /\ Flushed(kern)
            BY <2>2, DueFlushed DEF SkipFlushKernel, TypeInv, PendingInv
        <3> QED BY <1>1, <2>1, <3>1 DEF Flushed, Continues
    <2>3. CASE LaunchCopyKernel \/ FlushKernelDirect
        BY <2>1, <2>3 DEF LaunchCopyKernel, FlushKernelDirect, Flushed
    <2> QED BY <2>2, <2>3, <1>1
<1>3. eventSet' \in BOOLEAN /\ bufferReady' \in BOOLEAN
    <2>1. CASE SkipFlushKernel
        BY <2>1 DEF SkipFlushKernel, eventVars, TypeInv
    <2>2. CASE LaunchCopyKernel \/ FlushKernelDirect
        BY <2>2, WaitType DEF LaunchCopyKernel, FlushKernelDirect
    <2> QED BY <1>1, <2>1, <2>2
<1>4. faults' \in 0 .. cfg'.maxFaults
    <2>1. CASE SkipFlushKernel \/ LaunchCopyKernel
        BY <1>1, <2>1 DEF SkipFlushKernel, LaunchCopyKernel, copyVars, TypeInv
    <2>2. CASE FlushKernelDirect
        <3>1. PICK F \in SUBSET Breakable(kern.bufs, Place) :
                  Fail(Cardinality(F) + IF EnoughForKernel THEN 1 ELSE 0)
            BY <2>2 DEF FlushKernelDirect
        <3>2. Cardinality(F) \in Nat
            BY FaultCount DEF SyncInv
        <3> QED BY <1>1, <3>1, <3>2, FailType
    <2> QED BY <1>1, <2>1, <2>2
<1>5. Len(mem') >= Len(batch) /\ live' \subseteq live
    <2>1. Len(mem) >= Len(batch) /\ Start.mem = mem /\ Start.live = live /\ Start.stream = stream
        BY DEF TypeInv, Start
    <2>2. CASE SkipFlushKernel
        BY <2>1, <2>2 DEF SkipFlushKernel, copyVars
    <2>3. CASE LaunchCopyKernel
        <3>1. Effect(Gather(Start))
            BY <2>3 DEF LaunchCopyKernel
        <3>2. Kept(Start, Gather(Start))
            BY StartState, KeptByCopyBuffer DEF Gather
        <3>3. Len(mem') = Len(Start.mem) /\ live' \subseteq Start.live
            BY <2>1, <3>1, <3>2, EffectKeeps
        <3> QED BY <2>1, <3>3
    <2>4. CASE FlushKernelDirect
        <3>1. PICK F : Effect(CopyAll(Start, kern.bufs, t, Place, kern.off, F))
            BY <2>4 DEF FlushKernelDirect
        <3>2. Kept(Start, CopyAll(Start, kern.bufs, t, Place, kern.off, F))
            BY StartState, KeptByCopyAll DEF SyncInv
        <3>3. Len(mem') = Len(Start.mem) /\ live' \subseteq Start.live
            BY <2>1, <3>1, <3>2, EffectKeeps
        <3> QED BY <2>1, <3>3
    <2> QED BY <1>1, <2>2, <2>3, <2>4
<1>6. CASE cur = NoBuffer
    <2>1. AdvanceTo
        BY <1>1, <1>6 DEF AfterFlush
    <2>2. pend' = NonePending /\ kern' = NonePending
        BY <1>1, <1>2, <1>6 DEF Flushed
    <2>3. view' \in [DOMAIN batch -> Views] /\ live' \subseteq Requests
        BY <1>1, <1>5 DEF TypeInv
    <2> QED BY <1>1, <1>3, <1>4, <1>5, <2>1, <2>2, <2>3, AdvanceType
<1>7. CASE cur # NoBuffer
    <2>1. pc' = "set" /\ pc' \in Gathering /\ t' = t
        BY <1>1, <1>7 DEF AfterFlush, Gathering
    <2>2. PendingInv(pend)' /\ PendingInv(kern)'
        BY <1>1, <2>1, PendingType
    <2>3. /\ cursor'.next \in Nat \ {0} /\ cur' \in Collectable \cup {NoBuffer} /\ offset' \in Nat
          /\ cur' # NoBuffer /\ finalized' <= Len(deferred')
        BY <1>1, <1>7 DEF TypeInv
    <2> QED BY <1>1, <1>2, <1>3, <1>4, <1>5, <2>1, <2>2, <2>3, StayType
<1> QED BY <1>6, <1>7

(***************************************************************************)
(* A buffer that fits and joins those it continues leaves them within the  *)
(* tensor.                                                                 *)
(***************************************************************************)
LEMMA PendingAdds ==
    ASSUME TypeInv, pc = "set", Fits, NEW p, PendingInv(p), Flushed(p), cur \in Collectable
    PROVE  LET q == Pending(p)
           IN  /\ q \in [off : Nat, size : Nat, bufs : Seq(Collectable)]
               /\ q.size = Total(q.bufs) /\ q.bufs # <<>>
               /\ q.off + q.size <= view[t].bytes
<1> DEFINE q == Pending(p)
<1>1. /\ q.off = IF p.size = 0 THEN offset ELSE p.off
      /\ q.size = p.size + cur.size /\ q.bufs = Append(p.bufs, cur)
      /\ q = [off |-> q.off, size |-> q.size, bufs |-> q.bufs]
    BY DEF Pending
<1>2. /\ p.off \in Nat /\ p.size \in Nat /\ p.bufs \in Seq(Collectable) /\ p.size = Total(p.bufs)
      /\ offset \in Nat /\ cur.size \in Nat
    BY DEF PendingInv, TypeInv, Collectable
<1> HIDE DEF q
<1>3. q.size = Total(q.bufs) /\ q.bufs # <<>> /\ q.bufs \in Seq(Collectable)
    BY <1>1, <1>2, TotalAppend
<1>4. q.off \in Nat /\ q.size \in Nat
    BY <1>1, <1>2
<1>5. q.off + q.size <= view[t].bytes
    <2>1. offset + cur.size <= view[t].bytes
        <3>1. view[t].bytes \in Nat
            BY BatchFacts DEF TypeInv, Views, Gathering
        <3> QED BY <1>2, <3>1 DEF Fits, Overflows
    <2>2. CASE p.size = 0
        BY <1>1, <1>2, <2>1, <2>2
    <2>3. CASE p.size # 0
        <3>1. offset = p.size + p.off
            BY <1>2, <2>3 DEF Flushed, Continues, NonePending
        <3> QED BY <1>1, <1>2, <2>1, <2>3, <3>1
    <2> QED BY <2>2, <2>3
<1>6. q \in [off : Nat, size : Nat, bufs : Seq(Collectable)]
    BY <1>1, <1>3, <1>4
<1> QED BY <1>3, <1>5, <1>6 DEF q

LEMMA SetType ==
    ASSUME TypeInv, SyncInv, SetTooLarge \/ SetPendingPinned \/ SetPendingKernel \/ SetDirect
    PROVE  TypeInv'
<1>1. /\ NextBuffer /\ pc = "set" /\ pc' = "next" /\ pc \in Gathering /\ pc' \in Gathering
      /\ offset' = offset + cur.size
      /\ UNCHANGED <<batch, cfg, t, view, cursor, cur, deferred, finalized>>
    BY DEF SetTooLarge, SetPendingPinned, SetPendingKernel, SetDirect, NextBuffer, finVars, Gathering
<1>2. cur \in Collectable /\ Flushed(pend) /\ Flushed(kern) /\ PendingInv(pend) /\ PendingInv(kern)
    BY <1>1 DEF TypeInv
<1>3. /\ offset' \in Nat /\ cursor'.next \in Nat \ {0} /\ cur' \in Collectable \cup {NoBuffer}
      /\ Len(mem) >= Len(batch) /\ finalized' <= Len(deferred')
    BY <1>1, <1>2 DEF TypeInv, Collectable
<1>4. CASE SetTooLarge
    <2>1. UNCHANGED <<pend, kern, mem, eventSet, bufferReady, faults>> /\ live' \subseteq live
        BY <1>4 DEF SetTooLarge, eventVars
    <2>2. PendingInv(pend)' /\ PendingInv(kern)'
        BY <1>1, <2>1, PendingType
    <2> QED BY <1>1, <1>3, <2>1, <2>2, StayQuietType
<1>5. CASE SetPendingPinned
    <2>1. UNCHANGED <<kern, mem, eventSet, bufferReady, faults, live>> /\ pend' = Pending(pend) /\ Fits
        BY <1>5 DEF SetPendingPinned, eventVars, copyVars
    <2>2. PendingInv(kern)'
        BY <1>1, <2>1, PendingType
    <2>3. PendingInv(pend)'
        BY <1>1, <1>2, <2>1, PendingAdds DEF PendingInv
    <2> QED BY <1>1, <1>3, <2>1, <2>2, <2>3, StayQuietType
<1>6. CASE SetPendingKernel
    <2>1. UNCHANGED <<pend, mem, eventSet, bufferReady, faults, live>> /\ kern' = Pending(kern) /\ Fits
        BY <1>6 DEF SetPendingKernel, eventVars, copyVars
    <2>2. PendingInv(pend)'
        BY <1>1, <2>1, PendingType
    <2>3. PendingInv(kern)'
        BY <1>1, <1>2, <2>1, PendingAdds DEF PendingInv
    <2> QED BY <1>1, <1>3, <2>1, <2>2, <2>3, StayQuietType
<1>7. CASE SetDirect
    <2>1. UNCHANGED <<pend, kern>> /\ WaitBufferReady
        BY <1>7 DEF SetDirect
    <2>2. PendingInv(pend)' /\ PendingInv(kern)'
        BY <1>1, <2>1, PendingType
    <2>3. PICK F \in SUBSET Breakable(<<cur>>, Place) :
              Fail(Cardinality(F)) /\ Effect(DirectCopy(Start, cur, t, Place, offset, F # {}))
        BY <1>7 DEF SetDirect
    <2>4. faults' \in 0 .. cfg'.maxFaults
        <3>1. IsSequence(<<cur>>)
            <4>1. <<cur>> \in Seq({cur})
                OBVIOUS
            <4> QED BY <4>1 DEF IsSequence
        <3> QED BY <1>1, <2>3, <3>1, FaultCount, FailType
    <2>5. Len(mem') >= Len(batch) /\ live' \subseteq live
        <3>1. /\ Kept(Start, DirectCopy(Start, cur, t, Place, offset, F # {}))
              /\ Start.stream = stream /\ Start.mem = mem /\ Start.live = live
            BY StartState, KeptByDirectCopy DEF Start
        <3>2. Len(mem') = Len(Start.mem) /\ live' \subseteq Start.live
            BY <2>3, <3>1, EffectKeeps
        <3> QED BY <1>3, <3>1, <3>2
    <2>6. eventSet' \in BOOLEAN /\ bufferReady' \in BOOLEAN
        BY <2>1, WaitType
    <2> QED BY <1>1, <1>3, <2>2, <2>4, <2>5, <2>6, StayType
<1> QED BY <1>4, <1>5, <1>6, <1>7

(***************************************************************************)
(* Finalize(), its caller and the stream.                                  *)
(***************************************************************************)
LEMMA AfterType ==
    ASSUME TypeInv, pc \notin {"begin"} \cup Gathering, pc' \notin {"begin"} \cup Gathering,
           pc' \in {"finalize", "ready", "deferred", "returned", "consumed"},
           UNCHANGED <<batch, cfg, t, view, cursor, cur, offset, pend, kern>>,
           Len(mem') = Len(mem), finalized' <= Len(deferred'), live' \subseteq live,
           eventSet' \in BOOLEAN, bufferReady' \in BOOLEAN, faults' \in 0 .. cfg'.maxFaults
    PROVE  TypeInv'
<1>1. FromScenario' /\ Requests' = Requests
    BY SameBatch
<1>2. PendingInv(pend)' /\ PendingInv(kern)'
    BY DEF TypeInv, PendingInv
<1> QED BY <1>1, <1>2 DEF TypeInv, Gathering

LEMMA FinalizeType ==
    ASSUME TypeInv, SyncInv,
           FinalizeSync \/ FinalizeReady \/ FinalizeDeferred \/ FinalizeReturn \/ CallerSync
    PROVE  TypeInv'
<1>1. /\ pc \notin {"begin"} \cup Gathering /\ pc' \notin {"begin"} \cup Gathering
      /\ pc' \in {"ready", "deferred", "returned", "consumed"}
      /\ UNCHANGED <<batch, cfg, t, view, cursor, cur, offset, pend, kern, deferred>>
    BY DEF FinalizeSync, FinalizeReady, FinalizeDeferred, FinalizeReturn, CallerSync, collVars,
           finVars, Gathering
<1>2. CASE FinalizeSync \/ FinalizeReturn \/ CallerSync
    <2>1. UNCHANGED <<mem, live, faults, finalized, eventSet, bufferReady>>
        BY <1>2 DEF FinalizeSync, FinalizeReturn, CallerSync, copyVars, finVars, eventVars
    <2> QED BY <1>1, <2>1, AfterType DEF TypeInv
<1>3. CASE FinalizeReady
    <2>1. UNCHANGED <<mem, live, faults, finalized>> /\ WaitBufferReady
        BY <1>3 DEF FinalizeReady, copyVars, finVars
    <2> QED BY <1>1, <2>1, WaitType, AfterType DEF TypeInv
<1>4. CASE FinalizeDeferred
    <2> DEFINE def == deferred[finalized + 1]
    <2>1. /\ finalized < Len(deferred) /\ finalized' = finalized + 1
          /\ UNCHANGED <<eventSet, bufferReady>>
        BY <1>4 DEF FinalizeDeferred, eventVars
    <2>2. PICK fails \in FinalFaults(def.dst) :
              Fail(IF fails THEN 1 ELSE 0) /\ Effect(CopyFromPinned(Start, def, FALSE, fails))
        BY <1>4 DEF FinalizeDeferred
    <2> HIDE DEF def
    <2>3. /\ Kept(Start, CopyFromPinned(Start, def, FALSE, fails))
          /\ Start.stream = stream /\ Start.mem = mem /\ Start.live = live
        BY StartState, CopyFromPinnedKeeps DEF FinalFaults, Start
    <2>4. Len(mem') = Len(mem) /\ live' \subseteq live
        BY <2>2, <2>3, EffectKeeps
    <2>5. faults' \in 0 .. cfg'.maxFaults
        BY <1>1, <2>2, FailType
    <2>6. finalized' <= Len(deferred')
        BY <1>1, <2>1, LenFacts DEF SyncInv
    <2> QED BY <1>1, <2>1, <2>4, <2>5, <2>6, AfterType DEF TypeInv
<1> QED BY <1>2, <1>3, <1>4

LEMMA DeviceType ==
    ASSUME TypeInv, SyncInv, RunCopy \/ BufferReadyFires \/ Terminating \/ UNCHANGED vars PROVE TypeInv'
<1>1. /\ UNCHANGED <<batch, cfg, pc, t, view, cursor, cur, offset, pend, kern, deferred, finalized,
                     live, eventSet, faults>>
      /\ bufferReady' \in BOOLEAN
      /\ mem' = mem \/ mem' = Perform(mem, Head(stream))
    BY DEF RunCopy, BufferReadyFires, Terminating, vars, collVars, copyVars, finVars, eventVars,
           TypeInv
<1>2. Len(mem') = Len(mem)
    BY <1>1, ExceptFacts DEF Perform, SyncInv
<1>3. FromScenario' /\ Requests' = Requests
    BY <1>1, SameBatch
<1>4. PendingInv(pend)' /\ PendingInv(kern)'
    BY <1>1 DEF TypeInv, PendingInv
<1>5. (pc' \in {"kernel", "set"} => Flushed(pend)') /\ (pc' = "set" => Flushed(kern)')
    BY <1>1 DEF TypeInv, Flushed, Continues
<1> QED BY <1>1, <1>2, <1>3, <1>4, <1>5 DEF TypeInv

LEMMA TypeStep == TypeInv /\ SyncInv /\ [Next]_vars => TypeInv'
BY BeginType, IterateType, FlushPinnedType, FlushKernelType, SetType, FinalizeType, DeviceType
   DEF Next

LEMMA TypeInvImplies == TypeInv /\ SyncInv => TypeOK
<1> SUFFICES ASSUME TypeInv, SyncInv PROVE TypeOK
    OBVIOUS
<1>1. DOMAIN batch = 1 .. Len(batch) /\ Len(batch) \in Nat
    BY BatchFacts DEF TypeInv
<1>2. /\ DOMAIN view = DOMAIN batch
      /\ \A i \in DOMAIN view : view[i].kind \in {"none", "buffer", "reused", "error"}
    BY DEF TypeInv, Views
<1>3. finalized \in 0 .. Len(deferred) /\ mark \in 0 .. Len(stream)
    BY LenFacts DEF TypeInv, SyncInv
<1>4. IF t \in DOMAIN batch
      THEN PendingOK(pend) /\ PendingOK(kern)
      ELSE pend = NonePending /\ kern = NonePending
    BY <1>1 DEF TypeInv, PendingInv, PendingOK, Gathering
<1> QED BY <1>2, <1>3, <1>4 DEF TypeInv, SyncInv, TypeOK, Gathering

(***************************************************************************)
(* Types, for every batch: above all, what is pending is of its buffers    *)
(* and ends within the tensor, whatever was flushed before.                *)
(***************************************************************************)
THEOREM TypeCorrect == Spec => []TypeOK
<1>1. Init => TypeInv /\ SyncInv
    BY TypeInit, SyncInit
<1>2. TypeInv /\ SyncInv /\ [Next]_vars => (TypeInv /\ SyncInv)'
    BY TypeStep, SyncStep
<1> QED BY <1>1, <1>2, TypeInvImplies, PTL DEF Spec
-----------------------------------------------------------------------------
(***************************************************************************)
(* Sums of parts of a sequence of buffers.                                 *)
(***************************************************************************)
\* The sum over the first k buffers.
UpTo(bufs, k) == Total(SubSeq(bufs, 1, k))

LEMMA UpToFacts ==
    ASSUME NEW S, \A e \in S : e.size \in Nat, NEW bufs \in Seq(S)
    PROVE  /\ UpTo(bufs, 0) = 0
           /\ \A k \in 0 .. Len(bufs) : UpTo(bufs, k) \in Nat
           /\ \A k \in 1 .. Len(bufs) : UpTo(bufs, k) = UpTo(bufs, k - 1) + bufs[k].size
           /\ UpTo(bufs, Len(bufs)) = Total(bufs)
<1>1. UpTo(bufs, 0) = 0
    <2>1. SubSeq(bufs, 1, 0) = <<>>
        OBVIOUS
    <2> QED BY <2>1, TotalEmpty DEF UpTo
<1>2. ASSUME NEW k \in 0 .. Len(bufs) PROVE UpTo(bufs, k) \in Nat
    <2>1. SubSeq(bufs, 1, k) \in Seq(S)
        OBVIOUS
    <2> QED BY <2>1, TotalNat DEF UpTo
<1>3. ASSUME NEW k \in 1 .. Len(bufs)
      PROVE  UpTo(bufs, k) = UpTo(bufs, k - 1) + bufs[k].size
    <2> DEFINE s == SubSeq(bufs, 1, k - 1)
               u == SubSeq(bufs, 1, k)
               n == k - 1
    <2>1. n \in Nat /\ n + 1 = k
        OBVIOUS
    <2>2. DOMAIN s = 1 .. n /\ DOMAIN u = 1 .. n + 1
        OBVIOUS
    <2>3. \A i \in 1 .. n : s[i] = u[i]
        OBVIOUS
    <2>4. u[n + 1] = bufs[k]
        OBVIOUS
    <2> HIDE DEF s, u, n
    <2>5. Total(u) = Total(s) + u[n + 1].size
        BY <2>1, <2>2, <2>3, TotalOneMore
    <2> QED BY <2>4, <2>5 DEF UpTo, s, u
<1>4. UpTo(bufs, Len(bufs)) = Total(bufs)
    <2>1. SubSeq(bufs, 1, Len(bufs)) = bufs
        OBVIOUS
    <2> QED BY <2>1 DEF UpTo
<1> QED BY <1>1, <1>2, <1>3, <1>4

\* It does not go down.
LEMMA UpToGrows ==
    ASSUME NEW S, \A e \in S : e.size \in Nat, NEW bufs \in Seq(S),
           NEW m \in 0 .. Len(bufs), NEW k \in 0 .. m
    PROVE  UpTo(bufs, k) <= UpTo(bufs, m)
<1> DEFINE T == {d \in Nat : k + d <= Len(bufs) => UpTo(bufs, k) <= UpTo(bufs, k + d)}
<1>1. 0 \in T
    <2>1. UpTo(bufs, k) \in Nat
        BY UpToFacts
    <2> QED BY <2>1
<1>2. \A d \in Nat : d \in T => d + 1 \in T
    <2> SUFFICES ASSUME NEW d \in Nat, d \in T, k + (d + 1) <= Len(bufs)
                 PROVE  UpTo(bufs, k) <= UpTo(bufs, k + (d + 1))
        OBVIOUS
    <2>1. k + d \in 0 .. Len(bufs) /\ k + (d + 1) \in 1 .. Len(bufs) /\ (k + (d + 1)) - 1 = k + d
        OBVIOUS
    <2>2. UpTo(bufs, k) <= UpTo(bufs, k + d)
        BY <2>1
    <2>3. /\ UpTo(bufs, k) \in Nat /\ UpTo(bufs, k + d) \in Nat
          /\ UpTo(bufs, k + (d + 1)) = UpTo(bufs, k + d) + bufs[k + (d + 1)].size
        BY <2>1, UpToFacts
    <2>4. bufs[k + (d + 1)].size \in Nat
        BY <2>1
    <2> QED BY <2>2, <2>3, <2>4
<1> HIDE DEF T
<1>3. \A d \in Nat : d \in T
    BY <1>1, <1>2, Adding!NaturalInduction
<1>4. m - k \in T /\ k + (m - k) = m /\ m <= Len(bufs)
    BY <1>3
<1> QED BY <1>4 DEF T

\* The sum of a run of buffers is what it adds to the sum before it.
LEMMA UpToRun ==
    ASSUME NEW S, \A e \in S : e.size \in Nat, NEW bufs \in Seq(S),
           NEW i \in 1 .. Len(bufs), NEW j \in i .. Len(bufs)
    PROVE  UpTo(bufs, j) = UpTo(bufs, i - 1) + Total(SubSeq(bufs, i, j))
<1> DEFINE T == {d \in Nat : i + d <= Len(bufs) =>
                     UpTo(bufs, i + d) = UpTo(bufs, i - 1) + Total(SubSeq(bufs, i, i + d))}
<1>0. ASSUME NEW m \in i - 1 .. Len(bufs) - 1
      PROVE  /\ Total(SubSeq(bufs, i, m + 1)) = Total(SubSeq(bufs, i, m)) + bufs[m + 1].size
             /\ Total(SubSeq(bufs, i, m)) \in Nat
    <2> DEFINE s == SubSeq(bufs, i, m)
               u == SubSeq(bufs, i, m + 1)
               n == (m - i) + 1
    <2>1. n \in Nat /\ m \in Nat /\ m >= i - 1
        OBVIOUS
    <2>2. DOMAIN s = 1 .. n /\ DOMAIN u = 1 .. n + 1 /\ s \in Seq(S)
        OBVIOUS
    <2>3. \A q \in 1 .. n : s[q] = u[q]
        OBVIOUS
    <2>4. u[n + 1] = bufs[m + 1]
        OBVIOUS
    <2>5. Total(s) \in Nat
        <3> HIDE DEF s
        <3> QED BY <2>2, TotalNat
    <2> HIDE DEF s, u, n
    <2>6. Total(u) = Total(s) + u[n + 1].size
        BY <2>1, <2>2, <2>3, TotalOneMore
    <2> QED BY <2>4, <2>5, <2>6 DEF s, u
<1>1. 0 \in T
    <2>1. SubSeq(bufs, i, i - 1) = <<>>
        OBVIOUS
    <2>2. i - 1 \in i - 1 .. Len(bufs) - 1 /\ (i - 1) + 1 = i
        OBVIOUS
    <2>3. Total(SubSeq(bufs, i, i)) = bufs[i].size
        <3>1. Total(SubSeq(bufs, i, i)) = Total(SubSeq(bufs, i, i - 1)) + bufs[i].size
            BY <1>0, <2>2
        <3>2. bufs[i].size \in Nat
            OBVIOUS
        <3>3. Total(SubSeq(bufs, i, i - 1)) = 0
            BY <2>1, TotalEmpty
        <3> HIDE DEF T
        <3> QED BY <3>1, <3>2, <3>3
    <2>4. UpTo(bufs, i) = UpTo(bufs, i - 1) + bufs[i].size
        BY UpToFacts
    <2> QED BY <2>3, <2>4
<1>2. \A d \in Nat : d \in T => d + 1 \in T
    <2> SUFFICES ASSUME NEW d \in Nat, d \in T, i + (d + 1) <= Len(bufs)
                 PROVE  UpTo(bufs, i + (d + 1))
                            = UpTo(bufs, i - 1) + Total(SubSeq(bufs, i, i + (d + 1)))
        OBVIOUS
    <2> DEFINE m == i + d
    <2>1. /\ m \in i - 1 .. Len(bufs) - 1 /\ m + 1 = i + (d + 1) /\ i + d <= Len(bufs)
          /\ m + 1 \in 1 .. Len(bufs) /\ (m + 1) - 1 = m /\ i - 1 \in 0 .. Len(bufs)
        OBVIOUS
    <2>2. UpTo(bufs, m) = UpTo(bufs, i - 1) + Total(SubSeq(bufs, i, m))
        BY <2>1
    <2> HIDE DEF m, T
    <2>3. UpTo(bufs, m + 1) = UpTo(bufs, m) + bufs[m + 1].size /\ UpTo(bufs, i - 1) \in Nat
        BY <2>1, UpToFacts
    <2>4. /\ Total(SubSeq(bufs, i, m + 1)) = Total(SubSeq(bufs, i, m)) + bufs[m + 1].size
          /\ Total(SubSeq(bufs, i, m)) \in Nat /\ bufs[m + 1].size \in Nat
        BY <1>0, <2>1
    <2> QED BY <2>1, <2>2, <2>3, <2>4, SMTT(20)
<1> HIDE DEF T
<1>3. \A d \in Nat : d \in T
    BY <1>1, <1>2, Adding!NaturalInduction
<1>4. j - i \in T /\ i + (j - i) = j /\ j <= Len(bufs)
    BY <1>3
<1> QED BY <1>4 DEF T

\* The sum of two sequences, one after the other.
LEMMA TotalOfJoined ==
    ASSUME NEW S, \A e \in S : e.size \in Nat, NEW a \in Seq(S), NEW b \in Seq(S)
    PROVE  Total(a \o b) = Total(a) + Total(b)
<1> DEFINE c == a \o b
<1>1. /\ c \in Seq(S) /\ Len(c) = Len(a) + Len(b)
      /\ SubSeq(c, 1, Len(a)) = a
      /\ SubSeq(c, Len(a) + 1, Len(c)) = b
    OBVIOUS
<1>2. Len(a) \in Nat /\ Len(b) \in Nat
    OBVIOUS
<1> HIDE DEF c
<1>3. Total(c) = UpTo(c, Len(c)) /\ UpTo(c, Len(a)) = Total(a)
    BY <1>1, UpToFacts DEF UpTo
<1>4. CASE Len(b) = 0
    <2>1. b = <<>> /\ Total(b) = 0
        BY <1>4, TotalEmpty
    <2>2. Total(a) \in Nat
        BY TotalNat
    <2> QED BY <1>1, <1>2, <1>3, <1>4, <2>1, <2>2 DEF c
<1>5. CASE Len(b) # 0
    <2>1. /\ Len(a) + 1 \in 1 .. Len(c) /\ Len(c) \in Len(a) + 1 .. Len(c)
          /\ (Len(a) + 1) - 1 = Len(a)
        BY <1>1, <1>2, <1>5
    <2>2. UpTo(c, Len(c)) = UpTo(c, Len(a)) + Total(SubSeq(c, Len(a) + 1, Len(c)))
        BY <1>1, <2>1, UpToRun
    <2> QED BY <1>1, <1>3, <2>2 DEF c
<1> QED BY <1>4, <1>5
-----------------------------------------------------------------------------
(***************************************************************************)
(* Sequences joined one after the other.                                   *)
(***************************************************************************)
\* f[i] is the first i of them.
JoinedBy(f, seqs) ==
    /\ f[1] = seqs[1]
    /\ \A i \in 2 .. Len(seqs) : f[i] = f[i - 1] \o seqs[i]

LEMMA FlattenRuns ==
    ASSUME NEW S, NEW seqs \in Seq(Seq(S)), Len(seqs) # 0
    PROVE  \E f : /\ JoinedBy(f, seqs)
                 /\ \A i \in 1 .. Len(seqs) : f[i] \in Seq(S)
                 /\ FlattenSeq(seqs) = f[Len(seqs)]
<1> DEFINE n == Len(seqs)
           Is(f) == f = [i \in 1 .. n |-> IF i = 1 THEN seqs[i] ELSE f[i - 1] \o seqs[i]]
           joined == CHOOSE f : Is(f)
<1>1. FlattenSeq(seqs) = joined[n]
    BY DEF FlattenSeq
<1>2. n \in Nat \ {0} /\ \A k \in 1 .. n : seqs[k] \in Seq(S)
    OBVIOUS
<1>0. n = Len(seqs)
    OBVIOUS
<1> HIDE DEF n
<1>3. \A f : Is(f) <=> Joining!IsRunning(f, n, seqs)
    BY DEF Joining!IsRunning, Joined
<1> HIDE DEF Is
<1>4. \E f : Is(f)
    BY <1>2, <1>3, Joining!RunningExists
<1>5. Joining!IsRunning(joined, n, seqs)
    BY <1>3, <1>4
<1> HIDE DEF joined
<1>6. seqs[1] \in Seq(S)
    BY <1>2
<1>7. \A v \in Seq(S), k \in 2 .. n : Joined(v, seqs[k]) \in Seq(S)
    BY <1>2 DEF Joined
<1>8. \A i \in 1 .. n : joined[i] \in Seq(S)
    BY <1>2, <1>5, <1>6, <1>7, Joining!RunningStays
<1>9. JoinedBy(joined, seqs)
    <2>1. joined[1] = seqs[1]
        BY <1>2, <1>5 DEF Joining!IsRunning
    <2>2. ASSUME NEW i \in 2 .. n PROVE joined[i] = joined[i - 1] \o seqs[i]
        <3>1. i \in 1 .. n /\ i # 1
            BY <1>2
        <3> QED BY <1>5, <3>1 DEF Joining!IsRunning, Joined
    <2> QED BY <1>0, <2>1, <2>2 DEF JoinedBy
<1> QED BY <1>0, <1>1, <1>8, <1>9

\* No sequence joined is no element.
LEMMA FlattenNone ==
    ASSUME NEW seqs, seqs = <<>> PROVE FlattenSeq(seqs) = <<>>
<1>1. Len(seqs) = 0
    OBVIOUS
<1> QED BY <1>1 DEF FlattenSeq

\* Joined, sequences as long as the buffers are large have their sizes for length.
LEMMA FlattenLength ==
    ASSUME NEW V, NEW seqs \in Seq(Seq(V)), NEW S, \A e \in S : e.size \in Nat,
           NEW bufs \in Seq(S), Len(bufs) = Len(seqs),
           \A i \in 1 .. Len(seqs) : Len(seqs[i]) = bufs[i].size
    PROVE  Len(FlattenSeq(seqs)) = Total(bufs) /\ FlattenSeq(seqs) \in Seq(V)
<1>1. FlattenSeq(seqs) \in Seq(V)
    BY FlattenSeqType
<1>2. CASE Len(seqs) = 0
    <2>1. seqs = <<>> /\ bufs = <<>>
        BY <1>2
    <2>2. FlattenSeq(seqs) = <<>> /\ Total(bufs) = 0
        BY <2>1, FlattenNone, TotalEmpty
    <2>3. Len(FlattenSeq(seqs)) = 0
        BY <2>2, EmptyFacts
    <2> QED BY <1>1, <2>2, <2>3
<1>3. CASE Len(seqs) # 0
    <2>1. PICK f : /\ JoinedBy(f, seqs)
                   /\ \A i \in 1 .. Len(seqs) : f[i] \in Seq(V)
                   /\ FlattenSeq(seqs) = f[Len(seqs)]
        BY <1>3, FlattenRuns
    <2> DEFINE n == Len(seqs)
               T == {k \in Nat : k + 1 <= n => Len(f[k + 1]) = UpTo(bufs, k + 1)}
    <2>2. n \in Nat \ {0} /\ n = Len(bufs) /\ \A i \in 1 .. n : seqs[i] \in Seq(V)
        BY <1>3
    <2>3. 0 \in T
        <3>1. f[1] = seqs[1] /\ 1 \in 1 .. n /\ 1 - 1 = 0
            BY <2>1, <2>2 DEF JoinedBy
        <3>2. UpTo(bufs, 1) = UpTo(bufs, 0) + bufs[1].size /\ UpTo(bufs, 0) = 0
            BY <2>2, <3>1, UpToFacts
        <3>3. bufs[1].size \in Nat
            BY <2>2, <3>1
        <3>4. Len(f[1]) = bufs[1].size
            BY <3>1
        <3> HIDE DEF n
        <3>5. Len(f[1]) = UpTo(bufs, 1)
            BY <3>2, <3>3, <3>4
        <3> QED BY <3>5
    <2>4. ASSUME NEW k \in Nat, k \in T, (k + 1) + 1 <= n
          PROVE  Len(f[(k + 1) + 1]) = UpTo(bufs, (k + 1) + 1)
        <3> DEFINE i == (k + 1) + 1
        <3>1. i \in 2 .. Len(seqs) /\ i \in 1 .. n /\ i - 1 = k + 1 /\ k + 1 \in 1 .. n /\ k + 1 <= n
            BY <2>2, <2>4
        <3>2. Len(f[k + 1]) = UpTo(bufs, k + 1)
            BY <2>4, <3>1
        <3> HIDE DEF i, T, n
        <3>3. f[i] = f[k + 1] \o seqs[i]
            BY <2>1, <3>1 DEF JoinedBy
        <3>4. f[k + 1] \in Seq(V) /\ seqs[i] \in Seq(V)
            BY <2>1, <2>2, <3>1 DEF n
        <3>5. Len(f[i]) = Len(f[k + 1]) + Len(seqs[i])
            BY <3>3, <3>4
        <3>6. Len(seqs[i]) = bufs[i].size
            BY <3>1
        <3>7. UpTo(bufs, i) = UpTo(bufs, k + 1) + bufs[i].size
            BY <2>2, <3>1, UpToFacts
        <3> QED BY <3>2, <3>5, <3>6, <3>7 DEF i
    <2>5. \A k \in Nat : k \in T => k + 1 \in T
        BY <2>4
    <2> HIDE DEF T
    <2>6. \A k \in Nat : k \in T
        BY <2>3, <2>5, Adding!NaturalInduction
    <2>7. n - 1 \in T /\ (n - 1) + 1 = n /\ n <= n
        BY <2>2, <2>6
    <2>8. Len(f[n]) = UpTo(bufs, n)
        BY <2>7 DEF T
    <2> HIDE DEF n
    <2>9. UpTo(bufs, n) = Total(bufs)
        BY <2>2, UpToFacts
    <2> QED BY <1>1, <2>1, <2>8, <2>9 DEF n
<1> QED BY <1>2, <1>3
-----------------------------------------------------------------------------
(***************************************************************************)
(* Where the bytes of a request belong.                                    *)
(***************************************************************************)
Locations == Places \X Nat

IsTensor(tensor) ==
    /\ tensor.inputs \in Seq(Seq(InputBuffers)) /\ Len(tensor.inputs) = RequestCount
    /\ RequestCount \in Nat

LEMMA BytesType ==
    ASSUME NEW b, b.size \in Nat, b.addr \in Nat, b.place \in Places
    PROVE  Bytes(b) \in Seq(Locations) /\ Len(Bytes(b)) = b.size
<1>1. \A i \in 1 .. b.size : <<b.place, b.addr + i - 1>> \in Locations
    BY DEF Locations
<1>2. Bytes(b) \in [1 .. b.size -> Locations]
    BY <1>1 DEF Bytes
<1>3. Bytes(b) \in Seq(Locations) /\ Len(Bytes(b)) = b.size
    BY <1>2
<1> QED BY <1>3

LEMMA InputBytesLength ==
    ASSUME NEW tensor, IsTensor(tensor), NEW r \in Requests
    PROVE  /\ InputBytes(tensor, r) \in Seq(Locations)
           /\ Len(InputBytes(tensor, r)) = Total(tensor.inputs[r])
           /\ Total(tensor.inputs[r]) \in Nat
<1> DEFINE bufs == tensor.inputs[r]
           seqs == [i \in DOMAIN bufs |-> Bytes(bufs[i])]
<1>1. bufs \in Seq(InputBuffers)
    BY DEF IsTensor, Requests
<1>2. InputBytes(tensor, r) = FlattenSeq(seqs)
    BY DEF InputBytes
<1>3. /\ Len(bufs) \in Nat /\ DOMAIN bufs = 1 .. Len(bufs)
      /\ \A i \in 1 .. Len(bufs) : bufs[i] \in InputBuffers
    BY <1>1
<1>4. \A e \in InputBuffers : e.size \in Nat /\ e.addr \in Nat /\ e.place \in Places
    BY DEF InputBuffers
<1> HIDE DEF bufs
<1>5. \A i \in 1 .. Len(bufs) : Bytes(bufs[i]) \in Seq(Locations) /\ Len(Bytes(bufs[i])) = bufs[i].size
    BY <1>3, <1>4, BytesType
<1>6. seqs \in [1 .. Len(bufs) -> Seq(Locations)]
    BY <1>3, <1>5
<1>7. seqs \in Seq(Seq(Locations)) /\ Len(seqs) = Len(bufs)
    <2> HIDE DEF seqs
    <2> QED BY <1>3, <1>6
<1>8. \A i \in 1 .. Len(seqs) : Len(seqs[i]) = bufs[i].size
    BY <1>3, <1>5, <1>7
<1> HIDE DEF seqs
<1>9. Len(FlattenSeq(seqs)) = Total(bufs) /\ FlattenSeq(seqs) \in Seq(Locations)
    BY <1>1, <1>4, <1>7, <1>8, FlattenLength
<1>10. Total(bufs) \in Nat
    BY <1>1, <1>4, TotalNat
<1> QED BY <1>2, <1>9, <1>10 DEF bufs
-----------------------------------------------------------------------------
\* The lengths of the inputs, added up in some order.
AddLength(sum, n) == n + sum
Summing == INSTANCE FoldTheorems WITH Op <- AddLength

Lengths(tensor) == [q \in Requests |-> Len(InputBytes(tensor, q))]

LEMMA OffsetIsSum ==
    \A tensor, r : InputOffset(tensor, r) = Summing!SetValue(1 .. r - 1, Lengths(tensor), 0)
BY DEF InputOffset, FoldFunctionOnSet, MapThenFoldSet, Lengths, Summing!SetValue, Summing!SetFold,
       Summing!Any, AddLength

\* The input of a request ends where that of the next one begins.
LEMMA OffsetFacts ==
    ASSUME NEW tensor, IsTensor(tensor)
    PROVE  /\ InputOffset(tensor, 1) = 0
           /\ \A r \in Requests :
                 /\ InputOffset(tensor, r) \in Nat /\ InputOffset(tensor, r + 1) \in Nat
                 /\ InputOffset(tensor, r + 1) = InputEnd(tensor, r)
                 /\ InputEnd(tensor, r) = InputOffset(tensor, r) + Total(tensor.inputs[r])
<1> DEFINE lens == Lengths(tensor)
<1>1. RequestCount \in Nat /\ Requests = 1 .. RequestCount
    BY DEF IsTensor, Requests
<1>2. \A q \in Requests : lens[q] = Total(tensor.inputs[q]) /\ lens[q] \in Nat
    BY InputBytesLength DEF Lengths
<1> HIDE DEF lens
<1>3. ASSUME NEW S \in SUBSET Requests PROVE Summing!Commutes(Nat, S, lens)
    <2>1. \A v \in Nat, x \in S : AddLength(v, lens[x]) \in Nat
        BY <1>2 DEF AddLength
    <2>2. ASSUME NEW v \in Nat, NEW x \in S, NEW y \in S
          PROVE  AddLength(AddLength(v, lens[x]), lens[y]) = AddLength(AddLength(v, lens[y]), lens[x])
        <3>1. lens[x] \in Nat /\ lens[y] \in Nat
            BY <1>2
        <3> QED BY <3>1 DEF AddLength
    <2> QED BY <2>1, <2>2 DEF Summing!Commutes
<1>4. ASSUME NEW k \in Nat PROVE Summing!IsFiniteSet(1 .. k)
    <2>1. IsFiniteSet(1 .. k)
        BY FS_Interval
    <2> QED BY <2>1 DEF IsFiniteSet, Summing!IsFiniteSet
<1>5. InputOffset(tensor, 1) = 0
    <2>1. 1 .. 1 - 1 = {}
        OBVIOUS
    <2> QED BY <2>1, OffsetIsSum, Summing!SetValueEmpty
<1>6. ASSUME NEW k \in 0 .. RequestCount
      PROVE  Summing!SetValue(1 .. k, lens, 0) \in Nat
    <2>1. 1 .. k \in SUBSET Requests /\ k \in Nat
        BY <1>1
    <2>2. Summing!Commutes(Nat, 1 .. k, lens) /\ Summing!IsFiniteSet(1 .. k) /\ 0 \in Nat
        BY <1>3, <1>4, <2>1
    <2> QED BY <2>2, Summing!SetValueType
<1>7. ASSUME NEW r \in Requests
      PROVE  /\ InputOffset(tensor, r) \in Nat /\ InputOffset(tensor, r + 1) \in Nat
             /\ InputOffset(tensor, r + 1) = lens[r] + InputOffset(tensor, r)
    <2>1. /\ r - 1 \in 0 .. RequestCount /\ r \in 0 .. RequestCount /\ (r + 1) - 1 = r
          /\ r - 1 \in Nat /\ r \notin 1 .. r - 1 /\ (1 .. r - 1) \cup {r} = 1 .. r
          /\ (1 .. r - 1) \cup {r} \in SUBSET Requests
        BY <1>1
    <2>2. /\ InputOffset(tensor, r) = Summing!SetValue(1 .. r - 1, lens, 0)
          /\ InputOffset(tensor, r + 1) = Summing!SetValue(1 .. r, lens, 0)
        BY <2>1, OffsetIsSum DEF lens
    <2>3. Summing!SetValue((1 .. r - 1) \cup {r}, lens, 0)
              = AddLength(Summing!SetValue(1 .. r - 1, lens, 0), lens[r])
        <3> DEFINE S == 1 .. r - 1
                   V == Nat
        <3>1. /\ Summing!IsFiniteSet(S) /\ 0 \in V /\ r \notin S
              /\ Summing!Commutes(V, S \cup {r}, lens)
            BY <1>3, <1>4, <2>1
        <3>2. \A y \in S : lens[y] = lens[y]
            OBVIOUS
        <3> HIDE DEF S, V
        <3>3. Summing!SetValue(S \cup {r}, lens, 0)
                  = AddLength(Summing!SetValue(S, lens, 0), lens[r])
            BY <3>1, <3>2, Summing!SetValueWithElement
        <3> QED BY <3>3 DEF S
    <2> QED BY <1>6, <2>1, <2>2, <2>3 DEF AddLength
<1>8. ASSUME NEW r \in Requests
      PROVE  InputEnd(tensor, r) = InputOffset(tensor, r) + lens[r]
    BY DEF InputEnd, lens, Lengths
<1>9. ASSUME NEW r \in Requests
      PROVE  /\ InputOffset(tensor, r + 1) = InputEnd(tensor, r)
             /\ InputEnd(tensor, r) = InputOffset(tensor, r) + Total(tensor.inputs[r])
    <2>1. lens[r] \in Nat /\ lens[r] = Total(tensor.inputs[r])
        BY <1>2
    <2> QED BY <1>7, <1>8, <2>1
<1> QED BY <1>5, <1>7, <1>9
-----------------------------------------------------------------------------
(***************************************************************************)
(* The buffers of a tensor in the order of the iterator.                   *)
(***************************************************************************)
OfRequest(tensor, r) ==
    [i \in DOMAIN tensor.inputs[r] |->
        LET b == tensor.inputs[r][i] IN
        [place |-> b.place, addr |-> b.addr, size |-> b.size, first |-> r, last |-> r]]

LEMMA OfRequestFacts ==
    ASSUME NEW tensor, IsTensor(tensor), NEW r \in Requests
    PROVE  /\ OfRequest(tensor, r) \in Seq(Collectable)
           /\ Len(OfRequest(tensor, r)) = Len(tensor.inputs[r])
           /\ \A i \in 1 .. Len(tensor.inputs[r]) :
                 LET b == tensor.inputs[r][i]
                 IN  OfRequest(tensor, r)[i] = [place |-> b.place, addr |-> b.addr, size |-> b.size,
                                                first |-> r, last |-> r]
           /\ \A i \in 1 .. Len(OfRequest(tensor, r)) :
                 OfRequest(tensor, r)[i].first = r /\ OfRequest(tensor, r)[i].last = r
           /\ Total(OfRequest(tensor, r)) = Total(tensor.inputs[r])
           /\ \A i \in 0 .. Len(tensor.inputs[r]) :
                 UpTo(OfRequest(tensor, r), i) = UpTo(tensor.inputs[r], i)
<1> DEFINE bufs == tensor.inputs[r]
           One(k) == [place |-> bufs[k].place, addr |-> bufs[k].addr, size |-> bufs[k].size,
                      first |-> r, last |-> r]
           mine == OfRequest(tensor, r)
<1>1. bufs \in Seq(InputBuffers) /\ r \in Nat
    BY DEF IsTensor, Requests
<1>2. /\ Len(bufs) \in Nat /\ DOMAIN bufs = 1 .. Len(bufs)
      /\ \A k \in 1 .. Len(bufs) : bufs[k] \in InputBuffers
    BY <1>1
<1>3. mine = [k \in 1 .. Len(bufs) |-> One(k)]
    BY <1>2 DEF OfRequest
<1>4. \A k \in 1 .. Len(bufs) : One(k) \in Collectable /\ One(k).size = bufs[k].size
    BY <1>1, <1>2 DEF InputBuffers, Collectable
<1> HIDE DEF bufs, mine
<1>5. mine \in Seq(Collectable) /\ Len(mine) = Len(bufs) /\ \A k \in 1 .. Len(bufs) : mine[k] = One(k)
    <2> HIDE DEF One
    <2>1. mine \in [1 .. Len(bufs) -> Collectable]
        BY <1>3, <1>4
    <2> QED BY <1>2, <1>3, <2>1
<1>6. \A k \in 1 .. Len(bufs) : mine[k].size = bufs[k].size
    BY <1>4, <1>5
<1>7. Total(mine) = Total(bufs) /\ \A i \in 0 .. Len(bufs) : UpTo(mine, i) = UpTo(bufs, i)
    <2> DEFINE n == Len(bufs)
               T == {k \in Nat : k <= n => UpTo(mine, k) = UpTo(bufs, k)}
    <2>1. \A e \in Collectable : e.size \in Nat
        BY DEF Collectable
    <2>2. \A e \in InputBuffers : e.size \in Nat
        BY DEF InputBuffers
    <2>3. UpTo(mine, 0) = 0 /\ UpTo(bufs, 0) = 0
        BY <1>1, <1>5, <2>1, <2>2, UpToFacts
    <2>4. ASSUME NEW k \in Nat, k \in T, k + 1 <= n PROVE UpTo(mine, k + 1) = UpTo(bufs, k + 1)
        <3>1. k + 1 \in 1 .. n /\ (k + 1) - 1 = k /\ k <= n
            BY <1>2, <2>4
        <3>2. UpTo(mine, k) = UpTo(bufs, k)
            BY <2>4, <3>1
        <3>3. UpTo(mine, k + 1) = UpTo(mine, k) + mine[k + 1].size
            BY <1>5, <2>1, <3>1, UpToFacts
        <3>4. UpTo(bufs, k + 1) = UpTo(bufs, k) + bufs[k + 1].size
            BY <1>1, <2>2, <3>1, UpToFacts
        <3> QED BY <1>6, <3>1, <3>2, <3>3, <3>4
    <2>5. 0 \in T /\ \A k \in Nat : k \in T => k + 1 \in T
        BY <2>3, <2>4
    <2> HIDE DEF T
    <2>6. \A k \in Nat : k \in T
        BY <2>5, Adding!NaturalInduction
    <2>7. \A i \in 0 .. n : UpTo(mine, i) = UpTo(bufs, i)
        BY <1>2, <2>6 DEF T
    <2>8. UpTo(mine, Len(mine)) = Total(mine) /\ UpTo(bufs, Len(bufs)) = Total(bufs)
        BY <1>1, <1>5, <2>1, <2>2, UpToFacts
    <2>9. n \in 0 .. n
        BY <1>2
    <2> QED BY <1>5, <2>7, <2>8, <2>9
<1>8. \A i \in 1 .. Len(mine) : mine[i].first = r /\ mine[i].last = r
    <2>1. \A i \in 1 .. Len(mine) : mine[i] = One(i)
        BY <1>5
    <2>2. \A i : One(i).first = r /\ One(i).last = r
        OBVIOUS
    <2> HIDE DEF One
    <2> QED BY <2>1, <2>2
<1> QED BY <1>5, <1>7, <1>8 DEF bufs, mine
-----------------------------------------------------------------------------
\* f[i] is the buffers of the first i requests: they end where the input of request i does.
Ordered(f, tensor, i) ==
    /\ f[i] \in Seq(Collectable)
    /\ Total(f[i]) = InputEnd(tensor, i)
    /\ \A k \in 1 .. Len(f[i]) : f[i][k].first \in 1 .. i /\ f[i][k].last = f[i][k].first

InRequestOrder(f, tensor) ==
    /\ f[1] = OfRequest(tensor, 1)
    /\ \A i \in 2 .. RequestCount : f[i] = f[i - 1] \o OfRequest(tensor, i)
    /\ \A i \in Requests : Ordered(f, tensor, i)

LEMMA OneMoreRequest ==
    ASSUME NEW tensor, IsTensor(tensor), NEW i \in Requests, NEW s \in Seq(Collectable),
           Total(s) = InputOffset(tensor, i),
           \A k \in 1 .. Len(s) : s[k].first \in 1 .. i /\ s[k].last = s[k].first,
           NEW f, f[i] = s \o OfRequest(tensor, i)
    PROVE  Ordered(f, tensor, i)
<1> DEFINE mine == OfRequest(tensor, i)
<1>1. /\ mine \in Seq(Collectable) /\ Total(mine) = Total(tensor.inputs[i])
      /\ \A k \in 1 .. Len(mine) : mine[k].first = i /\ mine[k].last = i
    BY OfRequestFacts
<1>2. i \in 1 .. i
    BY DEF Requests, IsTensor
<1> HIDE DEF mine
<1>3. f[i] = s \o mine
    BY DEF mine
<1>4. f[i] \in Seq(Collectable) /\ Len(f[i]) = Len(s) + Len(mine)
    BY <1>1, <1>3
<1>5. Total(f[i]) = InputEnd(tensor, i)
    <2>1. \A e \in Collectable : e.size \in Nat
        BY DEF Collectable
    <2>2. Total(f[i]) = Total(s) + Total(mine)
        BY <1>1, <1>3, <2>1, TotalOfJoined
    <2>3. InputEnd(tensor, i) = InputOffset(tensor, i) + Total(tensor.inputs[i])
        BY OffsetFacts
    <2> QED BY <1>1, <2>2, <2>3
<1>6. ASSUME NEW k \in 1 .. Len(f[i]) PROVE f[i][k].first \in 1 .. i /\ f[i][k].last = f[i][k].first
    <2>1. CASE k <= Len(s)
        <3>1. f[i][k] = s[k] /\ k \in 1 .. Len(s)
            BY <1>1, <1>3, <2>1
        <3> QED BY <3>1
    <2>2. CASE k > Len(s)
        <3>1. f[i][k] = mine[k - Len(s)] /\ k - Len(s) \in 1 .. Len(mine)
            BY <1>1, <1>3, <1>4, <2>2
        <3> QED BY <1>1, <1>2, <3>1
    <2> QED BY <1>4, <2>1, <2>2
<1> QED BY <1>4, <1>5, <1>6 DEF Ordered

LEMMA CollectedRuns ==
    ASSUME NEW tensor, IsTensor(tensor), RequestCount # 0
    PROVE  \E f : InRequestOrder(f, tensor) /\ Collected(tensor) = f[RequestCount]
<1> DEFINE seqs == [r \in Requests |-> OfRequest(tensor, r)]
<1>1. RequestCount \in Nat \ {0} /\ Requests = 1 .. RequestCount
    BY DEF IsTensor, Requests
<1>2. Collected(tensor) = FlattenSeq(seqs)
    BY DEF Collected, OfRequest
<1>3. \A r \in Requests : OfRequest(tensor, r) \in Seq(Collectable)
    BY OfRequestFacts
<1>4. seqs \in [1 .. RequestCount -> Seq(Collectable)]
    BY <1>1, <1>3
<1>5. \A r \in 1 .. RequestCount : seqs[r] = OfRequest(tensor, r)
    BY <1>1
<1> HIDE DEF seqs
<1>6. seqs \in Seq(Seq(Collectable)) /\ Len(seqs) = RequestCount
    BY <1>1, <1>4
<1>7. PICK f : /\ JoinedBy(f, seqs)
               /\ \A i \in 1 .. Len(seqs) : f[i] \in Seq(Collectable)
               /\ FlattenSeq(seqs) = f[Len(seqs)]
    BY <1>1, <1>6, FlattenRuns
<1>8. /\ f[1] = OfRequest(tensor, 1)
      /\ \A i \in 2 .. RequestCount : f[i] = f[i - 1] \o OfRequest(tensor, i)
    <2>1. 1 \in 1 .. RequestCount /\ \A i \in 2 .. RequestCount : i \in 1 .. RequestCount
        BY <1>1
    <2> QED BY <1>5, <1>6, <1>7, <2>1 DEF JoinedBy
<1> DEFINE T == {k \in Nat : k + 1 <= RequestCount => Ordered(f, tensor, k + 1)}
<1>9. 0 \in T
    <2>1. 1 \in Requests /\ <<>> \in Seq(Collectable) /\ Len(<<>>) = 0
        BY <1>1
    <2>2. f[1] = <<>> \o OfRequest(tensor, 1)
        <3>1. OfRequest(tensor, 1) \in Seq(Collectable)
            BY <1>3, <2>1
        <3> HIDE DEF T
        <3> QED BY <1>8, <3>1
    <2>3. Total(<<>>) = InputOffset(tensor, 1)
        BY TotalEmpty, OffsetFacts
    <2>4. \A k \in 1 .. Len(<<>>) : <<>>[k].first \in 1 .. 1 /\ <<>>[k].last = <<>>[k].first
        BY <2>1
    <2>5. Ordered(f, tensor, 1)
        BY <2>1, <2>2, <2>3, <2>4, OneMoreRequest
    <2> QED BY <2>5
<1>10. ASSUME NEW k \in Nat, k \in T, (k + 1) + 1 <= RequestCount
       PROVE  Ordered(f, tensor, (k + 1) + 1)
    <2> DEFINE i == (k + 1) + 1
    <2>1. /\ i \in Requests /\ k + 1 \in Requests /\ i \in 2 .. RequestCount /\ i - 1 = k + 1
          /\ k + 1 <= RequestCount /\ k + 1 \in Nat
        BY <1>1, <1>10
    <2>2. Ordered(f, tensor, k + 1)
        BY <1>10, <2>1
    <2>3. f[i] = f[k + 1] \o OfRequest(tensor, i)
        BY <1>8, <2>1
    <2>4. InputOffset(tensor, i) = InputEnd(tensor, k + 1)
        BY <2>1, OffsetFacts
    <2>5. \A m \in 1 .. k + 1 : m \in 1 .. i
        BY <2>1
    <2> HIDE DEF i, T
    <2>6. /\ f[k + 1] \in Seq(Collectable) /\ Total(f[k + 1]) = InputOffset(tensor, i)
          /\ \A m \in 1 .. Len(f[k + 1]) : /\ f[k + 1][m].first \in 1 .. i
                                           /\ f[k + 1][m].last = f[k + 1][m].first
        BY <2>2, <2>4, <2>5 DEF Ordered
    <2>7. Ordered(f, tensor, i)
        BY <2>1, <2>3, <2>6, OneMoreRequest
    <2> QED BY <2>7 DEF i
<1>11. \A k \in Nat : k \in T => k + 1 \in T
    BY <1>10
<1> HIDE DEF T
<1>12. \A k \in Nat : k \in T
    BY <1>9, <1>11, Adding!NaturalInduction
<1>13. ASSUME NEW i \in Requests PROVE Ordered(f, tensor, i)
    <2>1. i - 1 \in T /\ (i - 1) + 1 = i /\ i <= RequestCount
        BY <1>1, <1>12
    <2> QED BY <2>1 DEF T
<1>14. InRequestOrder(f, tensor)
    BY <1>8, <1>13 DEF InRequestOrder
<1> QED BY <1>2, <1>6, <1>7, <1>14

\* The buffers of the requests up to R stay in front whatever is joined.
InFront(f, R, m) ==
    /\ Len(f[R]) <= Len(f[m])
    /\ \A k \in 1 .. Len(f[R]) : f[m][k] = f[R][k]
    /\ \A k \in Len(f[R]) + 1 .. Len(f[m]) : f[m][k].first > R

LEMMA FrontStays ==
    ASSUME NEW tensor, IsTensor(tensor), NEW f, InRequestOrder(f, tensor), NEW R \in Requests
    PROVE  InFront(f, R, RequestCount)
<1> DEFINE T == {d \in Nat : R + d <= RequestCount => InFront(f, R, R + d)}
<1>1. RequestCount \in Nat /\ Requests = 1 .. RequestCount /\ R \in Nat
    BY DEF IsTensor, Requests
<1>2. \A i \in Requests : f[i] \in Seq(Collectable)
    BY DEF InRequestOrder, Ordered
<1>3. 0 \in T
    <2>1. Len(f[R]) \in Nat
        BY <1>2
    <2>2. InFront(f, R, R)
        BY <2>1 DEF InFront
    <2>3. R + 0 = R
        BY <1>1
    <2> HIDE DEF T
    <2>4. InFront(f, R, R + 0)
        BY <2>2, <2>3
    <2> QED BY <2>4 DEF T
<1>4. ASSUME NEW d \in Nat, d \in T, R + (d + 1) <= RequestCount PROVE InFront(f, R, R + (d + 1))
    <2> DEFINE m == R + d
               i == R + (d + 1)
               mine == OfRequest(tensor, i)
    <2>1. /\ m \in Requests /\ i \in Requests /\ i \in 2 .. RequestCount /\ i - 1 = m /\ i > R
          /\ R + d <= RequestCount
        BY <1>1, <1>4
    <2>2. InFront(f, R, m)
        BY <1>4, <2>1
    <2> HIDE DEF T, m
    <2>3. /\ mine \in Seq(Collectable) /\ \A k \in 1 .. Len(mine) : mine[k].first = i
        BY <2>1, OfRequestFacts
    <2>4. f[i] = f[m] \o mine
        BY <2>1 DEF InRequestOrder
    <2> HIDE DEF mine, i
    <2>5. f[m] \in Seq(Collectable) /\ f[R] \in Seq(Collectable)
        BY <1>2, <2>1
    <2>6. Len(f[i]) = Len(f[m]) + Len(mine) /\ Len(f[m]) \in Nat /\ Len(mine) \in Nat /\ Len(f[R]) \in Nat
        BY <2>3, <2>4, <2>5
    <2>7. ASSUME NEW k \in 1 .. Len(f[m]) PROVE f[i][k] = f[m][k]
        BY <2>3, <2>4, <2>5
    <2>8. ASSUME NEW k \in Len(f[m]) + 1 .. Len(f[i]) PROVE f[i][k].first > R
        <3>1. k - Len(f[m]) \in 1 .. Len(mine) /\ f[i][k] = mine[k - Len(f[m])]
            BY <2>3, <2>4, <2>5, <2>6
        <3>2. f[i][k].first = i
            BY <2>3, <3>1
        <3> QED BY <2>1, <3>2
    <2>9. Len(f[R]) <= Len(f[i])
        BY <2>2, <2>6 DEF InFront
    <2>10. ASSUME NEW k \in 1 .. Len(f[R]) PROVE f[i][k] = f[R][k]
        <3>1. k \in 1 .. Len(f[m])
            BY <2>2, <2>6 DEF InFront
        <3> QED BY <2>2, <2>7, <3>1 DEF InFront
    <2>11. ASSUME NEW k \in Len(f[R]) + 1 .. Len(f[i]) PROVE f[i][k].first > R
        <3>1. CASE k <= Len(f[m])
            <4>1. k \in 1 .. Len(f[m]) /\ k \in Len(f[R]) + 1 .. Len(f[m])
                BY <2>6, <3>1
            <4> QED BY <2>2, <2>7, <4>1 DEF InFront
        <3>2. CASE ~(k <= Len(f[m]))
            <4>1. k \in Len(f[m]) + 1 .. Len(f[i])
                BY <2>6, <3>2
            <4> QED BY <2>8, <4>1
        <3> QED BY <3>1, <3>2
    <2>12. InFront(f, R, i)
        BY <2>9, <2>10, <2>11 DEF InFront
    <2> QED BY <2>12 DEF i
<1>5. \A d \in Nat : d \in T => d + 1 \in T
    BY <1>4
<1> HIDE DEF T
<1>6. \A d \in Nat : d \in T
    BY <1>3, <1>5, Adding!NaturalInduction
<1>7. RequestCount - R \in T /\ R + (RequestCount - R) = RequestCount
    BY <1>1, <1>6
<1> QED BY <1>1, <1>7 DEF T

(***************************************************************************)
(* A buffer of one of the first R requests ends within their inputs.       *)
(***************************************************************************)
LEMMA CollectedOrder ==
    ASSUME NEW tensor, IsTensor(tensor)
    PROVE  LET bufs == Collected(tensor)
           IN  /\ bufs \in Seq(Collectable)
               /\ \A k \in 1 .. Len(bufs) :
                     /\ bufs[k].first \in Requests /\ bufs[k].last = bufs[k].first
                     /\ \A R \in Requests :
                           bufs[k].first <= R => UpTo(bufs, k) <= InputEnd(tensor, R)
<1> DEFINE bufs == Collected(tensor)
<1>1. CASE RequestCount = 0
    <2> DEFINE seqs == [r \in Requests |-> OfRequest(tensor, r)]
    <2>1. bufs = FlattenSeq(seqs)
        BY DEF Collected, OfRequest
    <2>2. seqs = <<>>
        <3>1. Requests = {}
            BY <1>1 DEF Requests
        <3> QED BY <3>1
    <2> HIDE DEF seqs
    <2>3. bufs = <<>>
        BY <2>1, <2>2, FlattenNone
    <2>4. bufs \in Seq(Collectable) /\ 1 .. Len(bufs) = {}
        BY <2>3
    <2> QED BY <2>4
<1>2. CASE RequestCount # 0
    <2>1. PICK f : InRequestOrder(f, tensor) /\ bufs = f[RequestCount]
        BY <1>2, CollectedRuns
    <2>2. RequestCount \in Requests /\ Requests = 1 .. RequestCount /\ RequestCount \in Nat
        BY <1>2 DEF IsTensor, Requests
    <2>3. /\ bufs \in Seq(Collectable)
          /\ \A k \in 1 .. Len(bufs) : bufs[k].first \in Requests /\ bufs[k].last = bufs[k].first
        <3> HIDE DEF bufs
        <3>1. Ordered(f, tensor, RequestCount)
            BY <2>1, <2>2 DEF InRequestOrder
        <3> QED BY <2>1, <2>2, <3>1 DEF Ordered
    <2> HIDE DEF bufs
    <2>4. ASSUME NEW k \in 1 .. Len(bufs), NEW R \in Requests, bufs[k].first <= R
          PROVE  UpTo(bufs, k) <= InputEnd(tensor, R)
        <3>1. InFront(f, R, RequestCount)
            BY <2>1, FrontStays
        <3>2. f[R] \in Seq(Collectable) /\ Total(f[R]) = InputEnd(tensor, R)
            BY <2>1 DEF InRequestOrder, Ordered
        <3> DEFINE n == Len(f[R])
        <3>3. n \in Nat /\ n <= Len(bufs) /\ \A q \in 1 .. n : bufs[q] = f[R][q]
            BY <2>1, <3>1, <3>2 DEF InFront
        <3>4. k <= n
            <4> SUFFICES ASSUME k > n PROVE FALSE
                BY <3>3
            <4>1. k \in n + 1 .. Len(bufs)
                BY <2>3, <3>3
            <4>2. bufs[k].first > R
                BY <2>1, <3>1, <4>1 DEF InFront
            <4>3. bufs[k].first \in Nat /\ R \in Nat
                BY <2>2, <2>3
            <4> QED BY <2>4, <4>2, <4>3
        <3>5. SubSeq(bufs, 1, n) = f[R]
            BY <2>3, <3>2, <3>3
        <3>6. UpTo(bufs, n) = InputEnd(tensor, R)
            BY <3>2, <3>5 DEF UpTo
        <3>7. \A e \in Collectable : e.size \in Nat
            BY DEF Collectable
        <3>8. n \in 0 .. Len(bufs) /\ k \in 0 .. n
            BY <2>3, <3>3, <3>4
        <3> HIDE DEF n
        <3>9. UpTo(bufs, k) <= UpTo(bufs, n)
            BY <2>3, <3>7, <3>8, UpToGrows
        <3> QED BY <3>6, <3>9
    <2> QED BY <2>3, <2>4 DEF bufs
<1> QED BY <1>1, <1>2
-----------------------------------------------------------------------------
(***************************************************************************)
(* Copies keep the length of every buffer, and those that do not fail and  *)
(* fit answer no request.                                                  *)
(***************************************************************************)
AreCells(m) == IsSequence(m) /\ \A i \in DOMAIN m : IsSequence(m[i])

SameLengths(m, n) ==
    /\ AreCells(n) /\ DOMAIN n = DOMAIN m
    /\ \A i \in DOMAIN m : Len(n[i]) = Len(m[i])

LEMMA OverwriteLength ==
    ASSUME NEW cells, IsSequence(cells), NEW off, NEW data
    PROVE  IsSequence(Overwrite(cells, off, data)) /\ Len(Overwrite(cells, off, data)) = Len(cells)
<1> DEFINE after == Overwrite(cells, off, data)
           S == {after[i] : i \in DOMAIN cells}
<1>1. Len(cells) \in Nat /\ DOMAIN cells = 1 .. Len(cells)
    BY LenFacts
<1>2. after = [i \in 1 .. Len(cells) |-> after[i]]
    BY <1>1 DEF Overwrite
<1>3. \A i \in 1 .. Len(cells) : after[i] \in S
    BY <1>1
<1> HIDE DEF after, S
<1>4. after \in Seq(S) /\ Len(after) = Len(cells)
    <2>1. after \in [1 .. Len(cells) -> S]
        BY <1>2, <1>3
    <2> QED BY <1>1, <2>1, LenProperties
<1> QED BY <1>4 DEF IsSequence, after

LEMMA PerformLengths ==
    ASSUME NEW m, AreCells(m), NEW op PROVE SameLengths(m, Perform(m, op))
<1> DEFINE data == IF op.src = 0 THEN op.data ELSE m[op.src]
           d == op.dst
           n == Perform(m, op)
<1>1. n = [m EXCEPT ![d] = Overwrite(m[d], op.off, data)]
    BY DEF Perform
<1> HIDE DEF n
<1>2. IsSequence(n)
    <2> DEFINE e == Overwrite(m[d], op.off, data)
    <2>1. n = [m EXCEPT ![d] = e] /\ IsSequence(m)
        BY <1>1 DEF AreCells
    <2> HIDE DEF e, d
    <2> QED BY <2>1, ExceptFacts
<1>3. DOMAIN n = DOMAIN m
    BY <1>1
<1>4. ASSUME NEW i \in DOMAIN m PROVE IsSequence(n[i]) /\ Len(n[i]) = Len(m[i])
    <2>1. CASE i = d
        <3>1. n[i] = Overwrite(m[i], op.off, data)
            BY <1>1, <2>1
        <3>2. IsSequence(m[i])
            BY DEF AreCells
        <3> HIDE DEF data
        <3> QED BY <3>1, <3>2, OverwriteLength
    <2>2. CASE i # d
        <3>1. n[i] = m[i]
            BY <1>1, <2>2
        <3> QED BY <3>1 DEF AreCells
    <2> QED BY <2>1, <2>2
<1> QED BY <1>2, <1>3, <1>4 DEF SameLengths, AreCells, n

LEMMA SameLengthsBoth ==
    ASSUME NEW m, NEW n, NEW o, SameLengths(m, n), SameLengths(n, o) PROVE SameLengths(m, o)
BY DEF SameLengths

LEMMA LengthsByCopyBuffer ==
    ASSUME NEW a, IsState(a), AreCells(a.mem), NEW op, NEW mode \in {"host", "stream"},
           NEW fails \in BOOLEAN, NEW reqs
    PROVE  LET b == CopyBuffer(a, op, mode, fails, reqs)
           IN  SameLengths(a.mem, b.mem) /\ (~fails => b.live = a.live)
<1> DEFINE b == CopyBuffer(a, op, mode, fails, reqs)
<1>1. a = [mem |-> a.mem, stream |-> a.stream, live |-> a.live, cuda |-> a.cuda]
    BY DEF IsState
<1>2. SameLengths(a.mem, a.mem)
    BY DEF SameLengths
<1>3. CASE fails
    <2>1. b = [a EXCEPT !.live = @ \ reqs]
        BY <1>3 DEF CopyBuffer
    <2>2. b.mem = a.mem
        BY <1>1, <2>1
    <2> QED BY <1>2, <1>3, <2>2
<1>4. CASE ~fails /\ mode = "host"
    <2>1. b = [a EXCEPT !.mem = Perform(@, op)]
        BY <1>4 DEF CopyBuffer
    <2>2. b.mem = Perform(a.mem, op) /\ b.live = a.live
        BY <1>1, <2>1
    <2> QED BY <2>2, PerformLengths
<1>5. CASE ~fails /\ mode = "stream"
    <2>1. b = [a EXCEPT !.stream = Append(@, op), !.cuda = TRUE]
        BY <1>5 DEF CopyBuffer
    <2>2. b.mem = a.mem /\ b.live = a.live
        BY <1>1, <2>1
    <2> QED BY <1>2, <2>2
<1> QED BY <1>3, <1>4, <1>5

LEMMA LengthsByDirectCopy ==
    ASSUME NEW a, IsState(a), AreCells(a.mem), NEW b, NEW dst, NEW place, NEW off,
           NEW fails \in BOOLEAN
    PROVE  LET c == DirectCopy(a, b, dst, place, off, fails)
           IN  /\ SameLengths(a.mem, c.mem)
               /\ ~fails /\ ~Overflows(off, b.size, Len(a.mem[dst])) => c.live = a.live
<1> DEFINE c == DirectCopy(a, b, dst, place, off, fails)
           mode == CopyMode(MemoryType(b.place), MemoryType(place), cfg.copyOnStream)
           op == [dst |-> dst, off |-> off, src |-> 0, data |-> Bytes(b)]
<1>1. CASE Overflows(off, b.size, Len(a.mem[dst]))
    <2>1. c = [a EXCEPT !.live = @ \ RequestsOf(b)]
        BY <1>1 DEF DirectCopy
    <2>2. c.mem = a.mem
        BY <2>1 DEF IsState
    <2>3. SameLengths(a.mem, a.mem)
        BY DEF SameLengths
    <2> QED BY <1>1, <2>2, <2>3
<1>2. CASE ~Overflows(off, b.size, Len(a.mem[dst]))
    <2>1. c = CopyBuffer(a, op, mode, fails, RequestsOf(b))
        BY <1>2 DEF DirectCopy
    <2>2. mode \in {"host", "stream"}
        BY DEF CopyMode
    <2> HIDE DEF c, mode, op
    <2>3. SameLengths(a.mem, c.mem) /\ (~fails => c.live = a.live)
        BY <2>1, <2>2, LengthsByCopyBuffer
    <2> QED BY <2>3 DEF c
<1> QED BY <1>1, <1>2

\* A series of copies; where none fails, to a buffer in which they fit.
LEMMA LengthsByCopyAll ==
    ASSUME NEW a, IsState(a), AreCells(a.mem), NEW bufs \in Seq(Collectable), NEW dst, NEW place,
           NEW base \in Nat, NEW F
    PROVE  LET c == CopyAll(a, bufs, dst, place, base, F)
           IN  /\ SameLengths(a.mem, c.mem)
               /\ F = {} /\ dst \in DOMAIN a.mem /\ base + Total(bufs) <= Len(a.mem[dst])
                      => c.live = a.live
<1> DEFINE n == Len(bufs)
           fit == F = {} /\ dst \in DOMAIN a.mem /\ base + Total(bufs) <= Len(a.mem[dst])
<1>1. n \in Nat /\ DOMAIN bufs = 1 .. n /\ IsSequence(bufs)
    BY DEF IsSequence
<1>2. PICK h : /\ InOrder(h, n, a, bufs, dst, place, base, F)
               /\ CopyAll(a, bufs, dst, place, base, F) = h[n]
    <2> HIDE DEF n
    <2> QED BY <1>1, CopyAllInOrder
<1> DEFINE Good(st) == IsState(st) /\ SameLengths(a.mem, st.mem) /\ (fit => st.live = a.live)
           T == {k \in Nat : k <= n => Good(h[k])}
<1>3. 0 \in T
    <2>1. SameLengths(a.mem, a.mem) /\ h[0] = a
        BY <1>2 DEF SameLengths, InOrder
    <2> QED BY <2>1
<1>4. ASSUME NEW k \in Nat, k \in T, k + 1 <= n PROVE Good(h[k + 1])
    <2> HIDE DEF fit
    <2>1. k + 1 \in 1 .. n /\ (k + 1) - 1 = k /\ Good(h[k])
        BY <1>1, <1>4
    <2> HIDE DEF T
    <2> DEFINE off == base + SizeBefore(bufs, k + 1)
               fails == k + 1 \in F
               b == bufs[k + 1]
    <2>2. h[k + 1] = DirectCopy(h[k], b, dst, place, off, fails)
        BY <1>2, <2>1 DEF InOrder
    <2>3. fails \in BOOLEAN
        OBVIOUS
    <2>4. IsState(h[k]) /\ AreCells(h[k].mem) /\ SameLengths(a.mem, h[k].mem) /\ (fit => h[k].live = a.live)
        BY <2>1 DEF SameLengths
    <2> HIDE DEF Good
    <2>5. /\ SameLengths(h[k].mem, h[k + 1].mem)
          /\ ~fails /\ ~Overflows(off, b.size, Len(h[k].mem[dst])) => h[k + 1].live = h[k].live
        <3> HIDE DEF off, fails, b
        <3> QED BY <2>2, <2>3, <2>4, LengthsByDirectCopy
    <2>6. Kept(h[k], h[k + 1])
        <3> HIDE DEF off, fails, b
        <3> QED BY <2>2, <2>3, <2>4, KeptByDirectCopy
    <2>7. SameLengths(a.mem, h[k + 1].mem)
        BY <2>4, <2>5, SameLengthsBoth
    <2>8. ASSUME fit PROVE ~fails /\ ~Overflows(off, b.size, Len(h[k].mem[dst]))
        <3>1. ~fails /\ dst \in DOMAIN a.mem /\ base + Total(bufs) <= Len(a.mem[dst])
            BY <2>8 DEF fit
        <3>2. Len(h[k].mem[dst]) = Len(a.mem[dst])
            BY <2>4, <3>1 DEF SameLengths
        <3>3. Len(a.mem[dst]) \in Nat
            BY <3>1, LenFacts DEF AreCells
        <3>4. \A e \in Collectable : e.size \in Nat
            BY DEF Collectable
        <3>5. SizeBefore(bufs, k + 1) = UpTo(bufs, k)
            BY <2>1 DEF SizeBefore, UpTo
        <3>6. /\ UpTo(bufs, k + 1) = UpTo(bufs, k) + b.size
              /\ UpTo(bufs, k) \in Nat /\ UpTo(bufs, k + 1) \in Nat /\ UpTo(bufs, n) = Total(bufs)
              /\ UpTo(bufs, n) \in Nat
            BY <1>1, <2>1, <3>4, UpToFacts
        <3>7. UpTo(bufs, k + 1) <= UpTo(bufs, n)
            <4>1. n \in 0 .. Len(bufs) /\ k + 1 \in 0 .. n
                BY <1>1, <2>1
            <4> HIDE DEF n
            <4> QED BY <3>4, <4>1, UpToGrows
        <3>8. b.size \in Nat
            BY <1>1, <2>1, <3>4
        <3> HIDE DEF b, n
        <3>9. off + b.size <= Len(a.mem[dst])
            BY <3>1, <3>3, <3>5, <3>6, <3>7, <3>8
        <3>10. off \in Nat
            BY <3>5, <3>6
        <3> HIDE DEF off, fails
        <3> QED BY <3>1, <3>2, <3>3, <3>8, <3>9, <3>10 DEF Overflows
    <2>9. IsState(h[k + 1])
        BY <2>6 DEF Kept
    <2> QED BY <2>4, <2>5, <2>7, <2>8, <2>9 DEF Good
<1> HIDE DEF Good, fit
<1>5. \A k \in Nat : k \in T => k + 1 \in T
    BY <1>4
<1> HIDE DEF T
<1>6. \A k \in Nat : k \in T
    BY <1>3, <1>5, Copying!NaturalInduction
<1>7. Good(h[n])
    BY <1>1, <1>6 DEF T
<1> QED BY <1>2, <1>7 DEF Good, fit
-----------------------------------------------------------------------------
(***************************************************************************)
(* Where the iterator is.  The offset is the size of the buffers that are  *)
(* set, the buffer in hand the next ones of them, up to where the iterator *)
(* goes on; a tensor that is allocated has room for all of them.           *)
(***************************************************************************)
Bufs == Collected(Tensor)
Room == IF Tensor.given THEN Tensor.bytes ELSE Total(Bufs)

Reached == cursor.next \in 1 .. Len(Bufs) + 1 /\ offset = UpTo(Bufs, cursor.next - 1)

InHand ==
    /\ cursor.next - 1 \in 1 .. Len(Bufs)
    /\ offset + cur.size = UpTo(Bufs, cursor.next - 1)
    /\ cur.last = Bufs[cursor.next - 1].first
    /\ ~cfg.coalesce => cur.first = cur.last

PlaceInv ==
    /\ \A i \in DOMAIN batch : Untouched(i) => view[i].kind = "none"
    /\ pc \in Gathering => view[t].bytes = Room
    /\ pc = "next" => Reached
    /\ pc \in {"pinned", "kernel", "set"} /\ cur # NoBuffer => InHand

LEMMA PlaceInit == Init => PlaceInv
<1> SUFFICES ASSUME Init PROVE PlaceInv
    OBVIOUS
<1>1. /\ pc = "begin" /\ view = [i \in DOMAIN batch |-> NoView]
    BY DEF Init
<1>2. \A i \in DOMAIN batch : view[i].kind = "none"
    BY <1>1 DEF NoView
<1> QED BY <1>1, <1>2 DEF PlaceInv, Gathering

LEMMA TensorFacts ==
    ASSUME TypeInv, pc \in {"begin"} \cup Gathering
    PROVE  /\ t \in DOMAIN batch /\ t \in Nat /\ IsTensor(Tensor) /\ Bufs \in Seq(Collectable)
           /\ view[t] \in Views /\ DOMAIN view = DOMAIN batch
           /\ Total(Bufs) \in Nat /\ Tensor.bytes \in Nat
BY BatchFacts, CollectedType DEF TypeInv, Tensor, Bufs, IsTensor

LEMMA SameTensor ==
    ASSUME UNCHANGED <<batch, t>>
    PROVE  Bufs' = Bufs /\ Tensor' = Tensor /\ Room' = Room /\ Requests' = Requests
BY DEF Bufs, Room, Tensor, Collected, Requests, RequestCount

\* The next tensor.
LEMMA PlaceAdvances ==
    ASSUME TypeInv, PlaceInv, pc \in {"begin", "kernel"}, AdvanceTo, batch' = batch,
           view' = view \/ \E v : view' = [view EXCEPT ![t] = v]
    PROVE  PlaceInv'
<1>1. t' = t + 1 /\ pc' \in {"begin", "finalize"}
    BY DEF AdvanceTo
<1>2. t \in Nat /\ DOMAIN batch \subseteq Nat
    BY BatchFacts DEF TypeInv
<1>3. ASSUME NEW i \in DOMAIN batch, Untouched(i)' PROVE Untouched(i) /\ i # t
    <2>1. i >= t + 1 /\ i \in Nat
        BY <1>1, <1>2, <1>3 DEF Untouched
    <2> QED BY <1>2, <2>1 DEF Untouched
<1>4. \A i \in DOMAIN batch : i # t => view'[i] = view[i]
    BY DEF TypeInv
<1> QED BY <1>1, <1>3, <1>4 DEF PlaceInv, Gathering

LEMMA PlaceEnter ==
    ASSUME TypeInv, PlaceInv, pc = "begin", NEW place, NEW bytes, Enter(place, bytes), bytes = Room,
           UNCHANGED batch
    PROVE  PlaceInv'
<1> DEFINE v == [kind |-> "buffer", place |-> place, addr |-> 0, bytes |-> bytes]
<1>1. view' = [view EXCEPT ![t] = v]
    BY DEF Enter
<1>2. CASE bytes = 0
    <2>1. AdvanceTo
        BY <1>2 DEF Enter
    <2> QED BY <1>1, <2>1, PlaceAdvances
<1>3. CASE bytes # 0
    <2>1. pc' = "next" /\ t' = t /\ cursor'.next = 1 /\ offset' = 0
        BY <1>3 DEF Enter
    <2>2. Bufs' = Bufs /\ Room' = Room
        BY <2>1, SameTensor
    <2>3. /\ t \in DOMAIN batch /\ t \in Nat /\ Bufs \in Seq(Collectable) /\ DOMAIN view = DOMAIN batch
        BY TensorFacts
    <2>4. view'[t].bytes = bytes
        BY <1>1, <2>3
    <2>5. \A i \in DOMAIN batch : Untouched(i)' => Untouched(i) /\ view'[i] = view[i]
        <3>1. DOMAIN batch \subseteq Nat
            BY BatchFacts DEF TypeInv
        <3>2. ASSUME NEW i \in DOMAIN batch, Untouched(i)' PROVE i > t /\ i # t
            BY <2>1, <2>3, <3>1, <3>2 DEF Untouched
        <3> QED BY <1>1, <3>2 DEF Untouched
    <2>6. UpTo(Bufs, 0) = 0
        <3>1. \A e \in Collectable : e.size \in Nat
            BY DEF Collectable
        <3> QED BY <2>3, <3>1, UpToFacts
    <2>7. Reached'
        <3>1. Len(Bufs) \in Nat /\ 1 - 1 = 0
            BY <2>3
        <3>2. cursor'.next \in 1 .. Len(Bufs') + 1 /\ cursor'.next - 1 = 0
            BY <2>1, <2>2, <3>1
        <3> QED BY <2>1, <2>2, <2>6, <3>2 DEF Reached
    <2> QED BY <2>1, <2>2, <2>4, <2>5, <2>7 DEF PlaceInv, Gathering
<1> QED BY <1>2, <1>3

\* A step within a tensor.
LEMMA PlaceStays ==
    ASSUME PlaceInv, UNCHANGED <<batch, cfg, t, view>>, pc \in Gathering, pc' \in Gathering,
           pc' = "next" => Reached',
           pc' \in {"pinned", "kernel", "set"} /\ cur' # NoBuffer => InHand'
    PROVE  PlaceInv'
<1>1. Room' = Room
    BY SameTensor
<1>2. \A i \in DOMAIN batch : Untouched(i)' => Untouched(i)
    BY DEF Untouched, Gathering
<1> QED BY <1>1, <1>2 DEF PlaceInv

LEMMA PlaceIterates ==
    ASSUME TypeInv, PlaceInv, GetNextContiguousInput \/ InputsExhausted PROVE PlaceInv'
<1>1. /\ pc = "next" /\ pc' = "pinned" /\ UNCHANGED <<batch, cfg, t, view, offset>>
      /\ pc \in Gathering /\ pc' \in Gathering
    BY DEF GetNextContiguousInput, InputsExhausted, Gathering
<1>2. CASE InputsExhausted
    BY <1>1, <1>2, PlaceStays DEF InputsExhausted
<1>3. CASE GetNextContiguousInput
    <2> DEFINE bufs == Bufs
               i == cursor.next
               j == IF cfg.coalesce THEN RunEnd(bufs, i) ELSE i
    <2>1. /\ ~AtEnd
          /\ cur' = [place |-> bufs[i].place, addr |-> bufs[i].addr,
                     size |-> Total(SubSeq(bufs, i, j)),
                     first |-> bufs[i].first, last |-> bufs[j].first]
          /\ cursor' = [next |-> j + 1, stop |-> StopsAfter(bufs, j)]
        BY <1>3 DEF GetNextContiguousInput, Bufs
    <2>2. Reached /\ bufs \in Seq(Collectable)
        BY <1>1, TensorFacts DEF PlaceInv
    <2>3. i \in 1 .. Len(bufs) /\ offset = UpTo(bufs, i - 1)
        BY <2>1, <2>2 DEF Reached, AtEnd, Bufs
    <2>4. bufs' = bufs
        BY <1>1, SameTensor
    <2> HIDE DEF bufs, i
    <2>5. j \in i .. Len(bufs) /\ Len(bufs) \in Nat
        BY <2>2, <2>3, RunEndType
    <2>6. ~cfg.coalesce => j = i
        OBVIOUS
    <2> HIDE DEF j
    <2>7. UpTo(bufs, j) = UpTo(bufs, i - 1) + Total(SubSeq(bufs, i, j))
        <3>1. \A e \in Collectable : e.size \in Nat
            BY DEF Collectable
        <3> QED BY <2>2, <2>3, <2>5, <3>1, UpToRun
    <2>8. cursor'.next - 1 = j /\ j \in 1 .. Len(bufs)
        BY <2>1, <2>3, <2>5
    <2>9. /\ offset' + cur'.size = UpTo(bufs, j) /\ cur'.last = bufs[j].first
          /\ ~cfg.coalesce => cur'.first = cur'.last
        BY <1>1, <2>1, <2>3, <2>6, <2>7
    <2>10. InHand'
        <3>1. Bufs' = bufs
            BY <2>4 DEF bufs
        <3> QED BY <1>1, <2>8, <2>9, <3>1 DEF InHand
    <2> QED BY <1>1, <2>10, PlaceStays
<1> QED BY <1>2, <1>3

LEMMA PlaceFlushes ==
    ASSUME TypeInv, PlaceInv,
           \/ SkipFlushPinned \/ FlushPinnedDirect \/ FlushPinnedNow \/ FlushPinnedDeferred
           \/ SkipFlushKernel \/ LaunchCopyKernel \/ FlushKernelDirect
    PROVE  PlaceInv'
<1>1. /\ UNCHANGED <<batch, cfg, view, cursor, cur, offset>>
      /\ \/ pc = "pinned" /\ pc' = "kernel" /\ t' = t
         \/ pc = "kernel" /\ AfterFlush
    BY DEF SkipFlushPinned, FlushPinnedDirect, FlushPinnedNow, FlushPinnedDeferred,
           SkipFlushKernel, LaunchCopyKernel, FlushKernelDirect, collVars
<1>2. CASE pc = "kernel" /\ AfterFlush /\ cur = NoBuffer
    <2>1. AdvanceTo
        BY <1>2 DEF AfterFlush
    <2> QED BY <1>1, <1>2, <2>1, PlaceAdvances
<1>3. CASE ~(pc = "kernel" /\ AfterFlush /\ cur = NoBuffer)
    <2>1. /\ t' = t /\ pc \in {"pinned", "kernel"} /\ pc' \in {"kernel", "set"}
          /\ pc \in Gathering /\ pc' \in Gathering
        BY <1>1, <1>3 DEF AfterFlush, Gathering
    <2>2. Bufs' = Bufs
        BY <1>1, <2>1, SameTensor
    <2>3. cur' # NoBuffer => InHand'
        BY <1>1, <2>1, <2>2 DEF PlaceInv, InHand
    <2> QED BY <1>1, <2>1, <2>3, PlaceStays
<1> QED BY <1>2, <1>3

LEMMA PlaceSets ==
    ASSUME TypeInv, PlaceInv, SetTooLarge \/ SetPendingPinned \/ SetPendingKernel \/ SetDirect
    PROVE  PlaceInv'
<1>1. /\ pc = "set" /\ pc' = "next" /\ pc \in Gathering /\ pc' \in Gathering
      /\ offset' = offset + cur.size
      /\ UNCHANGED <<batch, cfg, t, view, cursor, cur>>
    BY DEF SetTooLarge, SetPendingPinned, SetPendingKernel, SetDirect, NextBuffer, Gathering
<1>2. InHand /\ Bufs' = Bufs
    BY <1>1, SameTensor DEF TypeInv, PlaceInv
<1>3. cursor.next \in Nat /\ Len(Bufs) \in Nat
    BY <1>1, TensorFacts DEF TypeInv
<1>4. cursor.next \in 1 .. Len(Bufs) + 1
    BY <1>2, <1>3 DEF InHand
<1>5. Reached'
    BY <1>1, <1>2, <1>4 DEF Reached, InHand
<1> QED BY <1>1, <1>5, PlaceStays

LEMMA PlaceStep == TypeInv /\ PlaceInv /\ [Next]_vars => PlaceInv'
<1> SUFFICES ASSUME TypeInv, PlaceInv, [Next]_vars PROVE PlaceInv'
    OBVIOUS
<1>1. CASE BeginGiven
    <2>1. Enter(Tensor.allowed[1], Tensor.bytes) /\ pc = "begin" /\ Tensor.bytes = Room /\ batch' = batch
        BY <1>1 DEF BeginGiven, Room
    <2> QED BY <2>1, PlaceEnter
<1>2. CASE BeginAllocated
    <2>1. PICK k : Enter(Tensor.allowed[k], Total(Bufs))
        BY <1>2 DEF BeginAllocated, Bufs
    <2>2. pc = "begin" /\ Total(Bufs) = Room /\ batch' = batch
        BY <1>2 DEF BeginAllocated, Room
    <2> QED BY <2>1, <2>2, PlaceEnter
<1>3. CASE BeginReused
    <2> DEFINE v == [kind |-> "reused", place |-> Bufs[1].place, addr |-> Bufs[1].addr,
                     bytes |-> Total(Bufs)]
    <2>1. AdvanceTo /\ pc = "begin" /\ view' = [view EXCEPT ![t] = v] /\ batch' = batch
        BY <1>3 DEF BeginReused, Bufs
    <2> HIDE DEF v
    <2> QED BY <2>1, PlaceAdvances
<1>4. CASE BeginFailed
    <2> DEFINE v == [view[t] EXCEPT !.kind = "error"]
    <2>1. AdvanceTo /\ pc = "begin" /\ view' = [view EXCEPT ![t] = v] /\ batch' = batch
        BY <1>4 DEF BeginFailed
    <2> HIDE DEF v
    <2> QED BY <2>1, PlaceAdvances
<1>5. CASE GetNextContiguousInput \/ InputsExhausted
    BY <1>5, PlaceIterates
<1>6. CASE \/ SkipFlushPinned \/ FlushPinnedDirect \/ FlushPinnedNow \/ FlushPinnedDeferred
           \/ SkipFlushKernel \/ LaunchCopyKernel \/ FlushKernelDirect
    BY <1>6, PlaceFlushes
<1>7. CASE SetTooLarge \/ SetPendingPinned \/ SetPendingKernel \/ SetDirect
    BY <1>7, PlaceSets
<1>8. CASE FinalizeSync \/ FinalizeReady \/ FinalizeDeferred \/ FinalizeReturn \/ CallerSync
    <2>1. /\ pc \in {"finalize", "ready", "deferred", "returned"} /\ UNCHANGED <<batch, t, view>>
          /\ pc' \in {"ready", "deferred", "returned", "consumed"}
        BY <1>8 DEF FinalizeSync, FinalizeReady, FinalizeDeferred, FinalizeReturn, CallerSync, collVars
    <2>2. \A i \in DOMAIN batch : Untouched(i)' => Untouched(i)
        BY <2>1 DEF Untouched
    <2> QED BY <2>1, <2>2 DEF PlaceInv, Gathering
<1>9. CASE Terminating \/ RunCopy \/ BufferReadyFires \/ UNCHANGED vars
    <2>1. UNCHANGED <<batch, cfg, pc, t, view, cursor, cur, offset>>
        BY <1>9 DEF Terminating, RunCopy, BufferReadyFires, vars, collVars
    <2>2. Bufs' = Bufs /\ Room' = Room
        BY <2>1, SameTensor
    <2>3. \A i \in DOMAIN batch : Untouched(i)' => Untouched(i)
        BY <2>1 DEF Untouched
    <2> QED BY <2>1, <2>2, <2>3 DEF PlaceInv, Reached, InHand
<1> QED BY <1>1, <1>2, <1>3, <1>4, <1>5, <1>6, <1>7, <1>8, <1>9 DEF Next
-----------------------------------------------------------------------------
(***************************************************************************)
(* Buffers keep their length; pinned buffers are only added.               *)
(***************************************************************************)
SizeInv == AreCells(mem) /\ (pc \in Gathering => Len(mem[t]) = view[t].bytes)

CellsKept ==
    /\ AreCells(mem')
    /\ \A i \in DOMAIN mem : Len(mem'[i]) = Len(mem[i])

\* Without a failure no request is answered.
Unanswered == faults' = 0 => faults = 0 /\ live' = live

LEMMA SizeInit == Init => SizeInv
<1> SUFFICES ASSUME Init PROVE SizeInv
    OBVIOUS
<1>1. SyncInv
    BY SyncInit
<1>2. mem = [i \in DOMAIN batch |-> <<>>] /\ pc = "begin"
    BY DEF Init
<1> QED BY <1>1, <1>2, EmptyFacts DEF SizeInv, AreCells, SyncInv, Gathering

LEMMA FaultsZero ==
    ASSUME TypeInv, NEW n \in Nat, Fail(n), faults' = 0 PROVE n = 0 /\ faults = 0
<1>1. faults \in Nat /\ faults' = faults + n
    BY DEF TypeInv, Fail
<1> QED BY <1>1

LEMMA NoFaultyCopy ==
    ASSUME NEW bufs, IsSequence(bufs), NEW place, NEW F \in SUBSET Breakable(bufs, place),
           Cardinality(F) = 0
    PROVE  F = {}
<1>1. F \subseteq 1 .. Len(bufs) /\ Len(bufs) \in Nat
    <2>1. F \subseteq DOMAIN bufs
        BY DEF Breakable
    <2> QED BY <2>1, LenFacts
<1>2. IsFiniteSet(F)
    <2>1. IsFiniteSet(1 .. Len(bufs))
        BY <1>1, FS_Interval
    <2> QED BY <1>1, <2>1, FS_Subset
<1> QED BY <1>2, FS_EmptySet

\* What the copies start with.
LEMMA StartFacts ==
    ASSUME SyncInv, SizeInv
    PROVE  IsState(Start) /\ AreCells(Start.mem) /\ Start.mem = mem /\ Start.live = live
BY StartState DEF SizeInv, Start

LEMMA TensorCells ==
    ASSUME TypeInv, SyncInv, pc \in Gathering PROVE t \in DOMAIN mem /\ view[t].bytes \in Nat
<1>1. t \in 1 .. Len(batch) /\ Len(batch) \in Nat /\ view[t] \in Views
    BY BatchFacts DEF TypeInv, Gathering
<1>2. DOMAIN mem = 1 .. Len(mem) /\ Len(mem) \in Nat /\ Len(mem) >= Len(batch)
    BY LenFacts DEF TypeInv, SyncInv
<1> QED BY <1>1, <1>2 DEF Views

LEMMA EffectOf ==
    ASSUME NEW st, Effect(st) PROVE mem' = st.mem /\ live' = st.live
BY DEF Effect

\* The copies of what is pending, directly to the tensor.
LEMMA PendingCopied ==
    ASSUME TypeInv, SyncInv, SizeInv, pc \in Gathering, NEW p, PendingInv(p),
           NEW F, Effect(CopyAll(Start, p.bufs, t, Place, p.off, F))
    PROVE  CellsKept /\ (F = {} => live' = live)
<1> DEFINE st == CopyAll(Start, p.bufs, t, Place, p.off, F)
<1>1. /\ p.bufs \in Seq(Collectable) /\ p.off \in Nat /\ p.size = Total(p.bufs)
      /\ p.off + p.size <= view[t].bytes
    BY DEF PendingInv, TypeInv, Gathering
<1>2. t \in DOMAIN mem /\ Len(mem[t]) = view[t].bytes
    BY TensorCells DEF SizeInv
<1>3. IsState(Start) /\ AreCells(Start.mem) /\ Start.mem = mem /\ Start.live = live
    BY StartFacts
<1>4. SameLengths(mem, st.mem) /\ (F = {} => st.live = live)
    <2> DEFINE a == Start
    <2> HIDE DEF a
    <2>1. IsState(a) /\ AreCells(a.mem) /\ a.mem = mem /\ a.live = live
        BY <1>3 DEF a
    <2>2. LET c == CopyAll(a, p.bufs, t, Place, p.off, F)
          IN  /\ SameLengths(a.mem, c.mem)
              /\ F = {} /\ t \in DOMAIN a.mem /\ p.off + Total(p.bufs) <= Len(a.mem[t])
                     => c.live = a.live
        BY <1>1, <2>1, LengthsByCopyAll
    <2> QED BY <1>1, <1>2, <2>1, <2>2 DEF a
<1> HIDE DEF st
<1>5. mem' = st.mem /\ live' = st.live
    BY EffectOf DEF st
<1> QED BY <1>4, <1>5 DEF CellsKept, SameLengths

\* The copies to a pinned buffer.
LEMMA StagedLengths ==
    ASSUME TypeInv, SyncInv, SizeInv, pc \in Gathering, NEW F
    PROVE  LET st == Staged(F)
           IN  /\ IsState(st) /\ AreCells(st.mem) /\ DOMAIN mem \subseteq DOMAIN st.mem
               /\ \A i \in DOMAIN mem : Len(st.mem[i]) = Len(mem[i])
               /\ F = {} => st.live = live
<1> DEFINE cells == [i \in 1 .. pend.size |-> Junk]
           new == Len(mem) + 1
<1>1. /\ pend.bufs \in Seq(Collectable) /\ pend.size = Total(pend.bufs) /\ pend.size \in Nat
    BY DEF PendingInv, TypeInv
<1>2. IsSequence(cells) /\ Len(cells) = pend.size
    <2>1. cells \in Seq({Junk}) /\ Len(cells) = pend.size
        BY <1>1
    <2> HIDE DEF cells
    <2> QED BY <2>1 DEF IsSequence
<1>3. PICK a : /\ IsState(a) /\ Kept(a, Staged(F)) /\ a.live = live /\ a.mem = Append(mem, cells)
               /\ Staged(F) = CopyAll(a, pend.bufs, new, "CPU_PINNED", 0, F)
    <2> DEFINE s == Start
               a == [s EXCEPT !.mem = Append(@, cells)]
    <2> HIDE DEF cells
    <2>0. /\ s.mem = mem /\ s.stream = stream /\ s.live = live /\ s.cuda = FALSE
          /\ s = [mem |-> s.mem, stream |-> s.stream, live |-> s.live, cuda |-> s.cuda]
        BY DEF Start
    <2>1. /\ a.stream = stream /\ a.live = live /\ a.cuda = FALSE /\ a.mem = Append(mem, cells)
          /\ a = [mem |-> a.mem, stream |-> a.stream, live |-> a.live, cuda |-> a.cuda]
        <3> HIDE DEF s
        <3> QED BY <2>0
    <2>2. Staged(F) = CopyAll(a, pend.bufs, new, "CPU_PINNED", 0, F)
        BY DEF Staged, cells
    <2>3. IsSequence(Append(mem, cells))
        BY AppendFacts DEF SyncInv
    <2> HIDE DEF a
    <2>4. IsState(a)
        BY <2>1, <2>3 DEF IsState, SyncInv
    <2>5. Kept(a, Staged(F))
        BY <2>2, <2>4, KeptByCopyAll DEF SyncInv
    <2> QED BY <2>1, <2>2, <2>4, <2>5
<1> HIDE DEF cells
<1>4. /\ DOMAIN mem = 1 .. Len(mem) /\ Len(mem) \in Nat
      /\ IsSequence(a.mem) /\ DOMAIN a.mem = 1 .. Len(mem) + 1
      /\ a.mem[new] = cells /\ \A i \in DOMAIN mem : a.mem[i] = mem[i]
    <2>1. DOMAIN mem = 1 .. Len(mem) /\ Len(mem) \in Nat
        BY LenFacts DEF SyncInv
    <2>2. IsSequence(a.mem) /\ Len(a.mem) = Len(mem) + 1
        BY <1>3, AppendFacts DEF SyncInv
    <2>3. DOMAIN a.mem = 1 .. Len(mem) + 1
        BY <2>2, LenFacts
    <2>4. \E S : mem \in Seq(S)
        BY DEF SyncInv, IsSequence
    <2>5. a.mem[new] = cells /\ \A i \in 1 .. Len(mem) : a.mem[i] = mem[i]
        <3>1. PICK S : mem \in Seq(S)
            BY <2>4
        <3>2. a.mem = Append(mem, cells)
            BY <1>3
        <3> QED BY <3>1, <3>2
    <2> QED BY <2>1, <2>2, <2>3, <2>5
<1>5. AreCells(a.mem)
    <2>1. ASSUME NEW i \in DOMAIN a.mem PROVE IsSequence(a.mem[i])
        <3>1. i = new \/ i \in DOMAIN mem
            BY <1>4
        <3>2. \A k \in DOMAIN mem : IsSequence(mem[k])
            BY DEF SizeInv, AreCells
        <3> QED BY <1>2, <1>4, <3>1, <3>2
    <2> QED BY <1>4, <2>1 DEF AreCells
<1>6. LET c == CopyAll(a, pend.bufs, new, "CPU_PINNED", 0, F)
      IN  /\ SameLengths(a.mem, c.mem)
          /\ F = {} /\ new \in DOMAIN a.mem /\ 0 + Total(pend.bufs) <= Len(a.mem[new])
                 => c.live = a.live
    <2> DEFINE base == 0
               place == "CPU_PINNED"
               bufs == pend.bufs
    <2>1. base \in Nat /\ bufs \in Seq(Collectable) /\ IsState(a) /\ AreCells(a.mem)
        BY <1>1, <1>3, <1>5
    <2> HIDE DEF new, base, place, bufs
    <2>2. LET c == CopyAll(a, bufs, new, place, base, F)
          IN  /\ SameLengths(a.mem, c.mem)
              /\ F = {} /\ new \in DOMAIN a.mem /\ base + Total(bufs) <= Len(a.mem[new])
                     => c.live = a.live
        BY <2>1, LengthsByCopyAll
    <2> QED BY <2>2 DEF base, place, bufs
<1> DEFINE st == Staged(F)
<1>7. SameLengths(a.mem, st.mem) /\ IsState(st)
    BY <1>3, <1>6 DEF Kept
<1>8. F = {} => st.live = live
    <2>1. new \in DOMAIN a.mem /\ 0 + Total(pend.bufs) <= Len(a.mem[new])
        <3>1. new \in DOMAIN a.mem
            BY <1>4
        <3>2. Len(a.mem[new]) = pend.size
            BY <1>2, <1>4
        <3> HIDE DEF new
        <3> QED BY <1>1, <3>1, <3>2
    <2> HIDE DEF new
    <2> QED BY <1>3, <1>6, <2>1
<1> HIDE DEF st
<1>9. AreCells(st.mem) /\ DOMAIN mem \subseteq DOMAIN st.mem
    BY <1>4, <1>7 DEF SameLengths
<1>10. \A i \in DOMAIN mem : Len(st.mem[i]) = Len(mem[i])
    BY <1>4, <1>7 DEF SameLengths
<1> QED BY <1>7, <1>8, <1>9, <1>10 DEF st
-----------------------------------------------------------------------------
\* The copy from a pinned buffer.
LEMMA FromPinnedLengths ==
    ASSUME NEW a, IsState(a), AreCells(a.mem), NEW def, NEW onStream, NEW fails \in BOOLEAN
    PROVE  LET b == CopyFromPinned(a, def, onStream, fails)
           IN  SameLengths(a.mem, b.mem) /\ (~fails => b.live = a.live)
<1> DEFINE mode == CopyMode("CPU_PINNED", MemoryType(view[def.dst].place), onStream)
           op == [dst |-> def.dst, off |-> def.off, src |-> def.src, data |-> <<>>]
           reqs == RequestsOfAll(def.bufs)
           b == CopyFromPinned(a, def, onStream, fails)
<1>1. b = CopyBuffer(a, op, mode, fails, reqs)
    BY DEF CopyFromPinned
<1>2. mode \in {"host", "stream"}
    BY DEF CopyMode
<1> HIDE DEF b, mode, op, reqs
<1>3. SameLengths(a.mem, b.mem) /\ (~fails => b.live = a.live)
    BY <1>1, <1>2, LengthsByCopyBuffer
<1> QED BY <1>3 DEF b

LEMMA CellsQuiet ==
    ASSUME SizeInv, UNCHANGED <<mem, live, faults>> PROVE CellsKept /\ Unanswered
BY DEF SizeInv, CellsKept, Unanswered

LEMMA CellsFlushPinned ==
    ASSUME TypeInv, SyncInv, SizeInv, FlushPinnedDirect \/ FlushPinnedNow \/ FlushPinnedDeferred
    PROVE  CellsKept /\ Unanswered
<1>1. pc \in Gathering /\ PendingInv(pend) /\ IsSequence(pend.bufs)
    BY DEF FlushPinnedDirect, FlushPinnedNow, FlushPinnedDeferred, Gathering, TypeInv, SyncInv
<1>2. \A place : \A F \in SUBSET Breakable(pend.bufs, place) :
          Cardinality(F) \in Nat /\ (Cardinality(F) = 0 => F = {})
    BY <1>1, FaultCount, NoFaultyCopy
<1>3. CASE FlushPinnedDirect
    <2>1. PICK F \in SUBSET Breakable(pend.bufs, Place) :
              /\ Fail(Cardinality(F) + IF pend.size > 0 THEN 1 ELSE 0)
              /\ Effect(CopyAll(Start, pend.bufs, t, Place, pend.off, F))
        BY <1>3 DEF FlushPinnedDirect
    <2>2. CellsKept /\ (F = {} => live' = live)
        BY <1>1, <2>1, PendingCopied
    <2>3. faults' = 0 => faults = 0 /\ F = {}
        <3> DEFINE n == Cardinality(F) + IF pend.size > 0 THEN 1 ELSE 0
        <3>1. n \in Nat /\ (n = 0 => Cardinality(F) = 0) /\ Fail(n)
            BY <1>2, <2>1
        <3> HIDE DEF n
        <3>2. faults' = 0 => n = 0 /\ faults = 0
            BY <3>1, FaultsZero
        <3> QED BY <1>2, <3>1, <3>2
    <2> QED BY <2>2, <2>3 DEF Unanswered
<1>4. CASE FlushPinnedNow
    <2>1. PICK F \in SUBSET Breakable(pend.bufs, "CPU_PINNED"), fails \in FinalFaults(t) :
              /\ Fail(Cardinality(F) + IF fails THEN 1 ELSE 0)
              /\ Effect(CopyFromPinned(Staged(F), Deferred, cfg.copyOnStream, fails))
        BY <1>4 DEF FlushPinnedNow
    <2> DEFINE s == Staged(F)
               b == CopyFromPinned(s, Deferred, cfg.copyOnStream, fails)
    <2>2. /\ IsState(s) /\ AreCells(s.mem) /\ DOMAIN mem \subseteq DOMAIN s.mem
          /\ \A i \in DOMAIN mem : Len(s.mem[i]) = Len(mem[i])
          /\ F = {} => s.live = live
        BY <1>1, StagedLengths
    <2>3. fails \in BOOLEAN
        BY DEF FinalFaults
    <2>4. mem' = b.mem /\ live' = b.live
        BY <2>1, EffectOf
    <2> HIDE DEF s
    <2>5. SameLengths(s.mem, b.mem) /\ (~fails => b.live = s.live)
        BY <2>2, <2>3, FromPinnedLengths
    <2> HIDE DEF b
    <2>6. CellsKept
        BY <2>2, <2>4, <2>5 DEF CellsKept, SameLengths
    <2>7. faults' = 0 => faults = 0 /\ F = {} /\ ~fails
        <3> DEFINE n == Cardinality(F) + IF fails THEN 1 ELSE 0
        <3>1. n \in Nat /\ (n = 0 => Cardinality(F) = 0 /\ ~fails) /\ Fail(n)
            BY <1>2, <2>1, <2>3
        <3> HIDE DEF n
        <3>2. faults' = 0 => n = 0 /\ faults = 0
            BY <3>1, FaultsZero
        <3> QED BY <1>2, <3>1, <3>2
    <2> QED BY <2>2, <2>4, <2>5, <2>6, <2>7 DEF Unanswered
<1>5. CASE FlushPinnedDeferred
    <2>1. PICK F \in SUBSET Breakable(pend.bufs, "CPU_PINNED") :
              Fail(Cardinality(F)) /\ Effect(Staged(F))
        BY <1>5 DEF FlushPinnedDeferred
    <2> DEFINE s == Staged(F)
    <2>2. /\ IsState(s) /\ AreCells(s.mem) /\ DOMAIN mem \subseteq DOMAIN s.mem
          /\ \A i \in DOMAIN mem : Len(s.mem[i]) = Len(mem[i])
          /\ F = {} => s.live = live
        BY <1>1, StagedLengths
    <2>3. mem' = s.mem /\ live' = s.live
        BY <2>1, EffectOf
    <2> HIDE DEF s
    <2>4. CellsKept
        BY <2>2, <2>3 DEF CellsKept
    <2>5. faults' = 0 => faults = 0 /\ F = {}
        BY <1>2, <2>1, FaultsZero
    <2> QED BY <2>2, <2>3, <2>4, <2>5 DEF Unanswered
<1> QED BY <1>3, <1>4, <1>5

LEMMA CellsFlushKernel ==
    ASSUME TypeInv, SyncInv, SizeInv, LaunchCopyKernel \/ FlushKernelDirect
    PROVE  CellsKept /\ Unanswered
<1>1. pc \in Gathering /\ PendingInv(kern) /\ IsSequence(kern.bufs)
    BY DEF LaunchCopyKernel, FlushKernelDirect, Gathering, TypeInv, SyncInv
<1>2. CASE LaunchCopyKernel
    <2> DEFINE a == Start
               op == [dst |-> t, off |-> kern.off, src |-> 0,
                      data |-> FlattenSeq([i \in DOMAIN kern.bufs |-> Bytes(kern.bufs[i])])]
               b == Gather(a)
    <2>1. Effect(b) /\ faults' = faults
        BY <1>2 DEF LaunchCopyKernel
    <2>2. b = CopyBuffer(a, op, "stream", FALSE, {})
        BY DEF Gather
    <2>3. IsState(a) /\ AreCells(a.mem) /\ a.mem = mem /\ a.live = live
        BY StartFacts
    <2>4. mem' = b.mem /\ live' = b.live
        BY <2>1, EffectOf
    <2> HIDE DEF a, op, b
    <2>5. SameLengths(a.mem, b.mem) /\ b.live = a.live
        <3>1. LET c == CopyBuffer(a, op, "stream", FALSE, {})
              IN  SameLengths(a.mem, c.mem) /\ (~FALSE => c.live = a.live)
            <4> DEFINE mode == "stream"
                       fails == FALSE
                       reqs == {}
            <4>1. mode \in {"host", "stream"} /\ fails \in BOOLEAN
                OBVIOUS
            <4> HIDE DEF mode, fails, reqs
            <4>2. LET c == CopyBuffer(a, op, mode, fails, reqs)
                  IN  SameLengths(a.mem, c.mem) /\ (~fails => c.live = a.live)
                BY <2>3, <4>1, LengthsByCopyBuffer
            <4> QED BY <4>2 DEF mode, fails, reqs
        <3> QED BY <2>2, <3>1
    <2>6. CellsKept
        BY <2>3, <2>4, <2>5 DEF CellsKept, SameLengths
    <2> QED BY <2>1, <2>3, <2>4, <2>5, <2>6 DEF Unanswered
<1>3. CASE FlushKernelDirect
    <2>1. PICK F \in SUBSET Breakable(kern.bufs, Place) :
              /\ Fail(Cardinality(F) + IF EnoughForKernel THEN 1 ELSE 0)
              /\ Effect(CopyAll(Start, kern.bufs, t, Place, kern.off, F))
        BY <1>3 DEF FlushKernelDirect
    <2>2. CellsKept /\ (F = {} => live' = live)
        BY <1>1, <2>1, PendingCopied
    <2>3. faults' = 0 => faults = 0 /\ F = {}
        <3> DEFINE n == Cardinality(F) + IF EnoughForKernel THEN 1 ELSE 0
        <3>1. Cardinality(F) \in Nat /\ (Cardinality(F) = 0 => F = {})
            BY <1>1, FaultCount, NoFaultyCopy
        <3>2. n \in Nat /\ (n = 0 => Cardinality(F) = 0) /\ Fail(n)
            BY <2>1, <3>1
        <3> HIDE DEF n
        <3>3. faults' = 0 => n = 0 /\ faults = 0
            BY <3>2, FaultsZero
        <3> QED BY <3>1, <3>2, <3>3
    <2> QED BY <2>2, <2>3 DEF Unanswered
<1> QED BY <1>2, <1>3

LEMMA CellsSetDirect ==
    ASSUME TypeInv, SyncInv, SizeInv, SetDirect PROVE CellsKept /\ Unanswered
<1>1. PICK F \in SUBSET Breakable(<<cur>>, Place) :
          Fail(Cardinality(F)) /\ Effect(DirectCopy(Start, cur, t, Place, offset, F # {}))
    BY DEF SetDirect
<1> DEFINE a == Start
           fails == F # {}
           b == DirectCopy(a, cur, t, Place, offset, fails)
<1>2. mem' = b.mem /\ live' = b.live
    BY <1>1, EffectOf
<1>3. IsState(a) /\ AreCells(a.mem) /\ a.mem = mem /\ a.live = live /\ fails \in BOOLEAN
    BY StartFacts
<1>4. faults' = 0 => faults = 0 /\ ~fails
    <2>1. IsSequence(<<cur>>)
        <3>1. <<cur>> \in Seq({cur})
            OBVIOUS
        <3> QED BY <3>1 DEF IsSequence
    <2>2. Cardinality(F) \in Nat /\ (Cardinality(F) = 0 => F = {})
        BY <2>1, FaultCount, NoFaultyCopy
    <2> QED BY <1>1, <2>2, FaultsZero
<1> HIDE DEF a, fails
<1>5. /\ SameLengths(a.mem, b.mem)
      /\ ~fails /\ ~Overflows(offset, cur.size, Len(a.mem[t])) => b.live = a.live
    BY <1>3, LengthsByDirectCopy
<1> HIDE DEF b
<1>6. ~Overflows(offset, cur.size, Len(a.mem[t]))
    <2>1. pc \in Gathering /\ Fits
        BY DEF SetDirect, NextBuffer, Gathering
    <2>2. Len(mem[t]) = view[t].bytes
        BY <2>1 DEF SizeInv
    <2> QED BY <1>3, <2>1, <2>2 DEF Fits
<1>7. CellsKept
    BY <1>2, <1>3, <1>5 DEF CellsKept, SameLengths
<1> QED BY <1>2, <1>3, <1>4, <1>5, <1>6, <1>7 DEF Unanswered

LEMMA CellsDeferred ==
    ASSUME TypeInv, SyncInv, SizeInv, FinalizeDeferred PROVE CellsKept /\ Unanswered
<1> DEFINE def == deferred[finalized + 1]
<1>1. PICK fails \in FinalFaults(def.dst) :
          Fail(IF fails THEN 1 ELSE 0) /\ Effect(CopyFromPinned(Start, def, FALSE, fails))
    BY DEF FinalizeDeferred
<1> DEFINE a == Start
           onStream == FALSE
           b == CopyFromPinned(a, def, onStream, fails)
<1>2. mem' = b.mem /\ live' = b.live
    BY <1>1, EffectOf
<1>3. IsState(a) /\ AreCells(a.mem) /\ a.mem = mem /\ a.live = live /\ fails \in BOOLEAN
    BY StartFacts DEF FinalFaults
<1>4. faults' = 0 => faults = 0 /\ ~fails
    <2> DEFINE n == IF fails THEN 1 ELSE 0
    <2>1. n \in Nat /\ (n = 0 => ~fails) /\ Fail(n)
        BY <1>1, <1>3
    <2> HIDE DEF n
    <2> QED BY <2>1, FaultsZero
<1> HIDE DEF a, def, onStream
<1>5. SameLengths(a.mem, b.mem) /\ (~fails => b.live = a.live)
    BY <1>3, FromPinnedLengths
<1> HIDE DEF b
<1>6. CellsKept
    BY <1>2, <1>3, <1>5 DEF CellsKept, SameLengths
<1> QED BY <1>2, <1>3, <1>4, <1>5, <1>6 DEF Unanswered

LEMMA CellsRun ==
    ASSUME SizeInv, RunCopy PROVE CellsKept /\ Unanswered
<1>1. mem' = Perform(mem, Head(stream)) /\ UNCHANGED <<live, faults>>
    BY DEF RunCopy
<1>2. SameLengths(mem, mem')
    <2>1. AreCells(mem)
        BY DEF SizeInv
    <2> DEFINE op == Head(stream)
    <2> HIDE DEF op
    <2>2. SameLengths(mem, Perform(mem, op))
        BY <2>1, PerformLengths
    <2> QED BY <1>1, <2>2 DEF op
<1> QED BY <1>1, <1>2 DEF CellsKept, SameLengths, Unanswered

(***************************************************************************)
(* Steps within a tensor and after the last one.                           *)
(***************************************************************************)
LEMMA CellsStep ==
    ASSUME TypeInv, SyncInv, SizeInv, [Next]_vars,
           ~BeginGiven, ~BeginReused, ~BeginAllocated, ~BeginFailed
    PROVE  CellsKept /\ (~SetTooLarge => Unanswered)
<1>1. CASE SetTooLarge
    <2>1. mem' = mem
        BY <1>1 DEF SetTooLarge
    <2> QED BY <1>1, <2>1 DEF CellsKept, SizeInv
<1>2. CASE \/ GetNextContiguousInput \/ InputsExhausted \/ SkipFlushPinned \/ SkipFlushKernel
           \/ SetPendingPinned \/ SetPendingKernel \/ FinalizeSync \/ FinalizeReady
           \/ FinalizeReturn \/ CallerSync \/ Terminating \/ BufferReadyFires \/ UNCHANGED vars
    <2>1. UNCHANGED <<mem, live, faults>>
        BY <1>2 DEF GetNextContiguousInput, InputsExhausted, SkipFlushPinned, SkipFlushKernel,
           SetPendingPinned, SetPendingKernel, FinalizeSync, FinalizeReady,
           FinalizeReturn, CallerSync, Terminating, BufferReadyFires, vars, copyVars
    <2> QED BY <2>1, CellsQuiet
<1>3. CASE FlushPinnedDirect \/ FlushPinnedNow \/ FlushPinnedDeferred
    BY <1>3, CellsFlushPinned
<1>4. CASE LaunchCopyKernel \/ FlushKernelDirect
    BY <1>4, CellsFlushKernel
<1>5. CASE SetDirect
    BY <1>5, CellsSetDirect
<1>6. CASE FinalizeDeferred
    BY <1>6, CellsDeferred
<1>7. CASE RunCopy
    BY <1>7, CellsRun
<1> QED BY <1>1, <1>2, <1>3, <1>4, <1>5, <1>6, <1>7 DEF Next
-----------------------------------------------------------------------------
\* Within a tensor the tensor stays.
LEMMA WithinTensor ==
    ASSUME [Next]_vars, ~BeginGiven, ~BeginReused, ~BeginAllocated, ~BeginFailed
    PROVE  view' = view /\ (pc' \in Gathering => pc \in Gathering /\ t' = t)
<1>1. CASE GetNextContiguousInput \/ InputsExhausted \/ SkipFlushPinned \/ FlushPinnedDirect
           \/ FlushPinnedNow \/ FlushPinnedDeferred
    BY <1>1 DEF GetNextContiguousInput, InputsExhausted, SkipFlushPinned, FlushPinnedDirect,
           FlushPinnedNow, FlushPinnedDeferred, collVars, Gathering
<1>2. CASE SkipFlushKernel \/ LaunchCopyKernel \/ FlushKernelDirect
    BY <1>2 DEF SkipFlushKernel, LaunchCopyKernel, FlushKernelDirect, AfterFlush, AdvanceTo, Gathering
<1>3. CASE SetTooLarge \/ SetPendingPinned \/ SetPendingKernel \/ SetDirect
    BY <1>3 DEF SetTooLarge, SetPendingPinned, SetPendingKernel, SetDirect, NextBuffer, Gathering
<1>4. CASE FinalizeSync \/ FinalizeReady \/ FinalizeDeferred \/ FinalizeReturn \/ CallerSync
    BY <1>4 DEF FinalizeSync, FinalizeReady, FinalizeDeferred, FinalizeReturn, CallerSync, collVars,
           Gathering
<1>5. CASE Terminating \/ RunCopy \/ BufferReadyFires \/ UNCHANGED vars
    BY <1>5 DEF Terminating, RunCopy, BufferReadyFires, vars, collVars
<1> QED BY <1>1, <1>2, <1>3, <1>4, <1>5 DEF Next

LEMMA SizeEnter ==
    ASSUME TypeInv, SyncInv, SizeInv, pc = "begin", NEW place, NEW bytes \in Nat, Enter(place, bytes)
    PROVE  SizeInv'
<1> DEFINE cells == [i \in 1 .. bytes |-> Junk]
           v == [kind |-> "buffer", place |-> place, addr |-> 0, bytes |-> bytes]
<1>1. mem' = [mem EXCEPT ![t] = cells] /\ view' = [view EXCEPT ![t] = v]
    BY DEF Enter
<1>2. IsSequence(cells) /\ Len(cells) = bytes
    <2>1. cells \in Seq({Junk}) /\ Len(cells) = bytes
        OBVIOUS
    <2> HIDE DEF cells
    <2> QED BY <2>1 DEF IsSequence
<1> HIDE DEF cells
<1>3. AreCells(mem')
    <2>1. IsSequence(mem')
        BY <1>1, ExceptFacts DEF SizeInv, AreCells
    <2>2. \A i \in DOMAIN mem' : IsSequence(mem'[i])
        BY <1>1, <1>2 DEF SizeInv, AreCells
    <2> QED BY <2>1, <2>2 DEF AreCells
<1>4. pc' \in Gathering => t' = t
    BY DEF Enter, AdvanceTo, Gathering
<1>5. mem'[t] = cells /\ view'[t] = v
    <2>1. t \in DOMAIN mem /\ t \in DOMAIN view
        <3>1. t \in DOMAIN batch /\ t \in 1 .. Len(batch) /\ Len(batch) \in Nat
            BY BatchFacts, TensorFacts DEF TypeInv
        <3>2. DOMAIN mem = 1 .. Len(mem) /\ Len(mem) \in Nat /\ Len(mem) >= Len(batch)
            BY LenFacts DEF TypeInv, SyncInv
        <3> QED BY <3>1, <3>2 DEF TypeInv
    <2> QED BY <1>1, <2>1
<1> QED BY <1>2, <1>3, <1>4, <1>5 DEF SizeInv

LEMMA SizeStep == TypeInv /\ SyncInv /\ SizeInv /\ [Next]_vars => SizeInv'
<1> SUFFICES ASSUME TypeInv, SyncInv, SizeInv, [Next]_vars PROVE SizeInv'
    OBVIOUS
<1>1. CASE BeginGiven
    <2>1. Enter(Tensor.allowed[1], Tensor.bytes) /\ pc = "begin"
        BY <1>1 DEF BeginGiven
    <2>2. Tensor.bytes \in Nat
        BY <2>1, TensorFacts
    <2> QED BY <2>1, <2>2, SizeEnter
<1>2. CASE BeginAllocated
    <2>1. PICK k : Enter(Tensor.allowed[k], Total(Bufs))
        BY <1>2 DEF BeginAllocated, Bufs
    <2>2. pc = "begin"
        BY <1>2 DEF BeginAllocated
    <2>3. Total(Bufs) \in Nat
        BY <2>2, TensorFacts
    <2> QED BY <2>1, <2>2, <2>3, SizeEnter
<1>3. CASE BeginReused \/ BeginFailed
    <2>1. mem' = mem /\ pc' \in {"begin", "finalize"}
        BY <1>3 DEF BeginReused, BeginFailed, copyVars, AdvanceTo
    <2> QED BY <2>1 DEF SizeInv, Gathering
<1>4. CASE ~BeginGiven /\ ~BeginReused /\ ~BeginAllocated /\ ~BeginFailed
    <2>1. CellsKept /\ view' = view /\ (pc' \in Gathering => pc \in Gathering /\ t' = t)
        BY <1>4, CellsStep, WithinTensor
    <2>2. pc \in Gathering => t \in DOMAIN mem
        BY TensorCells
    <2> QED BY <2>1, <2>2 DEF CellsKept, SizeInv
<1> QED BY <1>1, <1>2, <1>3, <1>4
-----------------------------------------------------------------------------
(***************************************************************************)
(* The cause for which a request is answered.                              *)
(***************************************************************************)
Limit(r) == IF cfg.coalesce THEN RequestCount ELSE r

TooShort(i, r) == batch[i].given /\ InputEnd(batch[i], Limit(r)) > batch[i].bytes

Cause(r) == \E i \in DOMAIN batch : view[i].kind = "error" \/ TooShort(i, r)

LEMMA CauseIs ==
    AnsweredForCause <=> (faults = 0 => \A r \in Requests \ live : Cause(r))
BY DEF AnsweredForCause, Cause, TooShort, Limit

\* It stays one.
LEMMA CauseStays ==
    ASSUME UNCHANGED <<batch, cfg>>, NEW r, Cause(r),
           \A i \in DOMAIN batch : view[i].kind = "error" => view'[i].kind = "error"
    PROVE  Cause(r)'
<1>1. Requests' = Requests /\ RequestCount' = RequestCount
    BY DEF Requests, RequestCount
<1>2. \A i : InputEnd(batch[i], Limit(r))' = InputEnd(batch[i], Limit(r))
    BY <1>1 DEF InputEnd, InputOffset, Limit, FoldFunctionOnSet, MapThenFoldSet
<1> QED BY <1>2 DEF Cause, TooShort

LEMMA ErrorsStay ==
    ASSUME TypeInv, PlaceInv, [Next]_vars
    PROVE  UNCHANGED <<batch, cfg>> /\ \A i \in DOMAIN batch : view[i].kind = "error" => view'[i].kind = "error"
<1>1. UNCHANGED <<batch, cfg>>
    BY DEF Next, vars, BeginGiven, BeginReused, BeginAllocated, BeginFailed,
           GetNextContiguousInput, InputsExhausted, SkipFlushPinned, FlushPinnedDirect,
           FlushPinnedNow, FlushPinnedDeferred, SkipFlushKernel, LaunchCopyKernel,
           FlushKernelDirect, SetTooLarge, SetPendingPinned, SetPendingKernel, SetDirect,
           NextBuffer, FinalizeSync, FinalizeReady, FinalizeDeferred, FinalizeReturn,
           CallerSync, Terminating, RunCopy, BufferReadyFires
<1>2. CASE BeginGiven \/ BeginReused \/ BeginAllocated \/ BeginFailed
    <2>1. pc = "begin" /\ \E v : view' = [view EXCEPT ![t] = v]
        <3>1. CASE BeginGiven \/ BeginAllocated
            BY <3>1 DEF BeginGiven, BeginAllocated, Enter
        <3>2. CASE BeginReused
            BY <3>2 DEF BeginReused
        <3>3. CASE BeginFailed
            BY <3>3 DEF BeginFailed
        <3> QED BY <1>2, <3>1, <3>2, <3>3
    <2>2. \A i \in DOMAIN batch : i # t => view'[i] = view[i]
        BY <2>1 DEF TypeInv
    <2>3. t \in DOMAIN batch => view[t].kind = "none"
        BY <2>1 DEF PlaceInv, Untouched
    <2> QED BY <1>1, <2>2, <2>3
<1>3. CASE ~BeginGiven /\ ~BeginReused /\ ~BeginAllocated /\ ~BeginFailed
    BY <1>1, <1>3, WithinTensor
<1> QED BY <1>2, <1>3

(***************************************************************************)
(* A buffer that does not fit is in a tensor given too short.              *)
(***************************************************************************)
LEMMA TooLarge ==
    ASSUME TypeInv, PlaceInv, pc = "set", ~Fits, NEW r \in Requests, r \in RequestsOf(cur)
    PROVE  TooShort(t, r)
<1> DEFINE k == cursor.next - 1
<1>1. /\ t \in DOMAIN batch /\ IsTensor(Tensor) /\ Bufs \in Seq(Collectable) /\ view[t] \in Views
      /\ Total(Bufs) \in Nat /\ Tensor.bytes \in Nat /\ Tensor = batch[t]
    BY TensorFacts DEF Gathering, Tensor
<1>2. /\ k \in 1 .. Len(Bufs) /\ offset + cur.size = UpTo(Bufs, k) /\ cur.last = Bufs[k].first
      /\ ~cfg.coalesce => cur.first = cur.last
      /\ view[t].bytes = Room
    BY DEF TypeInv, PlaceInv, InHand, Gathering
<1>3. /\ Bufs[k].first \in Requests
      /\ \A R \in Requests : Bufs[k].first <= R => UpTo(Bufs, k) <= InputEnd(Tensor, R)
    BY <1>1, <1>2, CollectedOrder DEF Bufs
<1> HIDE DEF k
<1>4. /\ \A e \in Collectable : e.size \in Nat
      /\ UpTo(Bufs, k) \in Nat /\ UpTo(Bufs, k) <= Total(Bufs)
    <2>1. \A e \in Collectable : e.size \in Nat
        BY DEF Collectable
    <2>2. k \in 0 .. Len(Bufs) /\ Len(Bufs) \in Nat /\ Len(Bufs) \in 0 .. Len(Bufs) /\ k \in 0 .. Len(Bufs)
        BY <1>1, <1>2
    <2>3. UpTo(Bufs, k) \in Nat /\ UpTo(Bufs, Len(Bufs)) = Total(Bufs)
        BY <1>1, <2>1, <2>2, UpToFacts
    <2>4. UpTo(Bufs, k) <= UpTo(Bufs, Len(Bufs))
        BY <1>1, <2>1, <2>2, UpToGrows
    <2> QED BY <2>1, <2>3, <2>4
<1>5. UpTo(Bufs, k) > Room
    <2>1. offset \in Nat /\ cur.size \in Nat /\ view[t].bytes \in Nat
        BY <1>1 DEF TypeInv, Collectable, Views
    <2> QED BY <1>2, <2>1 DEF Fits, Overflows
<1>6. Tensor.given /\ UpTo(Bufs, k) > Tensor.bytes
    BY <1>1, <1>4, <1>5 DEF Room
<1>7. Limit(r) \in Requests /\ Bufs[k].first <= Limit(r)
    <2>1. RequestCount \in Nat /\ Requests = 1 .. RequestCount
        BY <1>1 DEF IsTensor, Requests
    <2>2. CASE cfg.coalesce
        BY <1>3, <2>1, <2>2 DEF Limit
    <2>3. CASE ~cfg.coalesce
        <3>1. cur.first = Bufs[k].first /\ cur.last = Bufs[k].first
            BY <1>2, <2>3
        <3>2. r = Bufs[k].first
            BY <1>3, <2>1, <3>1 DEF RequestsOf
        <3> QED BY <2>1, <2>3, <3>2 DEF Limit
    <2> QED BY <2>2, <2>3
<1>8. InputEnd(Tensor, Limit(r)) \in Nat
    BY <1>1, <1>7, OffsetFacts
<1>9. UpTo(Bufs, k) <= InputEnd(Tensor, Limit(r))
    BY <1>3, <1>7
<1> QED BY <1>1, <1>4, <1>6, <1>8, <1>9 DEF TooShort

LEMMA CauseStep ==
    TypeInv /\ SyncInv /\ SizeInv /\ PlaceInv /\ AnsweredForCause /\ [Next]_vars => AnsweredForCause'
<1> SUFFICES ASSUME TypeInv, SyncInv, SizeInv, PlaceInv, AnsweredForCause, [Next]_vars, faults' = 0,
                    NEW r \in Requests', r \notin live'
             PROVE  Cause(r)'
    BY CauseIs DEF AnsweredForCause, Cause, TooShort, Limit
<1>1. /\ UNCHANGED <<batch, cfg>>
      /\ \A i \in DOMAIN batch : view[i].kind = "error" => view'[i].kind = "error"
    BY ErrorsStay
<1>2. r \in Requests
    BY <1>1 DEF Requests, RequestCount
<1>3. ASSUME faults = 0, r \notin live PROVE Cause(r)'
    BY <1>1, <1>2, <1>3, CauseIs, CauseStays
<1>4. CASE BeginFailed
    <2>1. pc = "begin" /\ view' = [view EXCEPT ![t].kind = "error"]
        BY <1>4 DEF BeginFailed
    <2>2. t \in DOMAIN batch /\ t \in DOMAIN view
        BY <2>1, TensorFacts
    <2>3. view'[t].kind = "error"
        BY <2>1, <2>2, TensorFacts DEF Views
    <2> QED BY <1>1, <2>2, <2>3 DEF Cause
<1>5. CASE SetTooLarge
    <2>1. pc = "set" /\ ~Fits /\ live' = live \ RequestsOf(cur) /\ faults' = faults
        BY <1>5 DEF SetTooLarge, NextBuffer
    <2>2. CASE r \in live
        <3>1. r \in RequestsOf(cur)
            BY <2>1, <2>2
        <3>2. TooShort(t, r)
            BY <1>2, <2>1, <3>1, TooLarge
        <3>3. t \in DOMAIN batch
            BY <2>1, TensorFacts DEF Gathering
        <3>4. Cause(r)
            BY <3>2, <3>3 DEF Cause
        <3> QED BY <1>1, <3>4, CauseStays
    <2> QED BY <1>3, <2>1, <2>2
<1>6. CASE BeginGiven \/ BeginReused \/ BeginAllocated
    <2>1. live' = live
        BY <1>6 DEF BeginGiven, BeginReused, BeginAllocated, copyVars
    <2>2. faults = 0
        <3>1. CASE BeginGiven \/ BeginReused
            BY <3>1 DEF BeginGiven, BeginReused, copyVars
        <3>2. CASE BeginAllocated
            <4>1. PICK k \in DOMAIN Tensor.allowed : Fail(k - 1)
                BY <3>2 DEF BeginAllocated
            <4>2. k - 1 \in Nat
                <5>1. Tensor.allowed \in Seq(Places)
                    BY <3>2, BatchFacts, TensorFacts DEF TypeInv, Tensor, BeginAllocated
                <5> QED BY <5>1
            <4> QED BY <4>1, <4>2, FaultsZero
        <3> QED BY <1>6, <3>1, <3>2
    <2> QED BY <1>3, <2>1, <2>2
<1>7. CASE ~BeginGiven /\ ~BeginReused /\ ~BeginAllocated /\ ~BeginFailed /\ ~SetTooLarge
    <2>1. Unanswered
        BY <1>7, CellsStep
    <2> QED BY <1>3, <2>1 DEF Unanswered
<1> QED BY <1>4, <1>5, <1>6, <1>7

(***************************************************************************)
(* As long as no call fails, a request is answered with an error only for  *)
(* a tensor that could not be had at all or was given too short, whatever  *)
(* the requests, their buffers and the way they are copied: the staging    *)
(* buffer and the pending copies always have room for what is in them.     *)
(***************************************************************************)
THEOREM AnsweredOnlyForCause == Spec => []AnsweredForCause
<1> DEFINE Inv == TypeInv /\ SyncInv /\ SizeInv /\ PlaceInv /\ AnsweredForCause
<1>1. Init => Inv
    <2>1. Init => AnsweredForCause
        BY DEF Init, AnsweredForCause
    <2> QED BY <2>1, TypeInit, SyncInit, SizeInit, PlaceInit
<1>2. Inv /\ [Next]_vars => Inv'
    BY TypeStep, SyncStep, SizeStep, PlaceStep, CauseStep
<1>3. Inv => AnsweredForCause
    OBVIOUS
<1> QED BY <1>1, <1>2, <1>3, PTL DEF Spec
-----------------------------------------------------------------------------
(***************************************************************************)
(* Byte x of a tensor with the buffers bufs is in buffer k.                *)
(***************************************************************************)
Covers(bufs, k, x) ==
    k \in 1 .. Len(bufs) /\ UpTo(bufs, k - 1) < x /\ x <= UpTo(bufs, k)

ByteOf(b, y) == <<b.place, b.addr + y - 1>>

\* Joined, the element at y is in the sequence that covers y.
LEMMA FlattenLocates ==
    ASSUME NEW V, NEW seqs \in Seq(Seq(V)), NEW S, \A e \in S : e.size \in Nat,
           NEW bufs \in Seq(S), Len(bufs) = Len(seqs),
           \A i \in 1 .. Len(seqs) : Len(seqs[i]) = bufs[i].size,
           NEW y \in 1 .. Total(bufs)
    PROVE  \E j \in 1 .. Len(bufs) :
              Covers(bufs, j, y) /\ FlattenSeq(seqs)[y] = seqs[j][y - UpTo(bufs, j - 1)]
<1> DEFINE n == Len(seqs)
<1>1. n \in Nat /\ n = Len(bufs) /\ \A i \in 1 .. n : seqs[i] \in Seq(V)
    OBVIOUS
<1>2. n # 0
    <2> SUFFICES ASSUME n = 0 PROVE FALSE
        OBVIOUS
    <2>1. bufs = <<>>
        OBVIOUS
    <2>2. Total(bufs) = 0
        BY <2>1, TotalEmpty
    <2> QED BY <2>2
<1>3. PICK f : /\ JoinedBy(f, seqs)
               /\ \A i \in 1 .. n : f[i] \in Seq(V)
               /\ FlattenSeq(seqs) = f[n]
    BY <1>2, FlattenRuns
<1> DEFINE At(i, x) == \E j \in 1 .. i :
                          Covers(bufs, j, x) /\ f[i][x] = seqs[j][x - UpTo(bufs, j - 1)]
           Run(i) == Len(f[i]) = UpTo(bufs, i) /\ \A x \in 1 .. Len(f[i]) : At(i, x)
           T == {k \in Nat : k + 1 <= n => Run(k + 1)}
<1>4. 0 \in T
    <2>1. f[1] = seqs[1] /\ 1 \in 1 .. n /\ 1 - 1 = 0
        BY <1>1, <1>2, <1>3 DEF JoinedBy
    <2>2. UpTo(bufs, 1) = UpTo(bufs, 0) + bufs[1].size /\ UpTo(bufs, 0) = 0
        BY <1>1, <2>1, UpToFacts
    <2>3. bufs[1].size \in Nat /\ Len(f[1]) = bufs[1].size
        BY <1>1, <2>1
    <2> HIDE DEF n
    <2>4. Len(f[1]) = UpTo(bufs, 1)
        BY <2>2, <2>3
    <2>5. ASSUME NEW x \in 1 .. Len(f[1]) PROVE At(1, x)
        <3>1. 0 < x /\ x - 0 = x
            BY <2>3
        <3>2. Covers(bufs, 1, x)
            BY <1>1, <2>1, <2>2, <2>3, <2>4, <3>1 DEF Covers
        <3>3. f[1][x] = seqs[1][x - UpTo(bufs, 1 - 1)]
            BY <2>1, <2>2, <3>1
        <3> QED BY <3>2, <3>3
    <2> HIDE DEF At
    <2>6. Run(1)
        BY <2>4, <2>5
    <2> HIDE DEF Run
    <2> QED BY <2>6
<1>5. ASSUME NEW k \in Nat, k \in T, (k + 1) + 1 <= n PROVE Run((k + 1) + 1)
    <2> DEFINE p == k + 1
               i == p + 1
    <2>1. i \in 2 .. Len(seqs) /\ i \in 1 .. n /\ i - 1 = p /\ p \in 1 .. n /\ p <= n
        BY <1>1, <1>5
    <2>2. Run(p)
        <3> HIDE DEF Run
        <3> QED BY <1>5, <2>1
    <2> HIDE DEF p, T, n
    <2>3. f[i] = f[p] \o seqs[i]
        BY <1>3, <2>1 DEF JoinedBy
    <2>4. f[p] \in Seq(V) /\ seqs[i] \in Seq(V)
        BY <1>1, <1>3, <2>1 DEF n
    <2>5. Len(seqs[i]) = bufs[i].size
        BY <2>1
    <2>6. UpTo(bufs, i) = UpTo(bufs, p) + bufs[i].size
        BY <1>1, <2>1, UpToFacts
    <2> HIDE DEF i
    <2>7. /\ Len(f[p]) \in Nat /\ Len(seqs[i]) \in Nat /\ Len(f[i]) \in Nat
          /\ Len(f[i]) = Len(f[p]) + Len(seqs[i])
          /\ \A x \in 1 .. Len(f[p]) : f[i][x] = f[p][x]
          /\ \A x \in Len(f[p]) + 1 .. Len(f[i]) : f[i][x] = seqs[i][x - Len(f[p])]
        <3> DEFINE a == f[p]
                   b == seqs[i]
                   c == f[i]
        <3>1. c = a \o b /\ a \in Seq(V) /\ b \in Seq(V)
            BY <2>3, <2>4
        <3> HIDE DEF a, b, c
        <3>2. /\ Len(a) \in Nat /\ Len(b) \in Nat /\ Len(c) \in Nat /\ Len(c) = Len(a) + Len(b)
              /\ \A x \in 1 .. Len(a) : c[x] = a[x]
              /\ \A x \in Len(a) + 1 .. Len(c) : c[x] = b[x - Len(a)]
            BY <3>1
        <3> QED BY <3>2 DEF a, b, c
    <2>8. Len(f[p]) = UpTo(bufs, p)
        BY <2>2
    <2>9. Len(f[i]) = UpTo(bufs, i)
        BY <2>5, <2>6, <2>7, <2>8
    <2>10. ASSUME NEW x \in 1 .. Len(f[i]) PROVE At(i, x)
        <3>0. Len(f[i]) \in Nat /\ Len(f[p]) \in Nat
            BY <2>7
        <3>1. CASE x <= Len(f[p])
            <4>1. x \in 1 .. Len(f[p])
                BY <2>7, <3>1
            <4>2. PICK j \in 1 .. p : Covers(bufs, j, x) /\ f[p][x] = seqs[j][x - UpTo(bufs, j - 1)]
                BY <2>2, <4>1
            <4>3. j \in 1 .. i /\ f[i][x] = f[p][x]
                BY <2>1, <2>7, <4>1
            <4> QED BY <4>2, <4>3
        <3>2. CASE ~(x <= Len(f[p]))
            <4>1. x \in Len(f[p]) + 1 .. Len(f[i])
                BY <3>0, <3>2
            <4>2. f[i][x] = seqs[i][x - UpTo(bufs, i - 1)]
                BY <2>1, <2>7, <2>8, <4>1
            <4>3. Covers(bufs, i, x)
                <5>1. i \in 1 .. Len(bufs) /\ i - 1 = p
                    BY <1>1, <2>1
                <5>2. Len(f[p]) < x /\ x <= Len(f[i])
                    BY <3>0, <4>1
                <5>3. UpTo(bufs, i - 1) < x /\ x <= UpTo(bufs, i)
                    BY <2>8, <2>9, <5>1, <5>2
                <5> QED BY <5>1, <5>3 DEF Covers
            <4>4. i \in 1 .. i
                BY <2>1
            <4> QED BY <4>2, <4>3, <4>4
        <3> QED BY <3>1, <3>2
    <2> HIDE DEF At
    <2> QED BY <2>9, <2>10 DEF i, p
<1>6. \A k \in Nat : k \in T => k + 1 \in T
    <2> HIDE DEF Run
    <2> QED BY <1>5
<1> HIDE DEF T
<1>7. \A k \in Nat : k \in T
    BY <1>4, <1>6, Adding!NaturalInduction
<1>8. Run(n)
    <2>1. n - 1 \in T /\ (n - 1) + 1 = n /\ n <= n
        BY <1>1, <1>2, <1>7
    <2> HIDE DEF Run
    <2> QED BY <2>1 DEF T
<1>9. UpTo(bufs, n) = Total(bufs)
    BY <1>1, UpToFacts
<1> HIDE DEF n
<1>10. PICK j \in 1 .. n : Covers(bufs, j, y) /\ f[n][y] = seqs[j][y - UpTo(bufs, j - 1)]
    BY <1>8, <1>9
<1> QED BY <1>1, <1>3, <1>10
-----------------------------------------------------------------------------
\* Joining leaves the sums of the first part as they are, and adds it to those of the second.
LEMMA UpToJoined ==
    ASSUME NEW S, \A e \in S : e.size \in Nat, NEW a \in Seq(S), NEW b \in Seq(S)
    PROVE  /\ \A k \in 0 .. Len(a) : UpTo(a \o b, k) = UpTo(a, k)
           /\ \A k \in 0 .. Len(b) : UpTo(a \o b, Len(a) + k) = Total(a) + UpTo(b, k)
<1>1. ASSUME NEW k \in 0 .. Len(a) PROVE UpTo(a \o b, k) = UpTo(a, k)
    <2>1. SubSeq(a \o b, 1, k) = SubSeq(a, 1, k)
        OBVIOUS
    <2> QED BY <2>1 DEF UpTo
<1>2. ASSUME NEW k \in 0 .. Len(b) PROVE UpTo(a \o b, Len(a) + k) = Total(a) + UpTo(b, k)
    <2> DEFINE c == a \o b
               m == Len(a)
    <2>1. c \in Seq(S) /\ m \in Nat /\ Len(b) \in Nat /\ Len(c) = m + Len(b) /\ k \in Nat /\ k <= Len(b)
        BY ConcatProperties
    <2>2. UpTo(c, m) = Total(a)
        <3>1. m \in 0 .. Len(a)
            BY <2>1
        <3>2. UpTo(c, m) = UpTo(a, m)
            BY <1>1, <3>1
        <3> QED BY <3>2, UpToFacts
    <2>3. CASE k = 0
        <3>1. m + k = m /\ UpTo(b, k) = 0 /\ Total(a) \in Nat
            <4>1. UpTo(a, m) \in Nat /\ UpTo(a, m) = Total(a)
                BY <2>1, UpToFacts
            <4> QED BY <2>1, <2>3, <4>1, UpToFacts
        <3> HIDE DEF c, m
        <3> QED BY <2>2, <3>1 DEF c, m
    <2>4. CASE k # 0
        <3>1. /\ m + 1 \in m + 1 .. m + Len(b) /\ m + k \in m + 1 .. m + Len(b)
              /\ (m + 1) - m = 1 /\ (m + k) - m = k /\ (m + 1) - 1 = m
              /\ m + 1 \in 1 .. Len(c) /\ m + k \in m + 1 .. Len(c)
            BY <2>1, <2>4
        <3>2. SubSeq(c, m + 1, m + k) = SubSeq(b, 1, k)
            <4>1. SubSeq(a \o b, m + 1, m + k) = SubSeq(b, (m + 1) - Len(a), (m + k) - Len(a))
                BY <3>1, SubSeqOfConcat2
            <4> QED BY <3>1, <4>1
        <3> HIDE DEF c, m
        <3>3. UpTo(c, m + k) = UpTo(c, (m + 1) - 1) + Total(SubSeq(c, m + 1, m + k))
            BY <2>1, <3>1, UpToRun
        <3> QED BY <2>2, <3>1, <3>2, <3>3 DEF UpTo, c, m
    <2> QED BY <2>3, <2>4
<1> QED BY <1>1, <1>2

(***************************************************************************)
(* Buffer j of request r is among those of the tensor, where r's bytes     *)
(* before it are.                                                          *)
(***************************************************************************)
LEMMA CollectedPlaces ==
    ASSUME NEW tensor, IsTensor(tensor), NEW r \in Requests, NEW j \in 1 .. Len(tensor.inputs[r])
    PROVE  LET bufs == Collected(tensor)
           IN  \E k \in 1 .. Len(bufs) :
                  /\ bufs[k] = OfRequest(tensor, r)[j]
                  /\ UpTo(bufs, k - 1) = InputOffset(tensor, r) + UpTo(tensor.inputs[r], j - 1)
                  /\ UpTo(bufs, k) = InputOffset(tensor, r) + UpTo(tensor.inputs[r], j)
<1> DEFINE bufs == Collected(tensor)
           mine == OfRequest(tensor, r)
           mbufs == tensor.inputs[r]
<1>1. RequestCount # 0 /\ Requests = 1 .. RequestCount /\ RequestCount \in Nat
    BY DEF IsTensor, Requests
<1>2. PICK f : InRequestOrder(f, tensor) /\ bufs = f[RequestCount]
    BY <1>1, CollectedRuns
<1> DEFINE prev == IF r = 1 THEN <<>> ELSE f[r - 1]
<1>3. mine \in Seq(Collectable) /\ Len(mine) = Len(mbufs)
      /\ \A i \in 0 .. Len(mbufs) : UpTo(mine, i) = UpTo(mbufs, i)
    BY OfRequestFacts
<1>4. prev \in Seq(Collectable) /\ Total(prev) = InputOffset(tensor, r) /\ f[r] = prev \o mine
    <2>1. CASE r = 1
        <3>1. prev = <<>> /\ f[r] = mine
            BY <1>2, <2>1 DEF InRequestOrder
        <3> HIDE DEF prev, mine
        <3>2. Total(prev) = 0 /\ InputOffset(tensor, r) = 0
            BY <2>1, <3>1, TotalEmpty, OffsetFacts
        <3>3. prev \in Seq(Collectable) /\ mine = prev \o mine
            BY <1>3, <3>1
        <3> QED BY <3>1, <3>2, <3>3
    <2>2. CASE r # 1
        <3>1. r - 1 \in Requests /\ (r - 1) + 1 = r /\ r \in 2 .. RequestCount
            BY <1>1, <2>2
        <3>2. f[r] = f[r - 1] \o mine /\ f[r - 1] \in Seq(Collectable)
              /\ Total(f[r - 1]) = InputEnd(tensor, r - 1)
            BY <1>2, <3>1 DEF InRequestOrder, Ordered
        <3>3. InputOffset(tensor, (r - 1) + 1) = InputEnd(tensor, r - 1)
            BY <3>1, OffsetFacts
        <3> QED BY <2>2, <3>1, <3>2, <3>3
    <2> QED BY <2>1, <2>2
<1>5. InFront(f, r, RequestCount)
    BY <1>2, FrontStays
<1>6. bufs \in Seq(Collectable)
    BY CollectedOrder
<1>7. \A e \in Collectable : e.size \in Nat
    BY DEF Collectable
<1> DEFINE m == Len(prev)
           k == m + j
<1> HIDE DEF bufs, prev, mine, mbufs
<1>8. /\ m \in Nat /\ Len(f[r]) = m + Len(mine) /\ f[r][k] = mine[j]
      /\ f[r] \in Seq(Collectable) /\ j \in 1 .. Len(mine)
    <2> DEFINE g == f[r]
    <2>1. g = prev \o mine /\ prev \in Seq(Collectable) /\ mine \in Seq(Collectable)
        BY <1>3, <1>4
    <2>2. j \in 1 .. Len(mine)
        BY <1>3 DEF mbufs
    <2> HIDE DEF g
    <2>3. g \in Seq(Collectable) /\ m \in Nat /\ Len(mine) \in Nat /\ Len(g) = m + Len(mine)
        BY <2>1, ConcatProperties
    <2>4. k \in 1 .. m + Len(mine) /\ ~(k <= m) /\ k - m = j
        BY <2>2, <2>3
    <2>5. g[k] = mine[j]
        BY <2>1, <2>4, ConcatProperties
    <2> QED BY <2>2, <2>3, <2>5 DEF g
<1>9. /\ k \in 1 .. Len(bufs) /\ k \in 1 .. Len(f[r]) /\ k - 1 = m + (j - 1)
      /\ j \in 0 .. Len(mine) /\ j - 1 \in 0 .. Len(mine) /\ Len(f[r]) <= Len(bufs)
    BY <1>2, <1>5, <1>6, <1>8 DEF InFront
<1>10. bufs[k] = mine[j]
    BY <1>2, <1>5, <1>8, <1>9 DEF InFront
<1>11. \A l \in 0 .. Len(f[r]) : UpTo(bufs, l) = UpTo(f[r], l)
    <2> SUFFICES ASSUME NEW l \in 0 .. Len(f[r]) PROVE SubSeq(bufs, 1, l) = SubSeq(f[r], 1, l)
        BY DEF UpTo
    <2>1. \A i \in 1 .. Len(f[r]) : bufs[i] = f[r][i]
        BY <1>2, <1>5 DEF InFront
    <2> DEFINE g == f[r]
    <2>2. g \in Seq(Collectable) /\ l \in 0 .. Len(g) /\ Len(g) <= Len(bufs)
          /\ \A i \in 1 .. Len(g) : bufs[i] = g[i]
        BY <1>8, <1>9, <2>1
    <2> HIDE DEF g
    <2>3. SubSeq(bufs, 1, l) = SubSeq(g, 1, l)
        BY <1>6, <2>2
    <2> QED BY <2>3 DEF g
<1>12. \A i \in 0 .. Len(mine) : UpTo(f[r], m + i) = Total(prev) + UpTo(mine, i)
    <2>1. \A i \in 0 .. Len(mine) : UpTo(prev \o mine, Len(prev) + i) = Total(prev) + UpTo(mine, i)
        <3>1. prev \in Seq(Collectable) /\ mine \in Seq(Collectable)
            BY <1>3, <1>4
        <3> QED BY <1>7, <3>1, UpToJoined
    <2> QED BY <1>4, <2>1
<1>13. UpTo(f[r], k) = InputOffset(tensor, r) + UpTo(mbufs, j)
       /\ UpTo(f[r], k - 1) = InputOffset(tensor, r) + UpTo(mbufs, j - 1)
    <2>1. UpTo(f[r], k) = Total(prev) + UpTo(mine, j)
        BY <1>9, <1>12
    <2>2. UpTo(f[r], k - 1) = Total(prev) + UpTo(mine, j - 1)
        <3>1. UpTo(f[r], m + (j - 1)) = Total(prev) + UpTo(mine, j - 1)
            BY <1>9, <1>12
        <3> QED BY <1>9, <3>1
    <2> QED BY <1>3, <1>4, <1>9, <2>1, <2>2
<1>14. k \in 0 .. Len(f[r]) /\ k - 1 \in 0 .. Len(f[r])
    BY <1>8, <1>9
<1> HIDE DEF k
<1>15. UpTo(bufs, k - 1) = InputOffset(tensor, r) + UpTo(mbufs, j - 1)
       /\ UpTo(bufs, k) = InputOffset(tensor, r) + UpTo(mbufs, j)
    BY <1>11, <1>13, <1>14
<1> QED BY <1>9, <1>10, <1>15 DEF bufs, mine, mbufs

(***************************************************************************)
(* Each byte of a request is covered by a buffer of its, at its place.     *)
(***************************************************************************)
LEMMA ByteLocated ==
    ASSUME NEW tensor, IsTensor(tensor), NEW r \in Requests,
           NEW y \in 1 .. Len(InputBytes(tensor, r))
    PROVE  LET bufs == Collected(tensor)
               x == InputOffset(tensor, r) + y
           IN  \E k \in 1 .. Len(bufs) :
                  /\ Covers(bufs, k, x) /\ bufs[k].first = r
                  /\ InputBytes(tensor, r)[y] = ByteOf(bufs[k], x - UpTo(bufs, k - 1))
<1> DEFINE bufs == Collected(tensor)
           mine == tensor.inputs[r]
           seqs == [i \in DOMAIN mine |-> Bytes(mine[i])]
           o == InputOffset(tensor, r)
<1>1. mine \in Seq(InputBuffers)
    BY DEF IsTensor, Requests
<1>2. InputBytes(tensor, r) = FlattenSeq(seqs)
    BY DEF InputBytes
<1>3. /\ Len(mine) \in Nat /\ DOMAIN mine = 1 .. Len(mine)
      /\ \A i \in 1 .. Len(mine) : mine[i] \in InputBuffers
    BY <1>1
<1>4. \A e \in InputBuffers : e.size \in Nat /\ e.addr \in Nat /\ e.place \in Places
    BY DEF InputBuffers
<1> HIDE DEF mine
<1>5. \A i \in 1 .. Len(mine) : Bytes(mine[i]) \in Seq(Locations) /\ Len(Bytes(mine[i])) = mine[i].size
    BY <1>3, <1>4, BytesType
<1>6. seqs \in [1 .. Len(mine) -> Seq(Locations)] /\ \A i \in 1 .. Len(mine) : seqs[i] = Bytes(mine[i])
    BY <1>3, <1>5
<1>7. seqs \in Seq(Seq(Locations)) /\ Len(seqs) = Len(mine)
    <2> HIDE DEF seqs
    <2> QED BY <1>3, <1>6
<1>8. \A i \in 1 .. Len(seqs) : Len(seqs[i]) = mine[i].size
    BY <1>3, <1>5, <1>7
<1> HIDE DEF seqs
<1>9. y \in 1 .. Total(mine) /\ o \in Nat
    BY InputBytesLength, OffsetFacts DEF mine
<1>10. PICK j \in 1 .. Len(mine) :
           Covers(mine, j, y) /\ FlattenSeq(seqs)[y] = seqs[j][y - UpTo(mine, j - 1)]
    BY <1>1, <1>4, <1>7, <1>8, <1>9, FlattenLocates
<1>11. PICK k \in 1 .. Len(bufs) :
           /\ bufs[k] = OfRequest(tensor, r)[j]
           /\ UpTo(bufs, k - 1) = o + UpTo(mine, j - 1)
           /\ UpTo(bufs, k) = o + UpTo(mine, j)
    BY CollectedPlaces DEF mine
<1>12. OfRequest(tensor, r)[j] = [place |-> mine[j].place, addr |-> mine[j].addr, size |-> mine[j].size,
                                  first |-> r, last |-> r]
    BY OfRequestFacts DEF mine
<1>13. bufs[k].first = r /\ bufs[k].place = mine[j].place /\ bufs[k].addr = mine[j].addr
    BY <1>11, <1>12
<1> HIDE DEF bufs, o
<1>14. /\ UpTo(mine, j - 1) \in Nat /\ UpTo(mine, j) \in Nat
       /\ UpTo(mine, j) = UpTo(mine, j - 1) + mine[j].size /\ mine[j].size \in Nat
       /\ mine[j].addr \in Nat
    <2>1. j - 1 \in 0 .. Len(mine) /\ j \in 0 .. Len(mine)
        BY <1>3
    <2> QED BY <1>1, <1>3, <1>4, <2>1, UpToFacts
<1> DEFINE u == UpTo(mine, j - 1)
<1>15. u < y /\ y <= UpTo(mine, j) /\ y \in Nat
    BY <1>9, <1>10 DEF Covers
<1>16. y - u \in 1 .. mine[j].size /\ (o + y) - UpTo(bufs, k - 1) = y - u
    <2> DEFINE v == UpTo(bufs, k - 1)
               z == mine[j].size
               w == UpTo(mine, j)
    <2>1. u \in Nat /\ z \in Nat /\ w = u + z /\ u < y /\ y <= w /\ y \in Nat /\ o \in Nat /\ v = o + u
        BY <1>9, <1>11, <1>14, <1>15
    <2> HIDE DEF u, v, w, z
    <2>2. y - u \in 1 .. z /\ (o + y) - v = y - u
        BY <2>1
    <2> QED BY <2>2 DEF u, v, w, z
<1>17. Covers(bufs, k, o + y)
    <2>1. o + u < o + y /\ o + y <= o + UpTo(mine, j)
        BY <1>9, <1>14, <1>15
    <2> QED BY <1>11, <2>1 DEF Covers
<1>18. seqs[j][y - u] = <<mine[j].place, mine[j].addr + (y - u) - 1>>
    <2>1. seqs[j] = Bytes(mine[j])
        BY <1>6
    <2> HIDE DEF u
    <2> QED BY <1>16, <2>1 DEF Bytes
<1>19. InputBytes(tensor, r)[y] = ByteOf(bufs[k], (o + y) - UpTo(bufs, k - 1))
    BY <1>2, <1>10, <1>13, <1>16, <1>18 DEF ByteOf
<1> QED BY <1>13, <1>17, <1>19 DEF bufs, o
-----------------------------------------------------------------------------
LEMMA SizesAreNat == (\A e \in Collectable : e.size \in Nat) /\ \A e \in InputBuffers : e.size \in Nat
BY DEF Collectable, InputBuffers

LEMMA BufferFacts ==
    ASSUME NEW bufs \in Seq(Collectable), NEW k \in 1 .. Len(bufs)
    PROVE  /\ bufs[k] \in Collectable /\ bufs[k].place \in Places
           /\ bufs[k].addr \in Nat /\ bufs[k].size \in Nat /\ bufs[k].first \in Nat
<1>1. bufs[k] \in Collectable
    BY ElementOfSeq
<1> QED BY <1>1 DEF Collectable

(***************************************************************************)
(* The buffers of the first R requests are those in front, up to where the *)
(* input of request R ends.                                                *)
(***************************************************************************)
LEMMA RequestsInFront ==
    ASSUME NEW tensor, IsTensor(tensor), NEW R \in Requests
    PROVE  LET bufs == Collected(tensor)
           IN  \E n \in 0 .. Len(bufs) :
                  /\ UpTo(bufs, n) = InputEnd(tensor, R)
                  /\ \A k \in 1 .. n : bufs[k].first <= R
                  /\ \A k \in n + 1 .. Len(bufs) : bufs[k].first > R
<1> DEFINE bufs == Collected(tensor)
<1>1. /\ RequestCount \in Requests /\ RequestCount # 0
      /\ Requests = 1 .. RequestCount /\ RequestCount \in Nat
    BY DEF IsTensor, Requests
<1>2. PICK f : InRequestOrder(f, tensor) /\ bufs = f[RequestCount]
    BY <1>1, CollectedRuns
<1>3. bufs \in Seq(Collectable)
    BY CollectedOrder
<1> HIDE DEF bufs
<1>4. InFront(f, R, RequestCount)
    BY <1>2, FrontStays
<1> DEFINE g == f[R]
           n == Len(g)
<1>5. /\ g \in Seq(Collectable) /\ Total(g) = InputEnd(tensor, R)
      /\ \A k \in 1 .. n : g[k].first \in 1 .. R
    BY <1>2 DEF InRequestOrder, Ordered
<1>6. /\ n <= Len(bufs) /\ \A k \in 1 .. n : bufs[k] = g[k]
      /\ \A k \in n + 1 .. Len(bufs) : bufs[k].first > R
    BY <1>2, <1>4 DEF InFront
<1> HIDE DEF g
<1>7. n \in Nat /\ Len(bufs) \in Nat
    BY <1>3, <1>5
<1>8. SubSeq(bufs, 1, n) = g
    BY <1>3, <1>5, <1>6, <1>7
<1>9. UpTo(bufs, n) = InputEnd(tensor, R)
    BY <1>5, <1>8 DEF UpTo
<1>10. \A k \in 1 .. n : bufs[k].first <= R
    BY <1>1, <1>5, <1>6
<1>11. n \in 0 .. Len(bufs)
    BY <1>6, <1>7
<1> HIDE DEF n
<1> QED BY <1>6, <1>9, <1>10, <1>11 DEF bufs

\* The requests of the buffers come in order.
LEMMA FirstsGrow ==
    ASSUME NEW tensor, IsTensor(tensor), NEW k \in 1 .. Len(Collected(tensor)),
           NEW l \in k .. Len(Collected(tensor))
    PROVE  Collected(tensor)[k].first <= Collected(tensor)[l].first
<1> DEFINE bufs == Collected(tensor)
           R == bufs[l].first
<1>1. /\ bufs \in Seq(Collectable) /\ l \in 1 .. Len(bufs) /\ R \in Requests /\ R \in Nat
      /\ k \in 1 .. Len(bufs) /\ k <= l /\ Len(bufs) \in Nat
    BY CollectedOrder DEF Requests, IsTensor
<1> HIDE DEF R
<1>2. PICK n \in 0 .. Len(bufs) :
          /\ \A q \in 1 .. n : bufs[q].first <= R
          /\ \A q \in n + 1 .. Len(bufs) : bufs[q].first > R
    BY <1>1, RequestsInFront
<1> HIDE DEF bufs
<1>3. l <= n
    <2> SUFFICES ASSUME ~(l <= n) PROVE FALSE
        OBVIOUS
    <2>1. l \in n + 1 .. Len(bufs)
        BY <1>1
    <2>2. bufs[l].first > R
        BY <1>2, <2>1
    <2>3. bufs[l].first = R
        BY DEF R
    <2> QED BY <1>1, <2>2, <2>3
<1>4. k \in 1 .. n
    BY <1>1, <1>3
<1>5. bufs[k].first <= R
    BY <1>2, <1>4
<1> QED BY <1>5 DEF R, bufs

\* If all buffers after the first j are of later requests, the input of R ends with them.
LEMMA EndsBy ==
    ASSUME NEW tensor, IsTensor(tensor), NEW R \in Requests,
           NEW j \in 0 .. Len(Collected(tensor)),
           \A k \in j + 1 .. Len(Collected(tensor)) : Collected(tensor)[k].first > R
    PROVE  InputEnd(tensor, R) <= UpTo(Collected(tensor), j)
<1> DEFINE bufs == Collected(tensor)
<1>1. bufs \in Seq(Collectable) /\ Len(bufs) \in Nat
    BY CollectedOrder
<1>2. PICK n \in 0 .. Len(bufs) :
          /\ UpTo(bufs, n) = InputEnd(tensor, R)
          /\ \A q \in 1 .. n : bufs[q].first <= R
    BY RequestsInFront
<1>3. ASSUME NEW q \in 1 .. Len(bufs) PROVE bufs[q].first \in Nat
    <2>1. bufs[q].first \in Requests
        BY CollectedOrder
    <2> QED BY <2>1 DEF Requests, IsTensor
<1>4. R \in Nat
    BY DEF Requests, IsTensor
<1> HIDE DEF bufs
<1>5. n <= j
    <2> SUFFICES ASSUME ~(n <= j) PROVE FALSE
        OBVIOUS
    <2>1. n \in 1 .. n /\ n \in j + 1 .. Len(bufs) /\ n \in 1 .. Len(bufs)
        BY <1>1 DEF bufs
    <2>2. bufs[n].first <= R /\ bufs[n].first > R
        BY <1>2, <2>1 DEF bufs
    <2> QED BY <1>3, <1>4, <2>1, <2>2
<1>6. n \in 0 .. j /\ j \in 0 .. Len(bufs)
    BY <1>1, <1>5 DEF bufs
<1>7. UpTo(bufs, n) <= UpTo(bufs, j)
    BY <1>1, <1>6, SizesAreNat, UpToGrows
<1> QED BY <1>2, <1>7 DEF bufs

\* Every input ends within the buffers.
LEMMA EndWithin ==
    ASSUME NEW tensor, IsTensor(tensor), NEW R \in Requests
    PROVE  InputEnd(tensor, R) <= Total(Collected(tensor))
<1> DEFINE bufs == Collected(tensor)
<1>1. bufs \in Seq(Collectable) /\ Len(bufs) \in Nat
    BY CollectedOrder
<1>2. Len(bufs) \in 0 .. Len(bufs) /\ Len(bufs) + 1 .. Len(bufs) = {}
    BY <1>1
<1>3. InputEnd(tensor, R) <= UpTo(bufs, Len(bufs))
    BY <1>2, EndsBy
<1> HIDE DEF bufs
<1>4. UpTo(bufs, Len(bufs)) = Total(bufs)
    BY <1>1, SizesAreNat, UpToFacts
<1> QED BY <1>3, <1>4 DEF bufs
-----------------------------------------------------------------------------
(***************************************************************************)
(* Buffer b is made of the bytes of bufs after the first pos, and of their *)
(* requests.                                                               *)
(***************************************************************************)
BufferAt(bufs, pos, b) ==
    \A y \in 1 .. b.size : \A k \in 1 .. Len(bufs) :
        Covers(bufs, k, pos + y) =>
            /\ ByteOf(bufs[k], (pos + y) - UpTo(bufs, k - 1)) = ByteOf(b, y)
            /\ bufs[k].first \in RequestsOf(b)

\* Buffers that are adjacent, one after the other, are at the same place.
LEMMA AdjacentRun ==
    ASSUME NEW bufs \in Seq(Collectable), NEW i \in 1 .. Len(bufs), NEW j \in i .. Len(bufs),
           \A k \in i .. j - 1 : Adjacent(bufs[k], bufs[k + 1])
    PROVE  \A k \in i .. j : /\ bufs[k].place = bufs[i].place
                            /\ bufs[k].addr + UpTo(bufs, i - 1) = bufs[i].addr + UpTo(bufs, k - 1)
<1> DEFINE Along(k) == /\ bufs[k].place = bufs[i].place
                       /\ bufs[k].addr + UpTo(bufs, i - 1) = bufs[i].addr + UpTo(bufs, k - 1)
           T == {d \in Nat : i + d <= j => Along(i + d)}
<1>1. i \in Nat /\ j \in Nat /\ i <= j /\ Len(bufs) \in Nat /\ j <= Len(bufs) /\ 1 <= i
    OBVIOUS
<1>2. Along(i)
    OBVIOUS
<1>3. 0 \in T
    <2>1. i + 0 = i
        BY <1>1
    <2> HIDE DEF Along
    <2>2. Along(i + 0)
        BY <1>2, <2>1
    <2> QED BY <2>2
<1>4. ASSUME NEW d \in Nat, d \in T, i + (d + 1) <= j PROVE Along(i + (d + 1))
    <2> DEFINE k == i + d
    <2>1. k <= j /\ k \in i .. j - 1 /\ k \in 1 .. Len(bufs) /\ k + 1 \in 1 .. Len(bufs)
          /\ i + (d + 1) = k + 1 /\ (k + 1) - 1 = k /\ k - 1 \in 0 .. Len(bufs) /\ i - 1 \in 0 .. Len(bufs)
        BY <1>1, <1>4
    <2>2. Along(k)
        <3> HIDE DEF Along
        <3> QED BY <1>4, <2>1
    <2> HIDE DEF T, k
    <2>3. Adjacent(bufs[k], bufs[k + 1])
        BY <2>1
    <2>4. UpTo(bufs, k) = UpTo(bufs, k - 1) + bufs[k].size
        BY <2>1, SizesAreNat, UpToFacts
    <2>5. UpTo(bufs, k - 1) \in Nat /\ UpTo(bufs, k) \in Nat /\ UpTo(bufs, i - 1) \in Nat
        <3>1. k \in 0 .. Len(bufs)
            BY <1>1, <2>1
        <3> QED BY <2>1, <3>1, SizesAreNat, UpToFacts
    <2>6. /\ bufs[k].size \in Nat /\ bufs[k].addr \in Nat /\ bufs[k + 1].addr \in Nat /\ bufs[i].addr \in Nat
        BY <2>1, BufferFacts
    <2>7. bufs[k].addr + bufs[k].size = bufs[k + 1].addr /\ bufs[k].place = bufs[k + 1].place
        BY <2>3 DEF Adjacent
    <2>8. bufs[k + 1].addr + UpTo(bufs, i - 1) = bufs[i].addr + UpTo(bufs, k)
        <3> DEFINE a == bufs[k].addr
                   b == bufs[k + 1].addr
                   c == bufs[i].addr
                   u == UpTo(bufs, i - 1)
                   v == UpTo(bufs, k - 1)
                   w == UpTo(bufs, k)
                   z == bufs[k].size
        <3>1. /\ a \in Nat /\ b \in Nat /\ c \in Nat /\ u \in Nat /\ v \in Nat /\ w \in Nat /\ z \in Nat
              /\ a + u = c + v /\ a + z = b /\ w = v + z
            BY <2>2, <2>4, <2>5, <2>6, <2>7
        <3> HIDE DEF a, b, c, u, v, w, z
        <3>2. b + u = c + w
            BY <3>1
        <3> QED BY <3>2 DEF a, b, c, u, v, w, z
    <2>9. bufs[k + 1].place = bufs[i].place
        BY <2>2, <2>7
    <2>10. Along(k + 1)
        BY <2>1, <2>8, <2>9
    <2> HIDE DEF Along
    <2> QED BY <2>1, <2>10
<1>5. \A d \in Nat : d \in T => d + 1 \in T
    <2> HIDE DEF Along
    <2> QED BY <1>4
<1> HIDE DEF T
<1>6. \A d \in Nat : d \in T
    BY <1>3, <1>5, Adding!NaturalInduction
<1> SUFFICES ASSUME NEW k \in i .. j PROVE Along(k)
    OBVIOUS
<1>7. k - i \in T /\ k - i \in Nat /\ i + (k - i) = k /\ k <= j
    BY <1>1, <1>6
<1> HIDE DEF Along
<1> QED BY <1>7 DEF T

(***************************************************************************)
(* A run of adjacent buffers is one buffer.                                *)
(***************************************************************************)
LEMMA RunIsBuffer ==
    ASSUME NEW bufs \in Seq(Collectable), NEW i \in 1 .. Len(bufs), NEW j \in i .. Len(bufs),
           \A k \in i .. j - 1 : Adjacent(bufs[k], bufs[k + 1]),
           NEW b, b.place = bufs[i].place, b.addr = bufs[i].addr, b.size = Total(SubSeq(bufs, i, j)),
           \A k \in i .. j : bufs[k].first \in RequestsOf(b)
    PROVE  BufferAt(bufs, UpTo(bufs, i - 1), b)
<1>1. i \in Nat /\ j \in Nat /\ i <= j /\ Len(bufs) \in Nat /\ j <= Len(bufs) /\ 1 <= i
      /\ i - 1 \in 0 .. Len(bufs) /\ j \in 0 .. Len(bufs)
    OBVIOUS
<1> DEFINE pos == UpTo(bufs, i - 1)
           end == UpTo(bufs, j)
<1>2. end = pos + b.size /\ pos \in Nat /\ end \in Nat
    BY <1>1, SizesAreNat, UpToRun, UpToFacts
<1>3. b.size \in Nat
    <2>1. SubSeq(bufs, i, j) \in Seq(Collectable)
        BY <1>1
    <2> QED BY <2>1, SizesAreNat, TotalNat
<1>4. bufs[i].addr \in Nat
    BY BufferFacts
<1> SUFFICES ASSUME NEW y \in 1 .. b.size, NEW k \in 1 .. Len(bufs), Covers(bufs, k, pos + y)
             PROVE  /\ ByteOf(bufs[k], (pos + y) - UpTo(bufs, k - 1)) = ByteOf(b, y)
                    /\ bufs[k].first \in RequestsOf(b)
    BY DEF BufferAt
<1> HIDE DEF pos, end
<1>5. UpTo(bufs, k - 1) < pos + y /\ pos + y <= UpTo(bufs, k) /\ y \in Nat /\ 1 <= y /\ y <= b.size
    BY <1>3 DEF Covers
<1>6. k - 1 \in 0 .. Len(bufs) /\ k \in 0 .. Len(bufs) /\ UpTo(bufs, k - 1) \in Nat /\ UpTo(bufs, k) \in Nat
    <2>1. k - 1 \in 0 .. Len(bufs) /\ k \in 0 .. Len(bufs)
        BY <1>1
    <2> QED BY <2>1, SizesAreNat, UpToFacts
<1>7. k >= i
    <2> SUFFICES ASSUME ~(k >= i) PROVE FALSE
        OBVIOUS
    <2>1. k \in 0 .. i - 1
        BY <1>1
    <2>2. UpTo(bufs, k) <= pos
        BY <1>1, <2>1, SizesAreNat, UpToGrows DEF pos
    <2> QED BY <1>2, <1>5, <1>6, <2>2
<1>8. k <= j
    <2> SUFFICES ASSUME ~(k <= j) PROVE FALSE
        OBVIOUS
    <2>1. j \in 0 .. k - 1
        BY <1>1
    <2>2. end <= UpTo(bufs, k - 1)
        BY <1>6, <2>1, SizesAreNat, UpToGrows DEF end
    <2> QED BY <1>2, <1>3, <1>5, <1>6, <2>2
<1>9. k \in i .. j
    BY <1>1, <1>7, <1>8
<1>10. bufs[k].place = bufs[i].place /\ bufs[k].addr + pos = bufs[i].addr + UpTo(bufs, k - 1)
    BY <1>9, AdjacentRun DEF pos
<1>11. bufs[k].addr \in Nat
    BY BufferFacts
<1>12. bufs[k].addr + ((pos + y) - UpTo(bufs, k - 1)) - 1 = bufs[i].addr + y - 1
    <2> DEFINE a == bufs[k].addr
               c == bufs[i].addr
               v == UpTo(bufs, k - 1)
    <2>1. a \in Nat /\ c \in Nat /\ v \in Nat /\ pos \in Nat /\ y \in Nat /\ a + pos = c + v
        BY <1>2, <1>4, <1>5, <1>6, <1>10, <1>11
    <2> HIDE DEF a, c, v
    <2>2. a + ((pos + y) - v) - 1 = c + y - 1
        BY <2>1, SMTT(20)
    <2> QED BY <2>2 DEF a, c, v
<1>13. ByteOf(bufs[k], (pos + y) - UpTo(bufs, k - 1)) = ByteOf(b, y)
    BY <1>10, <1>12 DEF ByteOf
<1> QED BY <1>9, <1>13
-----------------------------------------------------------------------------
(***************************************************************************)
(* Copies and what they gather.  A is the buffers of each tensor; H says   *)
(* where the cells of a buffer belong: h = <<i, o>> that its first cell is *)
(* that of tensor i after the first o, <<i, 0>> being tensor i itself.     *)
(* Value v is what cell y has to hold, of the requests in L, and nobody in *)
(* L has bytes there.                                                      *)
(***************************************************************************)
Wanted(A, h, y, L, v) ==
    \A k \in 1 .. Len(A[h[1]]) :
        Covers(A[h[1]], k, h[2] + y) /\ A[h[1]][k].first \in L
            => v = ByteOf(A[h[1]][k], (h[2] + y) - UpTo(A[h[1]], k - 1))

Ownerless(A, h, y, L) ==
    \A k \in 1 .. Len(A[h[1]]) : Covers(A[h[1]], k, h[2] + y) => A[h[1]][k].first \notin L

LEMMA WantedOfFewer ==
    ASSUME NEW A, NEW h, NEW y, NEW L, NEW M \in SUBSET L
    PROVE  /\ \A v : Wanted(A, h, y, L, v) => Wanted(A, h, y, M, v)
           /\ Ownerless(A, h, y, L) => Ownerless(A, h, y, M)
           /\ \A v : Ownerless(A, h, y, L) => Wanted(A, h, y, L, v)
BY DEF Wanted, Ownerless

\* The bytes that a copy is about to write.
Payload(m, op) == IF op.src = 0 THEN op.data ELSE m[op.src]

\* A copy that fits and writes what is wanted, from a pinned buffer that no copy is writing to.
OpRight(A, H, st, op) ==
    /\ op.dst \in DOMAIN st.mem /\ op.off \in Nat
    /\ op.src # 0 => /\ op.src \in DOMAIN st.mem /\ op.src \notin DOMAIN A
                     /\ \A n \in DOMAIN st.stream : st.stream[n].dst # op.src
    /\ IsSequence(Payload(st.mem, op))
    /\ op.off + Len(Payload(st.mem, op)) <= Len(st.mem[op.dst])
    /\ \A y \in 1 .. Len(Payload(st.mem, op)) :
          Wanted(A, H[op.dst], op.off + y, st.live, Payload(st.mem, op)[y])

Sound(A, H, st) ==
    /\ IsState(st) /\ AreCells(st.mem)
    /\ \A n \in DOMAIN st.stream : OpRight(A, H, st, st.stream[n])

\* No copy is going to read buffer d.
Unread(st, d) == d # 0 /\ \A n \in DOMAIN st.stream : st.stream[n].src # d

Queued(st, d, y) ==
    \E n \in DOMAIN st.stream :
        /\ st.stream[n].dst = d
        /\ y \in st.stream[n].off + 1 .. st.stream[n].off + Len(Payload(st.mem, st.stream[n]))

\* Cell y of buffer d is or will be as wanted.
Sure(A, H, st, d, y) ==
    \/ Ownerless(A, H[d], y, st.live)
    \/ y \in 1 .. Len(st.mem[d]) /\ Wanted(A, H[d], y, st.live, st.mem[d][y])
    \/ Queued(st, d, y)

\* From a to b nothing that was sure is lost.
Better(A, H, a, b) ==
    /\ Sound(A, H, b) /\ SameLengths(a.mem, b.mem) /\ b.live \subseteq a.live
    /\ \A d \in DOMAIN a.mem : \A y \in Nat : Sure(A, H, a, d, y) => Sure(A, H, b, d, y)

\* An element more.
LEMMA AppendIs ==
    ASSUME NEW s, IsSequence(s), NEW e
    PROVE  /\ IsSequence(Append(s, e)) /\ Len(s) \in Nat /\ DOMAIN s = 1 .. Len(s)
           /\ DOMAIN Append(s, e) = 1 .. Len(s) + 1
           /\ \A i \in 1 .. Len(s) : Append(s, e)[i] = s[i]
           /\ Append(s, e)[Len(s) + 1] = e
<1>1. PICK S : s \in Seq(S)
    BY DEF IsSequence
<1>2. s \in Seq(S \cup {e}) /\ e \in S \cup {e}
    BY <1>1, SeqMonotonic
<1> QED BY <1>2, AppendProperties, LenProperties DEF IsSequence

LEMMA BetterBoth ==
    ASSUME NEW A, NEW H, NEW a, NEW b, NEW c, Better(A, H, a, b), Better(A, H, b, c)
    PROVE  Better(A, H, a, c)
<1>1. SameLengths(a.mem, c.mem)
    BY SameLengthsBoth DEF Better
<1>2. DOMAIN b.mem = DOMAIN a.mem
    BY DEF Better, SameLengths
<1> QED BY <1>1, <1>2 DEF Better

LEMMA BetterSame ==
    ASSUME NEW A, NEW H, NEW a, Sound(A, H, a) PROVE Better(A, H, a, a)
BY DEF Better, Sound, SameLengths, AreCells
-----------------------------------------------------------------------------
(***************************************************************************)
(* The four things that happen: requests are answered, a copy is queued,   *)
(* made at once, or performed by the stream.                               *)
(***************************************************************************)
LEMMA AnswerBetter ==
    ASSUME NEW A, NEW H, NEW a, Sound(A, H, a), NEW reqs, NEW b, IsState(b),
           b.mem = a.mem, b.stream = a.stream, b.live = a.live \ reqs
    PROVE  Better(A, H, a, b)
<1>2. /\ b.live \in SUBSET a.live
      /\ \A h, y, v : Wanted(A, h, y, a.live, v) => Wanted(A, h, y, b.live, v)
    <2>1. b.live \in SUBSET a.live
        OBVIOUS
    <2> QED BY <2>1, WantedOfFewer
<1>3. IsState(b) /\ AreCells(b.mem) /\ SameLengths(a.mem, b.mem)
    BY DEF Sound, SameLengths, AreCells
<1>4. ASSUME NEW op, OpRight(A, H, a, op) PROVE OpRight(A, H, b, op)
    <2>1. \A y \in 1 .. Len(Payload(a.mem, op)) :
             Wanted(A, H[op.dst], op.off + y, b.live, Payload(a.mem, op)[y])
        <3> SUFFICES ASSUME NEW y \in 1 .. Len(Payload(a.mem, op))
                     PROVE  Wanted(A, H[op.dst], op.off + y, b.live, Payload(a.mem, op)[y])
            OBVIOUS
        <3>1. Wanted(A, H[op.dst], op.off + y, a.live, Payload(a.mem, op)[y])
            BY <1>4 DEF OpRight
        <3> QED BY <1>2, <3>1
    <2> QED BY <1>4, <2>1 DEF OpRight
<1>5. ASSUME NEW d \in DOMAIN a.mem, NEW y \in Nat, Sure(A, H, a, d, y) PROVE Sure(A, H, b, d, y)
    <2>1. Queued(a, d, y) => Queued(b, d, y)
        BY DEF Queued
    <2>2. Ownerless(A, H[d], y, a.live) => Ownerless(A, H[d], y, b.live)
        BY <1>2, WantedOfFewer
    <2>3. Wanted(A, H[d], y, a.live, a.mem[d][y]) => Wanted(A, H[d], y, b.live, b.mem[d][y])
        BY <1>2
    <2> QED BY <1>5, <2>1, <2>2, <2>3 DEF Sure
<1>6. Sound(A, H, b)
    BY <1>3, <1>4 DEF Sound
<1> QED BY <1>2, <1>3, <1>5, <1>6 DEF Better

LEMMA QueueBetter ==
    ASSUME NEW A, NEW H, NEW a, Sound(A, H, a), NEW op, OpRight(A, H, a, op),
           Unread(a, op.dst), op.src # op.dst,
           NEW b, IsState(b), b.mem = a.mem, b.stream = Append(a.stream, op), b.live = a.live
    PROVE  /\ Better(A, H, a, b)
           /\ \A y \in 1 .. Len(Payload(a.mem, op)) : Sure(A, H, b, op.dst, op.off + y)
<1> DEFINE n == Len(a.stream)
<1>2. /\ IsSequence(b.stream) /\ n \in Nat /\ DOMAIN a.stream = 1 .. n /\ DOMAIN b.stream = 1 .. n + 1
      /\ \A i \in 1 .. n : b.stream[i] = a.stream[i]
      /\ b.stream[n + 1] = op
    BY AppendIs DEF Sound, IsState
<1> HIDE DEF n
<1>3. IsState(b) /\ AreCells(b.mem) /\ SameLengths(a.mem, b.mem)
    BY DEF Sound, SameLengths, AreCells
<1>4. ASSUME NEW o, OpRight(A, H, a, o), o.src # op.dst PROVE OpRight(A, H, b, o)
    <2>1. o.src # 0 => \A i \in DOMAIN b.stream : b.stream[i].dst # o.src
        <3> SUFFICES ASSUME o.src # 0, NEW i \in DOMAIN b.stream PROVE b.stream[i].dst # o.src
            OBVIOUS
        <3>1. CASE i = n + 1
            BY <1>2, <1>4, <3>1
        <3>2. CASE i # n + 1
            <4>1. i \in 1 .. n
                BY <1>2, <3>2
            <4> QED BY <1>2, <1>4, <4>1 DEF OpRight
        <3> QED BY <3>1, <3>2
    <2> QED BY <1>4, <2>1 DEF OpRight
<1>5. \A i \in DOMAIN b.stream : OpRight(A, H, b, b.stream[i])
    <2> SUFFICES ASSUME NEW i \in DOMAIN b.stream PROVE OpRight(A, H, b, b.stream[i])
        OBVIOUS
    <2>1. CASE i = n + 1
        BY <1>2, <1>4, <2>1
    <2>2. CASE i # n + 1
        <3>1. i \in 1 .. n
            BY <1>2, <2>2
        <3>2. OpRight(A, H, a, a.stream[i]) /\ a.stream[i].src # op.dst
            BY <1>2, <3>1 DEF Sound, Unread
        <3> QED BY <1>2, <1>4, <3>1, <3>2
    <2> QED BY <2>1, <2>2
<1>6. Sound(A, H, b)
    BY <1>3, <1>5 DEF Sound
<1>7. ASSUME NEW d \in DOMAIN a.mem, NEW y \in Nat, Sure(A, H, a, d, y) PROVE Sure(A, H, b, d, y)
    <2>1. Queued(a, d, y) => Queued(b, d, y)
        <3> SUFFICES ASSUME Queued(a, d, y) PROVE Queued(b, d, y)
            OBVIOUS
        <3>1. PICK i \in DOMAIN a.stream :
                 /\ a.stream[i].dst = d
                 /\ y \in a.stream[i].off + 1 .. a.stream[i].off + Len(Payload(a.mem, a.stream[i]))
            BY DEF Queued
        <3>2. i \in DOMAIN b.stream /\ b.stream[i] = a.stream[i]
            BY <1>2
        <3> QED BY <3>1, <3>2 DEF Queued
    <2> QED BY <1>7, <2>1 DEF Sure
<1>8. ASSUME NEW y \in 1 .. Len(Payload(a.mem, op)) PROVE Sure(A, H, b, op.dst, op.off + y)
    <2> DEFINE l == Len(Payload(a.mem, op))
               o == op.off
    <2>1. o \in Nat /\ l \in Nat /\ y \in 1 .. l
        BY LenFacts DEF OpRight
    <2> HIDE DEF o, l
    <2>2. o + y \in o + 1 .. o + l
        BY <2>1
    <2>3. n + 1 \in DOMAIN b.stream /\ b.stream[n + 1] = op
        BY <1>2
    <2>4. Queued(b, op.dst, o + y)
        BY <2>2, <2>3 DEF Queued, o, l
    <2> QED BY <2>4 DEF Sure, o
<1>9. Better(A, H, a, b)
    BY <1>3, <1>6, <1>7 DEF Better
<1> QED BY <1>8, <1>9
-----------------------------------------------------------------------------
\* What a copy leaves in memory.
LEMMA PerformIs ==
    ASSUME NEW m, AreCells(m), NEW op, op.dst \in DOMAIN m, op.off \in Nat,
           IsSequence(Payload(m, op)), op.off + Len(Payload(m, op)) <= Len(m[op.dst])
    PROVE  LET n == Perform(m, op)
               data == Payload(m, op)
           IN  /\ SameLengths(m, n)
               /\ \A d \in DOMAIN m : d # op.dst => n[d] = m[d]
               /\ \A y \in 1 .. Len(m[op.dst]) :
                     n[op.dst][y] = IF y \in op.off + 1 .. op.off + Len(data)
                                    THEN data[y - op.off] ELSE m[op.dst][y]
<1> DEFINE data == Payload(m, op)
           n == Perform(m, op)
           cells == m[op.dst]
<1>1. n = [m EXCEPT ![op.dst] = Overwrite(cells, op.off, data)]
    BY DEF Perform, Payload
<1>2. DOMAIN cells = 1 .. Len(cells)
    BY LenFacts DEF AreCells
<1>3. SameLengths(m, n)
    BY PerformLengths
<1> HIDE DEF n, data, cells
<1>4. n[op.dst] = Overwrite(cells, op.off, data) /\ \A d \in DOMAIN m : d # op.dst => n[d] = m[d]
    BY <1>1
<1>5. \A y \in 1 .. Len(cells) :
         n[op.dst][y] = IF y \in op.off + 1 .. op.off + Len(data) THEN data[y - op.off] ELSE cells[y]
    BY <1>2, <1>4 DEF Overwrite
<1> QED BY <1>3, <1>4, <1>5 DEF n, data, cells

(***************************************************************************)
(* A copy is performed, and those queued are the same or the same but for  *)
(* it.                                                                     *)
(***************************************************************************)
LEMMA PerformBetter ==
    ASSUME NEW A, NEW H, NEW a, Sound(A, H, a), NEW op, OpRight(A, H, a, op),
           NEW b, IsState(b), b.mem = Perform(a.mem, op), b.live = a.live, Unread(b, op.dst),
           \A i \in DOMAIN b.stream : \E j \in DOMAIN a.stream : b.stream[i] = a.stream[j],
           \A j \in DOMAIN a.stream :
              a.stream[j] = op \/ \E i \in DOMAIN b.stream : b.stream[i] = a.stream[j]
    PROVE  /\ Better(A, H, a, b)
           /\ \A y \in 1 .. Len(Payload(a.mem, op)) : Sure(A, H, b, op.dst, op.off + y)
<1> DEFINE data == Payload(a.mem, op)
           e == op.dst
           off == op.off
<1>1. /\ AreCells(a.mem) /\ e \in DOMAIN a.mem /\ off \in Nat /\ IsSequence(data)
      /\ off + Len(data) <= Len(a.mem[e])
      /\ \A y \in 1 .. Len(data) : Wanted(A, H[e], off + y, a.live, data[y])
    BY DEF Sound, OpRight
<1>2. Len(data) \in Nat /\ Len(a.mem[e]) \in Nat
    BY <1>1, LenFacts DEF AreCells
<1>3. /\ SameLengths(a.mem, b.mem)
      /\ \A d \in DOMAIN a.mem : d # e => b.mem[d] = a.mem[d]
      /\ \A y \in 1 .. Len(a.mem[e]) :
            b.mem[e][y] = IF y \in off + 1 .. off + Len(data) THEN data[y - off] ELSE a.mem[e][y]
    <2> DEFINE m == a.mem
    <2>1. /\ AreCells(m) /\ op.dst \in DOMAIN m /\ op.off \in Nat /\ IsSequence(Payload(m, op))
          /\ op.off + Len(Payload(m, op)) <= Len(m[op.dst])
        BY <1>1
    <2>2. b.mem = Perform(m, op)
        OBVIOUS
    <2> HIDE DEF m, data, e, off
    <2>3. /\ SameLengths(m, b.mem)
          /\ \A d \in DOMAIN m : d # op.dst => b.mem[d] = m[d]
          /\ \A y \in 1 .. Len(m[op.dst]) :
                b.mem[op.dst][y] = IF y \in op.off + 1 .. op.off + Len(Payload(m, op))
                                   THEN Payload(m, op)[y - op.off] ELSE m[op.dst][y]
        BY <2>1, <2>2, PerformIs
    <2> QED BY <2>3 DEF m, data, e, off
<1> HIDE DEF data, e, off
<1>4. AreCells(b.mem) /\ DOMAIN b.mem = DOMAIN a.mem /\ \A d \in DOMAIN a.mem : Len(b.mem[d]) = Len(a.mem[d])
    BY <1>3 DEF SameLengths
<1>5. ASSUME NEW y \in off + 1 .. off + Len(data)
      PROVE  y \in 1 .. Len(b.mem[e]) /\ Wanted(A, H[e], y, b.live, b.mem[e][y])
    <2>1. y \in 1 .. Len(a.mem[e]) /\ y - off \in 1 .. Len(data) /\ off + (y - off) = y
        BY <1>1, <1>2
    <2>2. b.mem[e][y] = data[y - off]
        BY <1>3, <2>1
    <2>3. Wanted(A, H[e], off + (y - off), a.live, data[y - off])
        BY <1>1, <2>1
    <2> QED BY <1>1, <1>4, <2>1, <2>2, <2>3
<1>6. ASSUME NEW i \in DOMAIN b.stream PROVE Payload(b.mem, b.stream[i]) = Payload(a.mem, b.stream[i])
    <2> DEFINE o == b.stream[i]
    <2>1. OpRight(A, H, a, o)
        BY DEF Sound
    <2>2. o.src # e
        BY DEF Unread, e
    <2> HIDE DEF o
    <2>3. o.src # 0 => o.src \in DOMAIN a.mem
        BY <2>1 DEF OpRight
    <2>4. Payload(b.mem, o) = Payload(a.mem, o)
        BY <1>3, <2>2, <2>3 DEF Payload
    <2> QED BY <2>4 DEF o
<1>7. ASSUME NEW i \in DOMAIN b.stream PROVE OpRight(A, H, b, b.stream[i])
    <2> DEFINE o == b.stream[i]
    <2>1. OpRight(A, H, a, o)
        BY DEF Sound
    <2>2. Payload(b.mem, o) = Payload(a.mem, o)
        BY <1>6
    <2> HIDE DEF o
    <2>3. o.src # 0 => \A j \in DOMAIN b.stream : b.stream[j].dst # o.src
        <3> SUFFICES ASSUME o.src # 0, NEW j \in DOMAIN b.stream PROVE b.stream[j].dst # o.src
            OBVIOUS
        <3>1. PICK k \in DOMAIN a.stream : b.stream[j] = a.stream[k]
            OBVIOUS
        <3> QED BY <2>1, <3>1 DEF OpRight
    <2>4. OpRight(A, H, b, o)
        BY <1>4, <2>1, <2>2, <2>3 DEF OpRight
    <2> QED BY <2>4 DEF o
<1>8. Sound(A, H, b)
    BY <1>4, <1>7 DEF Sound
<1>9. ASSUME NEW d \in DOMAIN a.mem, NEW y \in Nat, Sure(A, H, a, d, y) PROVE Sure(A, H, b, d, y)
    <2>1. CASE Ownerless(A, H[d], y, a.live)
        BY <2>1 DEF Sure
    <2>2. CASE y \in 1 .. Len(a.mem[d]) /\ Wanted(A, H[d], y, a.live, a.mem[d][y])
        <3>1. CASE d = e /\ y \in off + 1 .. off + Len(data)
            BY <1>5, <3>1 DEF Sure
        <3>2. CASE ~(d = e /\ y \in off + 1 .. off + Len(data))
            <4>1. b.mem[d][y] = a.mem[d][y]
                BY <1>3, <2>2, <3>2
            <4>2. y \in 1 .. Len(b.mem[d])
                BY <1>4, <2>2
            <4> QED BY <2>2, <4>1, <4>2 DEF Sure
        <3> QED BY <3>1, <3>2
    <2>3. CASE Queued(a, d, y)
        <3>1. PICK j \in DOMAIN a.stream :
                 /\ a.stream[j].dst = d
                 /\ y \in a.stream[j].off + 1 .. a.stream[j].off + Len(Payload(a.mem, a.stream[j]))
            BY <2>3 DEF Queued
        <3>2. CASE a.stream[j] = op
            <4>1. d = e /\ y \in off + 1 .. off + Len(data)
                BY <3>1, <3>2 DEF e, off, data
            <4> QED BY <1>5, <4>1 DEF Sure
        <3>3. CASE \E i \in DOMAIN b.stream : b.stream[i] = a.stream[j]
            <4>1. PICK i \in DOMAIN b.stream : b.stream[i] = a.stream[j]
                BY <3>3
            <4>2. Queued(b, d, y)
                BY <1>6, <3>1, <4>1 DEF Queued
            <4> QED BY <4>2 DEF Sure
        <3> QED BY <3>2, <3>3
    <2> QED BY <1>9, <2>1, <2>2, <2>3 DEF Sure
<1>10. ASSUME NEW y \in 1 .. Len(data) PROVE Sure(A, H, b, e, off + y)
    <2>1. off + y \in off + 1 .. off + Len(data)
        BY <1>1, <1>2
    <2> QED BY <1>5, <2>1 DEF Sure
<1>11. Better(A, H, a, b)
    BY <1>3, <1>8, <1>9 DEF Better
<1> QED BY <1>10, <1>11 DEF data, e, off

LEMMA WriteBetter ==
    ASSUME NEW A, NEW H, NEW a, Sound(A, H, a), NEW op, OpRight(A, H, a, op), Unread(a, op.dst),
           NEW b, IsState(b), b.mem = Perform(a.mem, op), b.stream = a.stream, b.live = a.live
    PROVE  /\ Better(A, H, a, b)
           /\ \A y \in 1 .. Len(Payload(a.mem, op)) : Sure(A, H, b, op.dst, op.off + y)
<1>1. Unread(b, op.dst)
    BY DEF Unread
<1> QED BY <1>1, PerformBetter
-----------------------------------------------------------------------------
\* The copies queued since a go to buffer d and read buffer s.
Adds(a, b, d, s) ==
    \A i \in DOMAIN b.stream :
        \/ \E j \in DOMAIN a.stream : b.stream[i] = a.stream[j]
        \/ b.stream[i].dst = d /\ b.stream[i].src = s

LEMMA AddsBoth ==
    ASSUME NEW a, NEW b, NEW c, NEW d, NEW s, Adds(a, b, d, s), Adds(b, c, d, s)
    PROVE  Adds(a, c, d, s)
<1> SUFFICES ASSUME NEW i \in DOMAIN c.stream
             PROVE  \/ \E j \in DOMAIN a.stream : c.stream[i] = a.stream[j]
                    \/ c.stream[i].dst = d /\ c.stream[i].src = s
    BY DEF Adds
<1>1. CASE c.stream[i].dst = d /\ c.stream[i].src = s
    BY <1>1
<1>2. CASE \E j \in DOMAIN b.stream : c.stream[i] = b.stream[j]
    <2>1. PICK j \in DOMAIN b.stream : c.stream[i] = b.stream[j]
        BY <1>2
    <2>2. \/ \E k \in DOMAIN a.stream : b.stream[j] = a.stream[k]
          \/ b.stream[j].dst = d /\ b.stream[j].src = s
        BY DEF Adds
    <2> QED BY <2>1, <2>2
<1> QED BY <1>1, <1>2 DEF Adds

LEMMA AddsNothing ==
    ASSUME NEW a, NEW b, b.stream = a.stream, NEW d, NEW s PROVE Adds(a, b, d, s)
BY DEF Adds

LEMMA StaysUnread ==
    ASSUME NEW a, NEW b, NEW d, NEW s, Unread(a, d), Adds(a, b, d, s), s # d PROVE Unread(b, d)
BY DEF Unread, Adds

(***************************************************************************)
(* CopyBuffer, whether it copies, queues or fails and has its requests     *)
(* answered.                                                               *)
(***************************************************************************)
LEMMA CopyBufferBetter ==
    ASSUME NEW A, NEW H, NEW a, Sound(A, H, a), NEW op, OpRight(A, H, a, op),
           Unread(a, op.dst), op.src # op.dst,
           NEW mode \in {"host", "stream"}, NEW fails \in BOOLEAN, NEW reqs,
           \A y \in 1 .. Len(Payload(a.mem, op)) :
              Ownerless(A, H[op.dst], op.off + y, a.live \ reqs)
    PROVE  LET b == CopyBuffer(a, op, mode, fails, reqs)
           IN  /\ Better(A, H, a, b) /\ Adds(a, b, op.dst, op.src)
               /\ \A y \in 1 .. Len(Payload(a.mem, op)) : Sure(A, H, b, op.dst, op.off + y)
<1> DEFINE b == CopyBuffer(a, op, mode, fails, reqs)
<1>0. IsState(b)
    BY KeptByCopyBuffer DEF Sound, Kept
<1>1. CASE fails
    <2>1. b = [a EXCEPT !.live = @ \ reqs]
        BY <1>1 DEF CopyBuffer
    <2> HIDE DEF b
    <2>2. /\ b.mem = a.mem /\ b.stream = a.stream /\ b.live = a.live \ reqs
          /\ Better(A, H, a, b)
        <3>1. b.mem = a.mem /\ b.stream = a.stream /\ b.live = a.live \ reqs
            BY <2>1 DEF Sound, IsState
        <3> QED BY <1>0, <3>1, AnswerBetter
    <2>3. Adds(a, b, op.dst, op.src)
        BY <2>2, AddsNothing
    <2>4. \A y \in 1 .. Len(Payload(a.mem, op)) : Sure(A, H, b, op.dst, op.off + y)
        BY <2>2 DEF Sure
    <2> QED BY <2>2, <2>3, <2>4 DEF b
<1>2. CASE ~fails /\ mode = "host"
    <2>1. b = [a EXCEPT !.mem = Perform(@, op)]
        BY <1>2 DEF CopyBuffer
    <2> HIDE DEF b
    <2>2. /\ Better(A, H, a, b) /\ b.stream = a.stream
          /\ \A y \in 1 .. Len(Payload(a.mem, op)) : Sure(A, H, b, op.dst, op.off + y)
        <3> DEFINE m == Perform(a.mem, op)
        <3>1. b = [a EXCEPT !.mem = m]
            BY <2>1
        <3> HIDE DEF m
        <3>2. b.mem = m /\ b.stream = a.stream /\ b.live = a.live
            BY <3>1 DEF Sound, IsState
        <3> QED BY <1>0, <3>2, WriteBetter DEF m
    <2>3. Adds(a, b, op.dst, op.src)
        BY <2>2, AddsNothing
    <2> QED BY <2>2, <2>3 DEF b
<1>3. CASE ~fails /\ mode = "stream"
    <2>1. b = [a EXCEPT !.stream = Append(@, op), !.cuda = TRUE]
        BY <1>3 DEF CopyBuffer
    <2> HIDE DEF b
    <2>2. /\ Better(A, H, a, b) /\ b.stream = Append(a.stream, op)
          /\ \A y \in 1 .. Len(Payload(a.mem, op)) : Sure(A, H, b, op.dst, op.off + y)
        <3> DEFINE s == Append(a.stream, op)
        <3>1. b = [a EXCEPT !.stream = s, !.cuda = TRUE]
            BY <2>1
        <3> HIDE DEF s
        <3>2. b.mem = a.mem /\ b.stream = s /\ b.live = a.live
            BY <3>1 DEF Sound, IsState
        <3> QED BY <1>0, <3>2, QueueBetter DEF s
    <2>3. Adds(a, b, op.dst, op.src)
        <3> DEFINE n == Len(a.stream)
        <3>1. /\ DOMAIN a.stream = 1 .. n /\ DOMAIN b.stream = 1 .. n + 1 /\ n \in Nat
              /\ \A i \in 1 .. n : b.stream[i] = a.stream[i]
              /\ b.stream[n + 1] = op
            BY <2>2, AppendIs DEF Sound, IsState
        <3> HIDE DEF n
        <3> SUFFICES ASSUME NEW i \in DOMAIN b.stream
                     PROVE  \/ \E j \in DOMAIN a.stream : b.stream[i] = a.stream[j]
                            \/ b.stream[i].dst = op.dst /\ b.stream[i].src = op.src
            BY DEF Adds
        <3>2. CASE i = n + 1
            BY <3>1, <3>2
        <3>3. CASE i # n + 1
            <4>1. i \in 1 .. n
                BY <3>1, <3>3
            <4> QED BY <3>1, <4>1
        <3> QED BY <3>2, <3>3
    <2> QED BY <2>2, <2>3 DEF b
<1> QED BY <1>1, <1>2, <1>3

\* Where a buffer belongs does not depend on how the sum is written.
LEMMA BufferMoves ==
    ASSUME NEW bufs, NEW o \in Nat, NEW off \in Nat, NEW b, b.size \in Nat, BufferAt(bufs, o + off, b),
           NEW y \in 1 .. b.size, NEW k \in 1 .. Len(bufs), Covers(bufs, k, o + (off + y))
    PROVE  /\ ByteOf(bufs[k], (o + (off + y)) - UpTo(bufs, k - 1)) = ByteOf(b, y)
           /\ bufs[k].first \in RequestsOf(b)
<1>1. o + (off + y) = (o + off) + y
    OBVIOUS
<1>2. Covers(bufs, k, (o + off) + y)
    BY <1>1
<1>3. /\ ByteOf(bufs[k], ((o + off) + y) - UpTo(bufs, k - 1)) = ByteOf(b, y)
      /\ bufs[k].first \in RequestsOf(b)
    BY <1>2 DEF BufferAt
<1> QED BY <1>1, <1>3

(***************************************************************************)
(* One buffer, to the place its bytes belong to.                           *)
(***************************************************************************)
LEMMA DirectCopyBetter ==
    ASSUME NEW A, NEW H, NEW a, Sound(A, H, a), NEW b \in Collectable, NEW dst \in DOMAIN a.mem,
           NEW place, NEW off \in Nat, NEW fails \in BOOLEAN, Unread(a, dst), H[dst][2] \in Nat,
           BufferAt(A[H[dst][1]], H[dst][2] + off, b)
    PROVE  LET c == DirectCopy(a, b, dst, place, off, fails)
           IN  /\ Better(A, H, a, c) /\ Adds(a, c, dst, 0)
               /\ \A y \in 1 .. b.size : Sure(A, H, c, dst, off + y)
<1> DEFINE c == DirectCopy(a, b, dst, place, off, fails)
           bufs == A[H[dst][1]]
           o == H[dst][2]
           op == [dst |-> dst, off |-> off, src |-> 0, data |-> Bytes(b)]
<1>1. b.size \in Nat /\ b.addr \in Nat /\ b.place \in Places
    BY DEF Collectable
<1>2. Bytes(b) \in Seq(Locations) /\ Len(Bytes(b)) = b.size /\ \A y \in 1 .. b.size : Bytes(b)[y] = ByteOf(b, y)
    BY <1>1, BytesType DEF Bytes, ByteOf
<1>3. ASSUME NEW y \in 1 .. b.size, NEW k \in 1 .. Len(bufs), Covers(bufs, k, o + (off + y))
      PROVE  /\ ByteOf(bufs[k], (o + (off + y)) - UpTo(bufs, k - 1)) = ByteOf(b, y)
             /\ bufs[k].first \in RequestsOf(b)
    BY <1>1, <1>3, BufferMoves
<1>4. ASSUME NEW y \in 1 .. b.size
      PROVE  /\ Ownerless(A, H[dst], off + y, a.live \ RequestsOf(b))
             /\ Wanted(A, H[dst], off + y, a.live, ByteOf(b, y))
    BY <1>3 DEF Ownerless, Wanted
<1>5. CASE Overflows(off, b.size, Len(a.mem[dst]))
    <2>1. c = [a EXCEPT !.live = @ \ RequestsOf(b)]
        BY <1>5 DEF DirectCopy
    <2>5. IsState(c)
        BY KeptByDirectCopy DEF Sound, Kept
    <2> HIDE DEF c
    <2>2. Better(A, H, a, c) /\ c.stream = a.stream /\ c.live = a.live \ RequestsOf(b)
        <3> DEFINE reqs == RequestsOf(b)
        <3>1. c = [a EXCEPT !.live = @ \ reqs]
            BY <2>1
        <3> HIDE DEF reqs
        <3>2. c.mem = a.mem /\ c.stream = a.stream /\ c.live = a.live \ reqs
            BY <3>1 DEF Sound, IsState
        <3> QED BY <2>5, <3>2, AnswerBetter DEF reqs
    <2>3. Adds(a, c, dst, 0)
        BY <2>2, AddsNothing
    <2>4. \A y \in 1 .. b.size : Sure(A, H, c, dst, off + y)
        BY <1>4, <2>2 DEF Sure
    <2> QED BY <2>2, <2>3, <2>4 DEF c
<1>6. CASE ~Overflows(off, b.size, Len(a.mem[dst]))
    <2> DEFINE mode == CopyMode(MemoryType(b.place), MemoryType(place), cfg.copyOnStream)
    <2>1. mode \in {"host", "stream"}
        BY DEF CopyMode
    <2>2. c = CopyBuffer(a, op, mode, fails, RequestsOf(b))
        BY <1>6 DEF DirectCopy
    <2>3. op.dst = dst /\ op.off = off /\ op.src = 0 /\ op.data = Bytes(b)
        OBVIOUS
    <2> HIDE DEF c, op, mode
    <2>4. Payload(a.mem, op) = Bytes(b)
        BY <2>3 DEF Payload
    <2>5. Len(a.mem[dst]) \in Nat
        BY LenFacts DEF Sound, AreCells
    <2>6. off + b.size <= Len(a.mem[dst])
        BY <1>1, <1>6, <2>5 DEF Overflows
    <2>7. IsSequence(Bytes(b))
        BY <1>2 DEF IsSequence
    <2>8. \A y \in 1 .. Len(Bytes(b)) : Wanted(A, H[dst], off + y, a.live, Bytes(b)[y])
        BY <1>2, <1>4
    <2>9. OpRight(A, H, a, op)
        BY <1>2, <2>3, <2>4, <2>6, <2>7, <2>8 DEF OpRight
    <2>10. \A y \in 1 .. Len(Payload(a.mem, op)) :
              Ownerless(A, H[op.dst], op.off + y, a.live \ RequestsOf(b))
        BY <1>2, <1>4, <2>3, <2>4
    <2>11. Unread(a, op.dst) /\ op.src # op.dst
        BY <2>3 DEF Unread
    <2>12. /\ Better(A, H, a, c) /\ Adds(a, c, op.dst, op.src)
           /\ \A y \in 1 .. Len(Payload(a.mem, op)) : Sure(A, H, c, op.dst, op.off + y)
        BY <2>1, <2>2, <2>9, <2>10, <2>11, CopyBufferBetter
    <2> QED BY <1>2, <2>3, <2>4, <2>12 DEF c
<1> QED BY <1>5, <1>6

(***************************************************************************)
(* Pending buffers, one after the other.                                   *)
(***************************************************************************)
LEMMA CopyAllBetter ==
    ASSUME NEW A, NEW H, NEW a, Sound(A, H, a), NEW bufs \in Seq(Collectable),
           NEW dst \in DOMAIN a.mem, NEW place, NEW base \in Nat, NEW F,
           Unread(a, dst), H[dst][2] \in Nat,
           \A n \in 1 .. Len(bufs) :
              BufferAt(A[H[dst][1]], H[dst][2] + (base + SizeBefore(bufs, n)), bufs[n])
    PROVE  LET c == CopyAll(a, bufs, dst, place, base, F)
           IN  /\ Better(A, H, a, c) /\ Adds(a, c, dst, 0)
               /\ \A y \in 1 .. Total(bufs) : Sure(A, H, c, dst, base + y)
<1> DEFINE n == Len(bufs)
           c == CopyAll(a, bufs, dst, place, base, F)
<1>1. n \in Nat /\ DOMAIN bufs = 1 .. n
    OBVIOUS
<1>2. PICK h : InOrder(h, n, a, bufs, dst, place, base, F) /\ c = h[n]
    BY <1>1, CopyAllInOrder
<1> DEFINE Done(st, k) == /\ Better(A, H, a, st) /\ Adds(a, st, dst, 0)
                          /\ \A y \in 1 .. UpTo(bufs, k) : Sure(A, H, st, dst, base + y)
           T == {k \in Nat : k <= n => Done(h[k], k)}
<1> HIDE DEF c, n
<1>3. Done(h[0], 0)
    <2>1. h[0] = a
        BY <1>2 DEF InOrder
    <2>2. UpTo(bufs, 0) = 0
        BY SizesAreNat, UpToFacts
    <2>3. 1 .. UpTo(bufs, 0) = {}
        BY <2>2
    <2> QED BY <2>1, <2>3, BetterSame, AddsNothing
<1>4. ASSUME NEW k \in Nat, k \in T, k + 1 <= n PROVE Done(h[k + 1], k + 1)
    <2> DEFINE i == k + 1
               st == h[k]
               su == h[i]
               off == base + SizeBefore(bufs, i)
               f == i \in F
    <2>1. i \in 1 .. n /\ i - 1 = k /\ k <= n /\ k \in 0 .. Len(bufs) /\ i \in 1 .. Len(bufs)
        BY <1>1, <1>4 DEF n
    <2>2. Done(st, k)
        <3> HIDE DEF Done
        <3> QED BY <1>4, <2>1
    <2>3. su = DirectCopy(st, bufs[i], dst, place, off, f) /\ f \in BOOLEAN
        BY <1>2, <2>1 DEF InOrder
    <2>4. UpTo(bufs, i) = UpTo(bufs, k) + bufs[i].size /\ UpTo(bufs, k) \in Nat
        BY <2>1, SizesAreNat, UpToFacts
    <2>5. off = base + UpTo(bufs, k)
        BY <2>1 DEF SizeBefore, UpTo
    <2>6. BufferAt(A[H[dst][1]], H[dst][2] + off, bufs[i]) /\ bufs[i] \in Collectable
        BY <2>1
    <2>7. Sound(A, H, st) /\ dst \in DOMAIN st.mem
        BY <2>2 DEF Better, SameLengths
    <2>8. Unread(st, dst)
        BY <2>2, StaysUnread DEF Unread
    <2> HIDE DEF T, st, su, off, f, i
    <2>9. off \in Nat
        BY <2>4, <2>5
    <2>10. /\ Better(A, H, st, su) /\ Adds(st, su, dst, 0)
           /\ \A y \in 1 .. bufs[i].size : Sure(A, H, su, dst, off + y)
        BY <2>3, <2>6, <2>7, <2>8, <2>9, DirectCopyBetter
    <2>11. Better(A, H, a, su) /\ Adds(a, su, dst, 0)
        BY <2>2, <2>10, AddsBoth, BetterBoth
    <2>12. ASSUME NEW y \in 1 .. UpTo(bufs, i) PROVE Sure(A, H, su, dst, base + y)
        <3> DEFINE u == UpTo(bufs, k)
                   z == bufs[i].size
        <3>1. u \in Nat /\ z \in Nat /\ y \in 1 .. u + z
            BY <2>4, <2>6 DEF Collectable
        <3> HIDE DEF u, z
        <3>2. CASE y <= u
            <4>1. y \in 1 .. u /\ base + y \in Nat
                BY <3>1, <3>2
            <4>2. Sure(A, H, st, dst, base + y)
                BY <2>2, <4>1 DEF u
            <4> QED BY <2>7, <2>10, <4>1, <4>2 DEF Better
        <3>3. CASE ~(y <= u)
            <4>1. y - u \in 1 .. z /\ off + (y - u) = base + y
                BY <2>5, <3>1, <3>3, SMTT(20) DEF u
            <4>2. Sure(A, H, su, dst, off + (y - u))
                BY <2>10, <4>1 DEF z
            <4> QED BY <4>1, <4>2
        <3> QED BY <3>2, <3>3
    <2>13. Done(su, i)
        BY <2>11, <2>12
    <2> HIDE DEF Done
    <2> QED BY <2>13 DEF su, i
<1>5. 0 \in T /\ \A k \in Nat : k \in T => k + 1 \in T
    <2> HIDE DEF Done
    <2> QED BY <1>3, <1>4
<1> HIDE DEF T
<1>6. \A k \in Nat : k \in T
    BY <1>5, Adding!NaturalInduction
<1>7. Done(c, n)
    <2>1. n \in T /\ n <= n
        BY <1>1, <1>6
    <2> HIDE DEF Done
    <2> QED BY <1>2, <2>1 DEF T
<1>8. UpTo(bufs, n) = Total(bufs)
    BY SizesAreNat, UpToFacts DEF n
<1> QED BY <1>7, <1>8 DEF c
-----------------------------------------------------------------------------
(***************************************************************************)
(* Where the bytes are while they are gathered.  H gives each buffer its   *)
(* home: a tensor is its own, a pinned buffer belongs to the part of a     *)
(* tensor it is staged for.                                                *)
(***************************************************************************)
Sources == [i \in DOMAIN batch |-> Collected(batch[i])]

Homes(H) == \A i \in DOMAIN batch : H[i] = <<i, 0>>

\* Tensors yet to come are not copied to, nor is pinned memory once Finalize() has waited.
StreamTo(d) ==
    IF d \in DOMAIN batch THEN ~Untouched(d)
    ELSE deferred # <<>> /\ pc \in {"begin", "finalize"} \cup Gathering

\* Deferred copy def: its pinned buffer holds, or will hold, that part of a tensor.
DeferredRight(H, def) ==
    /\ def.src \in DOMAIN mem /\ def.src \notin DOMAIN batch
    /\ H[def.src] = <<def.dst, def.off>>
    /\ def.dst \in DOMAIN batch /\ ~Untouched(def.dst)
    /\ def.off \in Nat /\ def.off + Len(mem[def.src]) <= Len(mem[def.dst])
    /\ \A y \in 1 .. Len(mem[def.src]) :
          /\ Sure(Sources, H, Start, def.src, y)
          /\ Ownerless(Sources, <<def.dst, def.off>>, y, Requests \ RequestsOfAll(def.bufs))

InRegion(p, x) == x \in p.off + 1 .. p.off + p.size

InDeferred(i, x) ==
    \E n \in finalized + 1 .. Len(deferred) :
        /\ deferred[n].dst = i
        /\ x \in deferred[n].off + 1 .. deferred[n].off + Len(mem[deferred[n].src])

\* The iterator has been at cell x of tensor i.
Handled(i, x) ==
    \/ /\ i < t /\ view[i].kind = "buffer"
       /\ \E r \in Requests : Iterated(batch[i], r) /\ x <= InputEnd(batch[i], r)
    \/ i = t /\ pc \in Gathering /\ x <= offset

Filled(H) ==
    /\ Homes(H) /\ Sound(Sources, H, Start)
    /\ \A n \in DOMAIN stream : StreamTo(stream[n].dst)
    /\ \A n \in finalized + 1 .. Len(deferred) : DeferredRight(H, deferred[n])
    /\ \A i \in DOMAIN batch : \A x \in Nat \ {0} :
          Handled(i, x) => \/ Sure(Sources, H, Start, i, x) \/ InDeferred(i, x)
                           \/ i = t /\ (InRegion(pend, x) \/ InRegion(kern, x))

FillInv == \E H : Filled(H)
-----------------------------------------------------------------------------
LEMMA SameSources == ASSUME UNCHANGED batch PROVE Sources' = Sources /\ Requests' = Requests
BY DEF Sources, Requests, RequestCount, Collected

\* What is sure does not depend on whether CUDA was used.
LEMMA SureOfSame ==
    ASSUME NEW a, NEW b, b.mem = a.mem, b.stream = a.stream, b.live = a.live
    PROVE  /\ \A A, H, d, y : Sure(A, H, a, d, y) <=> Sure(A, H, b, d, y)
           /\ \A A, H, op : OpRight(A, H, a, op) <=> OpRight(A, H, b, op)
           /\ \A A, H : IsState(b) /\ Sound(A, H, a) => Sound(A, H, b)
BY DEF Sure, Queued, OpRight, Sound

LEMMA BetterOfSame ==
    ASSUME NEW A, NEW H, NEW a, NEW b, Better(A, H, a, b), NEW c, IsState(c),
           c.mem = b.mem, c.stream = b.stream, c.live = b.live
    PROVE  Better(A, H, a, c)
<1>1. Sound(A, H, c)
    BY SureOfSame DEF Better
<1>2. \A d, y : Sure(A, H, b, d, y) <=> Sure(A, H, c, d, y)
    BY SureOfSame
<1> QED BY <1>1, <1>2 DEF Better

LEMMA EffectBetter ==
    ASSUME NEW H, NEW b, Better(Sources, H, Start, b), Effect(b)
    PROVE  Better(Sources, H, Start, Start')
<1>1. /\ Start'.mem = b.mem /\ Start'.stream = b.stream /\ Start'.live = b.live
      /\ Start' = [mem |-> Start'.mem, stream |-> Start'.stream, live |-> Start'.live, cuda |-> Start'.cuda]
      /\ Start'.cuda = FALSE
    BY DEF Start, Effect
<1> DEFINE c == Start'
<1>2. c.mem = b.mem /\ c.stream = b.stream /\ c.live = b.live
    BY <1>1
<1>3. IsState(c)
    BY <1>1 DEF Better, Sound, IsState
<1> HIDE DEF c
<1>4. Better(Sources, H, Start, c)
    BY <1>2, <1>3, BetterOfSame
<1> QED BY <1>4 DEF c

(***************************************************************************)
(* From a to b, which may have more buffers, nothing that was sure is      *)
(* lost.                                                                   *)
(***************************************************************************)
Carries(H, G, a, b) ==
    /\ Sound(Sources, G, b)
    /\ \A d \in DOMAIN a.mem :
          /\ d \in DOMAIN b.mem /\ G[d] = H[d] /\ Len(b.mem[d]) = Len(a.mem[d])
          /\ \A y \in Nat : Sure(Sources, H, a, d, y) => Sure(Sources, G, b, d, y)

LEMMA BetterCarries ==
    ASSUME NEW H, NEW a, NEW b, Better(Sources, H, a, b) PROVE Carries(H, H, a, b)
BY DEF Better, SameLengths, Carries

LEMMA CarriesBoth ==
    ASSUME NEW H, NEW G, NEW a, NEW b, NEW c, Carries(H, G, a, b), Better(Sources, G, b, c)
    PROVE  Carries(H, G, a, c)
BY DEF Better, SameLengths, Carries

\* What is deferred stays as it is while more is sure.
LEMMA DeferredStays ==
    ASSUME NEW H, NEW G, UNCHANGED batch, DOMAIN batch \subseteq DOMAIN mem,
           Carries(H, G, Start, Start'),
           \A i \in DOMAIN batch : ~Untouched(i) => ~Untouched(i)',
           NEW def, DeferredRight(H, def)
    PROVE  DeferredRight(G, def)' /\ Len(mem'[def.src]) = Len(mem[def.src])
<1>1. Sources' = Sources /\ Requests' = Requests
    BY SameSources
<1>2. Start.mem = mem /\ Start'.mem = mem'
    BY DEF Start
<1>3. \A d \in DOMAIN mem :
          /\ d \in DOMAIN mem' /\ G[d] = H[d] /\ Len(mem'[d]) = Len(mem[d])
          /\ \A y \in Nat : Sure(Sources, H, Start, d, y) => Sure(Sources, G, Start', d, y)
    BY <1>2 DEF Carries
<1>4. /\ def.src \in DOMAIN mem /\ def.src \notin DOMAIN batch /\ H[def.src] = <<def.dst, def.off>>
      /\ def.dst \in DOMAIN batch /\ ~Untouched(def.dst)
      /\ def.off \in Nat /\ def.off + Len(mem[def.src]) <= Len(mem[def.dst])
    BY DEF DeferredRight
<1>5. def.dst \in DOMAIN mem
    BY <1>4
<1>6. \A y \in 1 .. Len(mem[def.src]) :
          /\ Sure(Sources, G, Start', def.src, y)
          /\ Ownerless(Sources, <<def.dst, def.off>>, y, Requests \ RequestsOfAll(def.bufs))
    <2> SUFFICES ASSUME NEW y \in 1 .. Len(mem[def.src]) PROVE Sure(Sources, G, Start', def.src, y)
        BY DEF DeferredRight
    <2>1. Sure(Sources, H, Start, def.src, y)
        BY DEF DeferredRight
    <2> QED BY <1>3, <1>4, <2>1
<1>7. DeferredRight(G, def)'
    BY <1>1, <1>3, <1>4, <1>5, <1>6 DEF DeferredRight
<1> QED BY <1>3, <1>4, <1>7

\* What stays deferred.
StillDeferred ==
    \A n \in finalized + 1 .. Len(deferred) :
        n \in finalized' + 1 .. Len(deferred') /\ deferred'[n] = deferred[n]

LEMMA InDeferredStays ==
    ASSUME NEW H, Filled(H), NEW G, UNCHANGED batch, DOMAIN batch \subseteq DOMAIN mem,
           Carries(H, G, Start, Start'),
           \A i \in DOMAIN batch : ~Untouched(i) => ~Untouched(i)', StillDeferred
    PROVE  \A i, x : InDeferred(i, x) => InDeferred(i, x)'
<1>1. \A n \in finalized + 1 .. Len(deferred) : Len(mem'[deferred[n].src]) = Len(mem[deferred[n].src])
    BY DeferredStays DEF Filled
<1>2. \A n \in finalized + 1 .. Len(deferred) :
          /\ n \in finalized' + 1 .. Len(deferred') /\ deferred'[n] = deferred[n]
          /\ Len(mem'[deferred'[n].src]) = Len(mem[deferred[n].src])
    BY <1>1 DEF StillDeferred
<1> QED BY <1>2 DEF InDeferred

(***************************************************************************)
(* A step that copies, or does not.                                        *)
(***************************************************************************)
LEMMA FillStep ==
    ASSUME NEW H, Filled(H), NEW G, UNCHANGED batch, DOMAIN batch \subseteq DOMAIN mem,
           Carries(H, G, Start, Start'),
           \A i \in DOMAIN batch : ~Untouched(i) => ~Untouched(i)',
           (\A n \in DOMAIN stream : StreamTo(stream[n].dst))',
           \A n \in finalized' + 1 .. Len(deferred') :
              \/ n \in finalized + 1 .. Len(deferred) /\ deferred'[n] = deferred[n]
              \/ DeferredRight(G, deferred[n])',
           \A i \in DOMAIN batch, x \in Nat \ {0} :
              Handled(i, x)' => \/ Sure(Sources, H, Start, i, x) \/ InDeferred(i, x)'
                                \/ Sure(Sources, G, Start', i, x)
                                \/ i = t' /\ (InRegion(pend', x) \/ InRegion(kern', x))
    PROVE  Filled(G)'
<1>1. Sources' = Sources /\ Requests' = Requests
    BY SameSources
<1>2. Start.mem = mem /\ Start'.mem = mem'
    BY DEF Start
<1>3. \A n \in finalized' + 1 .. Len(deferred') : DeferredRight(G, deferred[n])'
    <2> SUFFICES ASSUME NEW n \in finalized' + 1 .. Len(deferred'),
                        n \in finalized + 1 .. Len(deferred), deferred'[n] = deferred[n]
                 PROVE  DeferredRight(G, deferred[n])'
        OBVIOUS
    <2>1. \A def : DeferredRight(H, def) => DeferredRight(G, def)'
        BY DeferredStays
    <2>2. DeferredRight(H, deferred'[n])
        BY DEF Filled
    <2> QED BY <2>1, <2>2 DEF DeferredRight
<1>4. ASSUME NEW i \in DOMAIN batch, NEW x \in Nat \ {0}, Handled(i, x)'
      PROVE  \/ Sure(Sources, G, Start', i, x) \/ InDeferred(i, x)'
             \/ i = t' /\ (InRegion(pend', x) \/ InRegion(kern', x))
    <2>1. Sure(Sources, H, Start, i, x) => Sure(Sources, G, Start', i, x)
        BY <1>2 DEF Carries
    <2> QED BY <1>4, <2>1
<1>5. Homes(G)' /\ Sound(Sources, G, Start')
    BY <1>2 DEF Filled, Homes, Carries
<1> QED BY <1>1, <1>3, <1>4, <1>5 DEF Filled
-----------------------------------------------------------------------------
(***************************************************************************)
(* Pending buffers, and the one in hand, are bytes of the tensor from      *)
(* where they are to be copied to; when the iterator is done it has been   *)
(* at every input it gets to.                                              *)
(***************************************************************************)
RegionRight(p) ==
    \A n \in 1 .. Len(p.bufs) : BufferAt(Bufs, p.off + SizeBefore(p.bufs, n), p.bufs[n])

PastInputs(x) == \A r \in Requests : Iterated(Tensor, r) => InputEnd(Tensor, r) <= x

PosInv ==
    pc \in Gathering =>
        /\ RegionRight(pend) /\ RegionRight(kern)
        /\ pc # "next" /\ cur # NoBuffer => BufferAt(Bufs, offset, cur)
        /\ cursor.stop => PastInputs(UpTo(Bufs, cursor.next - 1))
        /\ pc \in {"pinned", "kernel"} /\ cur = NoBuffer => PastInputs(offset)

LEMMA NoRegion == RegionRight(NonePending)
<1>1. 1 .. Len(NonePending.bufs) = {}
    BY DEF NonePending
<1> QED BY <1>1 DEF RegionRight

LEMMA PosInit == Init => PosInv
BY DEF Init, PosInv, Gathering

LEMMA PosStays ==
    ASSUME UNCHANGED <<batch, cfg, t>>
    PROVE  /\ \A p : RegionRight(p)' = RegionRight(p)
           /\ \A x : PastInputs(x)' = PastInputs(x)
BY SameTensor DEF RegionRight, PastInputs, Iterated, InputEnd, InputOffset, InputBytes, Requests,
   FoldFunctionOnSet, MapThenFoldSet,
   RequestCount

LEMMA PosEnter ==
    ASSUME TypeInv, pc = "begin", NEW place, NEW bytes, Enter(place, bytes),
           UNCHANGED <<batch, cfg, pend, kern>>
    PROVE  PosInv'
<1>1. pend' = NonePending /\ kern' = NonePending
    BY DEF TypeInv, PendingInv, Gathering
<1>2. CASE bytes = 0
    BY <1>2 DEF Enter, AdvanceTo, PosInv, Gathering
<1>3. CASE bytes # 0
    <2>1. /\ pc' = "next" /\ t' = t /\ cursor' = [next |-> 1, stop |-> Tensor.inputs[1] = <<>>]
        BY <1>3 DEF Enter
    <2>2. RegionRight(pend') /\ RegionRight(kern')
        BY <1>1, NoRegion
    <2>3. cursor'.stop => \A r \in Requests : ~Iterated(Tensor, r)
        <3> SUFFICES ASSUME cursor'.stop, NEW r \in Requests, Iterated(Tensor, r) PROVE FALSE
            OBVIOUS
        <3>1. 1 \in IF cfg.coalesce THEN {1} ELSE 1 .. r
            BY BatchFacts DEF Requests, TypeInv
        <3>2. Tensor.inputs[1] # <<>>
            BY <3>1 DEF Iterated
        <3> QED BY <2>1, <3>2
    <2>4. cursor'.stop => \A x : PastInputs(x)
        BY <2>3 DEF PastInputs
    <2>5. Bufs' = Bufs /\ Requests' = Requests
        BY <2>1, SameTensor
    <2>6. RegionRight(pend)' /\ RegionRight(kern)'
        BY <2>2, <2>5 DEF RegionRight
    <2>7. \A x : PastInputs(x) => PastInputs(x)'
        BY <2>1, PosStays
    <2>8. cursor'.stop => PastInputs(UpTo(Bufs, cursor.next - 1))'
        BY <2>4, <2>5, <2>7 DEF PastInputs, UpTo
    <2> QED BY <2>1, <2>6, <2>8 DEF PosInv
<1> QED BY <1>2, <1>3

\* A step within a tensor that leaves the iterator where it is.
LEMMA PosKeeps ==
    ASSUME PosInv, pc \in Gathering, pc' \in Gathering, UNCHANGED <<batch, cfg, t, cursor>>,
           RegionRight(pend'), RegionRight(kern'),
           pc' # "next" /\ cur' # NoBuffer => BufferAt(Bufs, offset', cur'),
           pc' \in {"pinned", "kernel"} /\ cur' = NoBuffer => PastInputs(offset')
    PROVE  PosInv'
<1>1. Bufs' = Bufs
    BY SameTensor
<1>2. RegionRight(pend)' /\ RegionRight(kern)'
    BY <1>1 DEF RegionRight
<1>3. \A x : PastInputs(x)' = PastInputs(x)
    BY PosStays
<1>4. cursor'.stop => PastInputs(UpTo(Bufs, cursor.next - 1))'
    <2>1. cursor.stop => PastInputs(UpTo(Bufs, cursor.next - 1))
        BY DEF PosInv
    <2>2. UpTo(Bufs, cursor.next - 1)' = UpTo(Bufs, cursor.next - 1)
        BY <1>1 DEF UpTo
    <2> QED BY <1>3, <2>1, <2>2 DEF PastInputs
<1>5. pc' \in {"pinned", "kernel"} /\ cur' = NoBuffer => PastInputs(offset)'
    BY <1>3 DEF PastInputs
<1> QED BY <1>1, <1>2, <1>4, <1>5 DEF PosInv

\* Without coalescing the iterator stops at a request without buffers.
LEMMA StopsPast ==
    ASSUME TypeInv, pc \in Gathering, NEW j \in 1 .. Len(Bufs), StopsAfter(Bufs, j)
    PROVE  PastInputs(UpTo(Bufs, j))
<1> DEFINE bufs == Bufs
           f == bufs[j].first
<1>1. /\ IsTensor(Tensor) /\ bufs \in Seq(Collectable) /\ Len(bufs) \in Nat
      /\ bufs = Collected(Tensor)
    BY TensorFacts DEF Bufs
<1>2. /\ ~cfg.coalesce /\ f < RequestCount /\ Tensor.inputs[f + 1] = <<>>
      /\ j = Len(bufs) \/ bufs[j + 1].first # f
    BY DEF StopsAfter
<1>3. f \in Requests /\ \A k \in 1 .. Len(bufs) : bufs[k].first \in Requests
    BY <1>1, CollectedOrder
<1>4. RequestCount \in Nat /\ Requests = 1 .. RequestCount
    BY <1>1 DEF IsTensor, Requests
<1>5. ASSUME NEW k \in j + 1 .. Len(bufs) PROVE bufs[k].first > f
    <2>1. j + 1 \in 1 .. Len(bufs) /\ j \in 1 .. Len(bufs) /\ j + 1 \in j .. Len(bufs)
          /\ k \in j + 1 .. Len(bufs) /\ k \in 1 .. Len(bufs)
        BY <1>1
    <2> HIDE DEF f
    <2>2. bufs[j].first <= bufs[j + 1].first /\ bufs[j + 1].first <= bufs[k].first
        BY <1>1, <2>1, FirstsGrow
    <2>3. bufs[j + 1].first # f
        BY <1>1, <1>2, <2>1
    <2>4. bufs[j].first = f
        BY DEF f
    <2> HIDE DEF bufs
    <2> QED BY <1>3, <1>4, <2>1, <2>2, <2>3, <2>4
<1> SUFFICES ASSUME NEW r \in Requests, Iterated(Tensor, r) PROVE InputEnd(Tensor, r) <= UpTo(bufs, j)
    BY DEF PastInputs
<1> HIDE DEF f
<1>6. r <= f
    <2> SUFFICES ASSUME ~(r <= f) PROVE FALSE
        OBVIOUS
    <2>1. f + 1 \in 1 .. r
        BY <1>3, <1>4
    <2>2. Tensor.inputs[f + 1] # <<>>
        BY <1>2, <2>1 DEF Iterated
    <2> QED BY <1>2, <2>2
<1>7. \A k \in j + 1 .. Len(bufs) : bufs[k].first > r
    <2> SUFFICES ASSUME NEW k \in j + 1 .. Len(bufs) PROVE bufs[k].first > r
        OBVIOUS
    <2>1. bufs[k].first > f /\ k \in 1 .. Len(bufs)
        BY <1>1, <1>5
    <2>2. bufs[k].first \in Nat /\ f \in Nat /\ r \in Nat
        BY <1>3, <1>4, <2>1
    <2> QED BY <1>6, <2>1, <2>2
<1>8. j \in 0 .. Len(bufs)
    BY <1>1
<1> HIDE DEF bufs
<1> QED BY <1>1, <1>7, <1>8, EndsBy

LEMMA PosIterates ==
    ASSUME TypeInv, PlaceInv, PosInv, GetNextContiguousInput PROVE PosInv'
<1> DEFINE bufs == Bufs
           i == cursor.next
           j == IF cfg.coalesce THEN RunEnd(bufs, i) ELSE i
           b == cur'
<1>1. /\ pc = "next" /\ pc' = "pinned" /\ UNCHANGED <<batch, cfg, t, view, offset, pend, kern>>
      /\ pc \in Gathering /\ pc' \in Gathering
    BY DEF GetNextContiguousInput, Gathering
<1>2. /\ ~AtEnd
      /\ b = [place |-> bufs[i].place, addr |-> bufs[i].addr,
              size |-> Total(SubSeq(bufs, i, j)),
              first |-> bufs[i].first, last |-> bufs[j].first]
      /\ cursor' = [next |-> j + 1, stop |-> StopsAfter(bufs, j)]
    BY DEF GetNextContiguousInput, Bufs
<1>3. Reached /\ bufs \in Seq(Collectable) /\ IsTensor(Tensor) /\ bufs = Collected(Tensor)
    BY <1>1, TensorFacts DEF PlaceInv, Bufs
<1>4. i \in 1 .. Len(bufs) /\ offset = UpTo(bufs, i - 1)
    BY <1>2, <1>3 DEF Reached, AtEnd, Bufs
<1>5. Bufs' = bufs
    BY <1>1, SameTensor
<1> HIDE DEF bufs, i
<1>6. /\ j \in i .. Len(bufs) /\ Len(bufs) \in Nat
      /\ \A k \in i .. j - 1 : Adjacent(bufs[k], bufs[k + 1])
    <2>1. Len(bufs) \in Nat
        BY <1>3
    <2>2. CASE cfg.coalesce
        BY <1>4, <2>1, <2>2, RunEndType
    <2>3. CASE ~cfg.coalesce
        <3>1. j = i /\ i \in Nat
            BY <1>4, <2>3
        <3> HIDE DEF j
        <3>2. i .. j - 1 = {}
            BY <3>1
        <3> QED BY <1>4, <2>1, <3>1, <3>2
    <2> QED BY <2>2, <2>3
<1> HIDE DEF j, b
<1>7. /\ b.place = bufs[i].place /\ b.addr = bufs[i].addr /\ b.size = Total(SubSeq(bufs, i, j))
      /\ RequestsOf(b) = bufs[i].first .. bufs[j].first
    BY <1>2 DEF RequestsOf
<1>8. j \in 1 .. Len(bufs) /\ j \in Nat /\ i \in Nat
    BY <1>4, <1>6
<1>9. \A k \in i .. j : bufs[k].first \in RequestsOf(b)
    <2> SUFFICES ASSUME NEW k \in i .. j PROVE bufs[k].first \in bufs[i].first .. bufs[j].first
        BY <1>7
    <2>1. k \in 1 .. Len(bufs) /\ k \in i .. Len(bufs) /\ j \in k .. Len(bufs)
        BY <1>4, <1>6, <1>8
    <2>2. bufs[i].first <= bufs[k].first /\ bufs[k].first <= bufs[j].first
        BY <1>3, <1>4, <1>8, <2>1, FirstsGrow
    <2>3. bufs[i].first \in Nat /\ bufs[k].first \in Nat /\ bufs[j].first \in Nat
        BY <1>3, <1>4, <1>8, <2>1, BufferFacts
    <2> QED BY <2>2, <2>3
<1>10. BufferAt(bufs, offset, b)
    BY <1>3, <1>4, <1>6, <1>7, <1>9, RunIsBuffer
<1>11. cursor'.stop => PastInputs(UpTo(bufs, j))
    BY <1>1, <1>2, <1>8, StopsPast DEF bufs
<1>12. \A x : PastInputs(x)' = PastInputs(x)
    BY <1>1, PosStays
<1>13. cursor'.stop => PastInputs(UpTo(Bufs, cursor.next - 1))'
    <2>1. UpTo(Bufs, cursor.next - 1)' = UpTo(bufs, j)
        BY <1>2, <1>5, <1>8 DEF UpTo
    <2> QED BY <1>11, <1>12, <2>1 DEF PastInputs
<1>14. RegionRight(pend)' /\ RegionRight(kern)'
    BY <1>1, <1>5 DEF PosInv, RegionRight, bufs
<1>15. cur' # NoBuffer
    <2>1. NoBuffer.place = "NONE" /\ b.place \in Places
        BY <1>3, <1>4, <1>7, BufferFacts DEF NoBuffer
    <2>2. b # NoBuffer \/ "NONE" \in Places
        BY <2>1
    <2>3. bufs[i].first \in Requests /\ NoBuffer.first = 0 /\ b.first = bufs[i].first
        BY <1>2, <1>3, <1>4, CollectedOrder DEF NoBuffer
    <2>4. b.first # 0
        BY <2>3 DEF Requests
    <2> QED BY <2>3, <2>4 DEF b
<1>16. BufferAt(Bufs, offset, cur)'
    BY <1>1, <1>5, <1>10 DEF b, BufferAt
<1> QED BY <1>1, <1>13, <1>14, <1>15, <1>16 DEF PosInv
-----------------------------------------------------------------------------
\* The iterator is done: it stopped, or there is no buffer left.
LEMMA PosExhausted ==
    ASSUME TypeInv, PlaceInv, PosInv, InputsExhausted PROVE PosInv'
<1>1. /\ pc = "next" /\ pc' = "pinned" /\ UNCHANGED <<batch, cfg, t, cursor, offset, pend, kern>>
      /\ pc \in Gathering /\ pc' \in Gathering /\ AtEnd /\ cur' = NoBuffer
    BY DEF InputsExhausted, Gathering
<1>2. Reached /\ Bufs \in Seq(Collectable) /\ IsTensor(Tensor)
    BY <1>1, TensorFacts DEF PlaceInv
<1>3. PastInputs(offset)
    <2>1. CASE cursor.stop
        BY <1>1, <1>2, <2>1 DEF PosInv, Reached
    <2>2. CASE ~cursor.stop
        <3> DEFINE bufs == Bufs
        <3>1. cursor.next > Len(bufs) /\ cursor.next \in 1 .. Len(bufs) + 1 /\ Len(bufs) \in Nat
            BY <1>1, <1>2, <2>2 DEF AtEnd, Reached, Bufs
        <3>2. cursor.next - 1 = Len(bufs)
            BY <3>1
        <3>3. offset = UpTo(bufs, Len(bufs))
            BY <1>2, <3>2 DEF Reached
        <3>4. UpTo(bufs, Len(bufs)) = Total(bufs)
            <4> HIDE DEF bufs
            <4> QED BY <1>2, SizesAreNat, UpToFacts DEF bufs
        <3> QED BY <1>2, <3>3, <3>4, EndWithin DEF PastInputs, Bufs
    <2> QED BY <2>1, <2>2
<1> QED BY <1>1, <1>3, PosKeeps DEF PosInv

LEMMA PosFlushes ==
    ASSUME TypeInv, PosInv,
           \/ SkipFlushPinned \/ FlushPinnedDirect \/ FlushPinnedNow \/ FlushPinnedDeferred
           \/ SkipFlushKernel \/ LaunchCopyKernel \/ FlushKernelDirect
    PROVE  PosInv'
<1>1. /\ UNCHANGED <<batch, cfg, cursor, cur, offset>>
      /\ \/ pc = "pinned" /\ pc' = "kernel" /\ t' = t
         \/ pc = "kernel" /\ AfterFlush
      /\ pend' \in {pend, NonePending} /\ kern' \in {kern, NonePending}
    BY DEF SkipFlushPinned, FlushPinnedDirect, FlushPinnedNow, FlushPinnedDeferred, PinnedHandled,
           SkipFlushKernel, LaunchCopyKernel, FlushKernelDirect, collVars
<1>2. CASE pc = "kernel" /\ AfterFlush /\ cur = NoBuffer
    BY <1>2 DEF AfterFlush, AdvanceTo, PosInv, Gathering
<1>3. CASE ~(pc = "kernel" /\ AfterFlush /\ cur = NoBuffer)
    <2>1. /\ t' = t /\ pc \in {"pinned", "kernel"} /\ pc' \in {"kernel", "set"}
          /\ pc \in Gathering /\ pc' \in Gathering
        BY <1>1, <1>3 DEF AfterFlush, Gathering
    <2>2. RegionRight(pend') /\ RegionRight(kern')
        BY <1>1, <2>1, NoRegion DEF PosInv
    <2> QED BY <1>1, <2>1, <2>2, PosKeeps DEF PosInv
<1> QED BY <1>2, <1>3

\* A buffer that joins the pending ones is where they end.
LEMMA RegionJoined ==
    ASSUME TypeInv, NEW p, PendingInv(p), Flushed(p), cur \in Collectable,
           RegionRight(p), BufferAt(Bufs, offset, cur)
    PROVE  RegionRight(Pending(p))
<1> DEFINE q == Pending(p)
           s == p.bufs
           m == Len(s)
           r == Append(s, cur)
<1>1. /\ q.off = IF p.size = 0 THEN offset ELSE p.off
      /\ q.bufs = r
    BY DEF Pending
<1>2. /\ p.off \in Nat /\ p.size \in Nat /\ s \in Seq(Collectable) /\ p.size = Total(s)
      /\ offset \in Nat
    BY DEF PendingInv, TypeInv
<1>3. /\ m \in Nat /\ Len(r) = m + 1 /\ \A n \in 1 .. m : r[n] = s[n]
      /\ r[m + 1] = cur
    BY <1>2
<1>4. ASSUME NEW n \in 1 .. m + 1 PROVE SizeBefore(r, n) = UpTo(s, n - 1)
    <2>1. SubSeq(r, 1, n - 1) = SubSeq(s, 1, n - 1)
        BY <1>2, <1>3
    <2> QED BY <2>1 DEF SizeBefore, UpTo
<1> HIDE DEF q, s, r
<1>5. ASSUME NEW n \in 1 .. m PROVE BufferAt(Bufs, q.off + SizeBefore(r, n), r[n])
    <2> HIDE DEF m
    <2>1. n \in 1 .. m + 1 /\ r[n] = s[n]
        BY <1>3
    <2>2. CASE p.size # 0
        <3>1. SizeBefore(r, n) = SizeBefore(s, n)
            BY <1>4, <2>1 DEF SizeBefore, UpTo
        <3>2. q.off = p.off
            BY <1>1, <2>2
        <3> QED BY <2>1, <3>1, <3>2 DEF RegionRight, s, m
    <2>3. CASE p.size = 0
        <3>1. n - 1 \in 0 .. Len(s) /\ n \in 0 .. Len(s) /\ n \in 1 .. Len(s) /\ Len(s) \in 0 .. Len(s)
              /\ n \in 0 .. Len(s) /\ Len(s) \in Nat
            BY <1>3 DEF m
        <3>2. /\ UpTo(s, n) = UpTo(s, n - 1) + s[n].size /\ UpTo(s, n - 1) \in Nat
              /\ UpTo(s, Len(s)) = Total(s)
            BY <1>2, <3>1, SizesAreNat, UpToFacts
        <3>3. UpTo(s, n) <= UpTo(s, Len(s))
            BY <1>2, <3>1, SizesAreNat, UpToGrows
        <3>4. s[n].size \in Nat
            BY <1>2, <3>1, BufferFacts
        <3>5. s[n].size = 0
            <4>1. Total(s) = 0
                BY <1>2, <2>3
            <4> DEFINE u == UpTo(s, n - 1)
                       v == UpTo(s, n)
                       z == s[n].size
            <4>2. v = u + z /\ u \in Nat /\ z \in Nat /\ v <= 0
                BY <3>2, <3>3, <3>4, <4>1
            <4> HIDE DEF u, v, z
            <4>3. z = 0
                BY <4>2
            <4> QED BY <4>3 DEF z
        <3>6. 1 .. r[n].size = {}
            BY <2>1, <3>5
        <3> QED BY <3>6 DEF BufferAt
    <2> QED BY <2>2, <2>3
<1>6. BufferAt(Bufs, q.off + SizeBefore(r, m + 1), r[m + 1])
    <2>1. SizeBefore(r, m + 1) = p.size
        <3>1. m + 1 \in 1 .. m + 1 /\ (m + 1) - 1 = m
            BY <1>3
        <3>2. SizeBefore(r, m + 1) = UpTo(s, m)
            BY <1>4, <3>1
        <3>3. UpTo(s, m) = Total(s)
            BY <1>2, SizesAreNat, UpToFacts
        <3> QED BY <1>2, <3>2, <3>3
    <2>2. q.off + p.size = offset
        <3>1. CASE p.size = 0
            BY <1>1, <1>2, <3>1
        <3>2. CASE p.size # 0
            <4>1. offset = p.size + p.off
                BY <1>2, <3>2 DEF Flushed, Continues, NonePending
            <4> QED BY <1>1, <1>2, <3>2, <4>1
        <3> QED BY <3>1, <3>2
    <2> QED BY <1>3, <2>1, <2>2
<1>7. ASSUME NEW n \in 1 .. m + 1 PROVE BufferAt(Bufs, q.off + SizeBefore(r, n), r[n])
    <2>1. CASE n = m + 1
        BY <1>6, <2>1
    <2>2. CASE n # m + 1
        <3>1. n \in 1 .. m
            BY <1>3, <2>2
        <3> QED BY <1>5, <3>1
    <2> QED BY <2>1, <2>2
<1> QED BY <1>1, <1>3, <1>7 DEF RegionRight, q

LEMMA PosSets ==
    ASSUME TypeInv, PosInv, SetTooLarge \/ SetPendingPinned \/ SetPendingKernel \/ SetDirect
    PROVE  PosInv'
<1>1. /\ pc = "set" /\ pc' = "next" /\ pc \in Gathering /\ pc' \in Gathering
      /\ UNCHANGED <<batch, cfg, t, cursor, cur>>
      /\ pend' \in {pend, Pending(pend)} /\ kern' \in {kern, Pending(kern)}
    BY DEF SetTooLarge, SetPendingPinned, SetPendingKernel, SetDirect, NextBuffer, Gathering, copyVars
<1>2. /\ cur \in Collectable /\ Flushed(pend) /\ Flushed(kern) /\ PendingInv(pend) /\ PendingInv(kern)
      /\ RegionRight(pend) /\ RegionRight(kern) /\ BufferAt(Bufs, offset, cur)
    BY <1>1 DEF TypeInv, PosInv
<1>3. RegionRight(pend') /\ RegionRight(kern')
    BY <1>1, <1>2, RegionJoined
<1> QED BY <1>1, <1>3, PosKeeps

LEMMA PosStep == TypeInv /\ PlaceInv /\ PosInv /\ [Next]_vars => PosInv'
<1> SUFFICES ASSUME TypeInv, PlaceInv, PosInv, [Next]_vars PROVE PosInv'
    OBVIOUS
<1>1. CASE BeginGiven
    <2>1. Enter(Tensor.allowed[1], Tensor.bytes) /\ pc = "begin" /\ UNCHANGED <<batch, cfg, pend, kern>>
        BY <1>1 DEF BeginGiven
    <2> QED BY <2>1, PosEnter
<1>2. CASE BeginAllocated
    <2>1. PICK k : Enter(Tensor.allowed[k], Total(Bufs))
        BY <1>2 DEF BeginAllocated, Bufs
    <2>2. pc = "begin" /\ UNCHANGED <<batch, cfg, pend, kern>>
        BY <1>2 DEF BeginAllocated
    <2> QED BY <2>1, <2>2, PosEnter
<1>3. CASE BeginReused \/ BeginFailed
    BY <1>3 DEF BeginReused, BeginFailed, AdvanceTo, PosInv, Gathering
<1>4. CASE GetNextContiguousInput
    BY <1>4, PosIterates
<1>5. CASE InputsExhausted
    BY <1>5, PosExhausted
<1>6. CASE \/ SkipFlushPinned \/ FlushPinnedDirect \/ FlushPinnedNow \/ FlushPinnedDeferred
           \/ SkipFlushKernel \/ LaunchCopyKernel \/ FlushKernelDirect
    BY <1>6, PosFlushes
<1>7. CASE SetTooLarge \/ SetPendingPinned \/ SetPendingKernel \/ SetDirect
    BY <1>7, PosSets
<1>8. CASE FinalizeSync \/ FinalizeReady \/ FinalizeDeferred \/ FinalizeReturn \/ CallerSync
    BY <1>8 DEF FinalizeSync, FinalizeReady, FinalizeDeferred, FinalizeReturn, CallerSync, PosInv, Gathering
<1>9. CASE Terminating \/ RunCopy \/ BufferReadyFires \/ UNCHANGED vars
    <2>1. UNCHANGED <<batch, cfg, pc, t, cursor, cur, offset, pend, kern>>
        BY <1>9 DEF Terminating, RunCopy, BufferReadyFires, vars, collVars
    <2>2. CASE pc \in Gathering
        BY <2>1, <2>2, PosKeeps DEF PosInv
    <2>3. CASE pc \notin Gathering
        BY <2>1, <2>3 DEF PosInv
    <2> QED BY <2>2, <2>3
<1> QED BY <1>1, <1>2, <1>3, <1>4, <1>5, <1>6, <1>7, <1>8, <1>9 DEF Next
-----------------------------------------------------------------------------
(***************************************************************************)
(* What the caller is handed: buffers that are in use as they are contain  *)
(* the whole input, and after an error nobody is left to respond to.       *)
(***************************************************************************)
InUse(i) == [place |-> view[i].place, addr |-> view[i].addr, size |-> view[i].bytes,
             first |-> 1, last |-> RequestCount]

ViewInv ==
    \A i \in DOMAIN batch :
        /\ ~Untouched(i) => view[i].kind # "none"
        /\ view[i].kind = "error" => live = {}
        /\ view[i].kind = "reused" =>
              view[i].bytes = Total(Sources[i]) /\ BufferAt(Sources[i], 0, InUse(i))

\* At the end all is copied.
EndInv ==
    /\ pc \in {"returned", "consumed"} => finalized = Len(deferred)
    /\ pc = "consumed" => stream = <<>>

Begins == BeginGiven \/ BeginReused \/ BeginAllocated \/ BeginFailed

\* A tensor is touched when it begins.
LEMMA TouchedWhenBegun ==
    ASSUME TypeInv, [Next]_vars
    PROVE  /\ UNCHANGED batch
           /\ \A i \in DOMAIN batch : ~Untouched(i) => ~Untouched(i)'
           /\ \A i \in DOMAIN batch : ~(Begins /\ i = t) => (Untouched(i)' <=> Untouched(i))
<1>1. /\ DOMAIN batch = 1 .. Len(batch) /\ Len(batch) \in Nat /\ t \in Nat /\ t <= Len(batch) + 1
      /\ pc = "begin" => t <= Len(batch)
    BY BatchFacts DEF TypeInv
<1>2. CASE Begins
    <2>1. /\ pc = "begin" /\ UNCHANGED batch
          /\ \/ t' = t + 1 /\ pc' = IF t < Len(batch) THEN "begin" ELSE "finalize"
             \/ t' = t /\ pc' = "next"
        BY <1>2 DEF Begins, BeginGiven, BeginReused, BeginAllocated, BeginFailed, Enter, AdvanceTo
    <2> QED BY <1>1, <1>2, <2>1 DEF Untouched
<1>3. CASE SkipFlushKernel \/ LaunchCopyKernel \/ FlushKernelDirect
    <2>1. /\ pc = "kernel" /\ UNCHANGED batch
          /\ \/ t' = t + 1 /\ pc' = IF t < Len(batch) THEN "begin" ELSE "finalize"
             \/ t' = t /\ pc' = "set"
        BY <1>3 DEF SkipFlushKernel, LaunchCopyKernel, FlushKernelDirect, AfterFlush, AdvanceTo
    <2> QED BY <1>1, <2>1 DEF Untouched
<1>4. CASE ~Begins /\ ~SkipFlushKernel /\ ~LaunchCopyKernel /\ ~FlushKernelDirect
    <2>1. /\ UNCHANGED <<batch, t>> /\ (pc = pc' \/ (pc # "begin" /\ pc' # "begin"))
        BY <1>4 DEF Next, Begins, vars, collVars, GetNextContiguousInput, InputsExhausted,
           SkipFlushPinned, FlushPinnedDirect, FlushPinnedNow, FlushPinnedDeferred,
           SetTooLarge, SetPendingPinned, SetPendingKernel, SetDirect, NextBuffer, FinalizeSync,
           FinalizeReady, FinalizeDeferred, FinalizeReturn, CallerSync, Terminating, RunCopy,
           BufferReadyFires
    <2> QED BY <2>1 DEF Untouched
<1> QED BY <1>2, <1>3, <1>4

\* No response comes back.
LEMMA LiveShrinks == TypeInv /\ SyncInv /\ [Next]_vars => live' \subseteq live
<1> SUFFICES ASSUME TypeInv, SyncInv, [Next]_vars PROVE live' \subseteq live
    OBVIOUS
<1>1. IsState(Start) /\ Start.stream = stream /\ Start.live = live
    BY StartState DEF Start
<1>2. ASSUME NEW b, Kept(Start, b), Effect(b) PROVE live' \subseteq live
    BY <1>1, <1>2, EffectKeeps
<1>3. CASE FlushPinnedDirect
    <2>1. PICK F : Effect(CopyAll(Start, pend.bufs, t, Place, pend.off, F))
        BY <1>3 DEF FlushPinnedDirect
    <2>2. Kept(Start, CopyAll(Start, pend.bufs, t, Place, pend.off, F))
        BY <1>1, KeptByCopyAll DEF SyncInv
    <2> QED BY <1>2, <2>1, <2>2
<1>4. CASE FlushPinnedNow
    <2>1. PICK F \in SUBSET Breakable(pend.bufs, "CPU_PINNED"), fails \in FinalFaults(t) :
              Effect(CopyFromPinned(Staged(F), Deferred, cfg.copyOnStream, fails))
        BY <1>4 DEF FlushPinnedNow
    <2>2. PICK a : IsState(a) /\ Kept(a, Staged(F)) /\ a.stream = stream /\ a.live = live
        BY StagedKeeps
    <2>3. fails \in BOOLEAN /\ IsState(Staged(F))
        BY <2>2 DEF FinalFaults, Kept
    <2>4. Kept(a, CopyFromPinned(Staged(F), Deferred, cfg.copyOnStream, fails))
        BY <2>2, <2>3, CopyFromPinnedKeeps, KeptByBoth
    <2>5. live' \subseteq a.live
        BY <2>1, <2>2, <2>4, EffectKeeps
    <2> QED BY <2>2, <2>5
<1>5. CASE FlushPinnedDeferred
    <2>1. PICK F : Effect(Staged(F))
        BY <1>5 DEF FlushPinnedDeferred
    <2>2. PICK a : IsState(a) /\ Kept(a, Staged(F)) /\ a.stream = stream /\ a.live = live
        BY StagedKeeps
    <2>3. live' \subseteq a.live
        BY <2>1, <2>2, EffectKeeps
    <2> QED BY <2>2, <2>3
<1>6. CASE LaunchCopyKernel
    <2>1. Effect(Gather(Start))
        BY <1>6 DEF LaunchCopyKernel
    <2>2. Kept(Start, Gather(Start))
        BY <1>1, KeptByCopyBuffer DEF Gather
    <2> QED BY <1>2, <2>1, <2>2
<1>7. CASE FlushKernelDirect
    <2>1. PICK F : Effect(CopyAll(Start, kern.bufs, t, Place, kern.off, F))
        BY <1>7 DEF FlushKernelDirect
    <2>2. Kept(Start, CopyAll(Start, kern.bufs, t, Place, kern.off, F))
        BY <1>1, KeptByCopyAll DEF SyncInv
    <2> QED BY <1>2, <2>1, <2>2
<1>8. CASE SetDirect
    <2>1. PICK F : Effect(DirectCopy(Start, cur, t, Place, offset, F # {}))
        BY <1>8 DEF SetDirect
    <2>2. Kept(Start, DirectCopy(Start, cur, t, Place, offset, F # {}))
        BY <1>1, KeptByDirectCopy
    <2> QED BY <1>2, <2>1, <2>2
<1>9. CASE FinalizeDeferred
    <2> DEFINE def == deferred[finalized + 1]
    <2>1. PICK fails \in FinalFaults(def.dst) : Effect(CopyFromPinned(Start, def, FALSE, fails))
        BY <1>9 DEF FinalizeDeferred
    <2>2. fails \in BOOLEAN
        BY DEF FinalFaults
    <2>3. Kept(Start, CopyFromPinned(Start, def, FALSE, fails))
        BY <1>1, <2>2, CopyFromPinnedKeeps
    <2> QED BY <1>2, <2>1, <2>3
<1>10. CASE /\ ~FlushPinnedDirect /\ ~FlushPinnedNow /\ ~FlushPinnedDeferred /\ ~LaunchCopyKernel
            /\ ~FlushKernelDirect /\ ~SetDirect /\ ~FinalizeDeferred
    BY <1>10 DEF Next, vars, copyVars, BeginGiven, BeginReused, BeginAllocated, BeginFailed,
       GetNextContiguousInput, InputsExhausted, SkipFlushPinned, SkipFlushKernel,
       SetTooLarge, SetPendingPinned, SetPendingKernel, FinalizeSync,
       FinalizeReady, FinalizeReturn, CallerSync, Terminating, RunCopy, BufferReadyFires
<1> QED BY <1>3, <1>4, <1>5, <1>6, <1>7, <1>8, <1>9, <1>10

LEMMA EndInit == Init => EndInv
BY DEF Init, EndInv

LEMMA EndStep == TypeInv /\ SyncInv /\ EndInv /\ [Next]_vars => EndInv'
<1> SUFFICES ASSUME TypeInv, SyncInv, EndInv, [Next]_vars PROVE EndInv'
    OBVIOUS
<1>1. CASE CallerSync
    <2>1. /\ pc = "returned" /\ (needSync => Synchronized) /\ pc' = "consumed"
          /\ UNCHANGED <<stream, finalized, deferred>>
        BY <1>1 DEF CallerSync, copyVars, finVars
    <2>2. (stream # <<>> => needSync) /\ (needSync /\ cfg.event => mark = Len(stream))
        BY <2>1 DEF SyncInv, Recorded
    <2>3. Len(stream) = 0 => stream = <<>>
        BY LenFacts DEF SyncInv
    <2>4. stream = <<>>
        BY <2>1, <2>2, <2>3 DEF Synchronized
    <2> QED BY <2>1, <2>4 DEF EndInv
<1>2. CASE FinalizeReturn
    BY <1>2 DEF FinalizeReturn, finVars, EndInv
<1>3. CASE RunCopy
    BY <1>3 DEF RunCopy, finVars, EndInv
<1>4. CASE BeginGiven \/ BeginReused \/ BeginAllocated \/ BeginFailed
    BY <1>4 DEF BeginGiven, BeginReused, BeginAllocated, BeginFailed, Enter, AdvanceTo, EndInv
<1>5. CASE \/ GetNextContiguousInput \/ InputsExhausted
           \/ SkipFlushPinned \/ FlushPinnedDirect \/ FlushPinnedNow \/ FlushPinnedDeferred
           \/ SkipFlushKernel \/ LaunchCopyKernel \/ FlushKernelDirect
           \/ SetTooLarge \/ SetPendingPinned \/ SetPendingKernel \/ SetDirect
    <2>1. pc' \in {"pinned", "kernel", "begin", "finalize", "set", "next"}
        BY <1>5 DEF GetNextContiguousInput, InputsExhausted,
           SkipFlushPinned, FlushPinnedDirect, FlushPinnedNow, FlushPinnedDeferred,
           SkipFlushKernel, LaunchCopyKernel, FlushKernelDirect, AfterFlush, AdvanceTo,
           SetTooLarge, SetPendingPinned, SetPendingKernel, SetDirect, NextBuffer
    <2> QED BY <2>1 DEF EndInv
<1>6. CASE FinalizeSync \/ FinalizeReady \/ FinalizeDeferred
    BY <1>6 DEF FinalizeSync, FinalizeReady, FinalizeDeferred, EndInv
<1>7. CASE Terminating \/ BufferReadyFires \/ UNCHANGED vars
    BY <1>7 DEF Terminating, BufferReadyFires, vars, copyVars, finVars, EndInv
<1> QED BY <1>1, <1>2, <1>3, <1>4, <1>5, <1>6, <1>7 DEF Next

\* An input that is one buffer.
LEMMA ReusedRight ==
    ASSUME TypeInv, pc = "begin", Reusable(Bufs), NEW b,
           b.place = Bufs[1].place, b.addr = Bufs[1].addr, b.size = Total(Bufs),
           RequestsOf(b) = Requests
    PROVE  BufferAt(Bufs, 0, b)
<1> DEFINE bufs == Bufs
           n == Len(bufs)
<1>1. bufs \in Seq(Collectable) /\ n \in Nat /\ bufs = Collected(Tensor) /\ IsTensor(Tensor)
    BY TensorFacts DEF Bufs
<1>2. Total(bufs) # 0 /\ \A k \in 1 .. n - 1 : Adjacent(bufs[k], bufs[k + 1])
    BY DEF Reusable, Contiguous
<1>3. \A k \in 1 .. n : bufs[k].first \in RequestsOf(b)
    BY <1>1, CollectedOrder
<1> HIDE DEF bufs
<1>4. n # 0
    <2>1. n = 0 => bufs = <<>>
        BY <1>1
    <2> QED BY <1>2, <2>1, TotalEmpty
<1>5. UpTo(bufs, 0) = 0 /\ UpTo(bufs, n) = Total(bufs)
    BY <1>1, SizesAreNat, UpToFacts
<1>6. 1 \in 1 .. n /\ n \in 1 .. n /\ 1 - 1 = 0 /\ SubSeq(bufs, 1, n) = bufs
    BY <1>1, <1>4
<1>7. b.place = bufs[1].place /\ b.addr = bufs[1].addr /\ b.size = Total(SubSeq(bufs, 1, n))
    BY <1>6 DEF bufs
<1>8. BufferAt(bufs, UpTo(bufs, 1 - 1), b)
    BY <1>1, <1>2, <1>3, <1>6, <1>7, RunIsBuffer
<1> QED BY <1>5, <1>6, <1>8 DEF bufs

LEMMA ViewInit == Init => ViewInv
<1> SUFFICES ASSUME Init, NEW i \in DOMAIN batch PROVE view[i].kind = "none" /\ Untouched(i)
    BY DEF ViewInv
<1>1. view[i] = NoView /\ pc = "begin" /\ t = 1 /\ FromScenario
    BY DEF Init, FromScenario
<1>2. i \in Nat /\ i >= 1
    BY <1>1, BatchFacts
<1> QED BY <1>1, <1>2 DEF NoView, Untouched

LEMMA ViewStep == TypeInv /\ SyncInv /\ ViewInv /\ [Next]_vars => ViewInv'
<1> SUFFICES ASSUME TypeInv, SyncInv, ViewInv, [Next]_vars PROVE ViewInv'
    OBVIOUS
<1> SUFFICES ASSUME NEW i \in DOMAIN batch
             PROVE  /\ ~Untouched(i)' => view'[i].kind # "none"
                    /\ view'[i].kind = "error" => live' = {}
                    /\ view'[i].kind = "reused" =>
                          view'[i].bytes = Total(Sources[i]) /\ BufferAt(Sources[i], 0, InUse(i)')
    <2>1. UNCHANGED batch
        BY TouchedWhenBegun
    <2> QED BY <2>1, SameSources DEF ViewInv
<1>1. /\ UNCHANGED batch
      /\ ~(Begins /\ i = t) => (Untouched(i)' <=> Untouched(i))
    BY TouchedWhenBegun
<1>2. live' \subseteq live
    BY LiveShrinks
<1>3. RequestCount' = RequestCount
    BY <1>1 DEF RequestCount
<1>4. CASE ~(Begins /\ i = t)
    <2>1. view'[i] = view[i]
        <3>1. CASE Begins
            <4>1. (BeginGiven \/ BeginReused \/ BeginAllocated) => \E v : view' = [view EXCEPT ![t] = v]
                BY DEF BeginGiven, BeginReused, BeginAllocated, Enter
            <4>2. BeginFailed => view' = [view EXCEPT ![t] = [@ EXCEPT !.kind = "error"]]
                BY DEF BeginFailed
            <4> QED BY <1>4, <3>1, <4>1, <4>2 DEF Begins, TypeInv
        <3>2. CASE ~Begins
            BY <3>2, WithinTensor DEF Begins
        <3> QED BY <3>1, <3>2
    <2>2. InUse(i)' = InUse(i)
        BY <1>3, <2>1 DEF InUse
    <2> QED BY <1>1, <1>2, <1>4, <2>1, <2>2 DEF ViewInv
<1>5. CASE Begins /\ i = t
    <2>1. pc = "begin" /\ t \in DOMAIN view
        <3>1. pc = "begin"
            BY <1>5 DEF Begins, BeginGiven, BeginReused, BeginAllocated, BeginFailed
        <3> QED BY <3>1, TensorFacts
    <2>2. CASE BeginGiven \/ BeginAllocated
        <3>1. view'[i].kind = "buffer"
            BY <1>5, <2>1, <2>2 DEF BeginGiven, BeginAllocated, Enter
        <3> QED BY <3>1
    <2>3. CASE BeginFailed
        <3>1. view' = [view EXCEPT ![t].kind = "error"] /\ live' = {}
            BY <2>3 DEF BeginFailed
        <3>2. view'[i].kind = "error"
            BY <1>5, <2>1, <3>1, TensorFacts DEF Views
        <3> QED BY <3>1, <3>2
    <2>4. CASE BeginReused
        <3> DEFINE v == [kind |-> "reused", place |-> Bufs[1].place, addr |-> Bufs[1].addr,
                         bytes |-> Total(Bufs)]
        <3>1. view' = [view EXCEPT ![t] = v] /\ Reusable(Bufs)
            BY <2>4 DEF BeginReused, Bufs
        <3>2. view'[i] = v
            BY <1>5, <2>1, <3>1
        <3>3. Sources[i] = Bufs
            BY <1>5 DEF Sources, Bufs, Tensor
        <3> DEFINE b == InUse(i)'
        <3>4. /\ b.place = Bufs[1].place /\ b.addr = Bufs[1].addr /\ b.size = Total(Bufs)
              /\ RequestsOf(b) = Requests
            BY <1>3, <3>2 DEF InUse, RequestsOf, Requests
        <3> HIDE DEF b
        <3>5. BufferAt(Bufs, 0, b)
            BY <2>1, <3>1, <3>4, ReusedRight
        <3> QED BY <3>2, <3>3, <3>5 DEF b
    <2> QED BY <1>5, <2>2, <2>3, <2>4 DEF Begins
<1> QED BY <1>4, <1>5
-----------------------------------------------------------------------------
LEMMA MemFacts ==
    ASSUME TypeInv, SyncInv
    PROVE  /\ DOMAIN batch \subseteq DOMAIN mem /\ DOMAIN batch = 1 .. Len(batch) /\ Len(batch) \in Nat
           /\ DOMAIN mem = 1 .. Len(mem) /\ Len(mem) \in Nat /\ Len(mem) >= Len(batch)
           /\ t \in Nat
<1>1. DOMAIN batch = 1 .. Len(batch) /\ Len(batch) \in Nat /\ t \in Nat
    BY BatchFacts DEF TypeInv
<1>2. DOMAIN mem = 1 .. Len(mem) /\ Len(mem) \in Nat /\ Len(mem) >= Len(batch)
    BY LenFacts DEF TypeInv, SyncInv
<1> QED BY <1>1, <1>2

\* The tensor itself is its home, and only pinned buffers are read.
LEMMA AtHome ==
    ASSUME TypeInv, SyncInv, pc \in Gathering, NEW H, Filled(H)
    PROVE  /\ t \in DOMAIN batch /\ t \in DOMAIN Start.mem /\ Sound(Sources, H, Start)
           /\ H[t][1] = t /\ H[t][2] = 0 /\ Sources[t] = Bufs
           /\ Unread(Start, t) /\ ~Untouched(t)
<1>1. t \in DOMAIN batch /\ t \in Nat /\ t # 0
    <2>1. t \in DOMAIN batch /\ t \in Nat
        BY TensorFacts
    <2> QED BY <2>1 DEF TypeInv
<1>2. Homes(H) /\ Sound(Sources, H, Start) /\ Start.mem = mem /\ Start.stream = stream
    BY DEF Filled, Start
<1>3. H[t] = <<t, 0>>
    BY <1>1, <1>2 DEF Homes
<1>4. DOMAIN Sources = DOMAIN batch /\ Sources[t] = Bufs
    BY <1>1 DEF Sources, Bufs, Tensor
<1>5. Unread(Start, t)
    <2> SUFFICES ASSUME NEW n \in DOMAIN Start.stream, Start.stream[n].src = t PROVE FALSE
        BY <1>1 DEF Unread
    <2>1. OpRight(Sources, H, Start, Start.stream[n])
        BY <1>2 DEF Sound
    <2> QED BY <1>1, <1>4, <2>1 DEF OpRight
<1>6. t \in DOMAIN Start.mem
    BY <1>1, <1>2, MemFacts
<1>7. ~Untouched(t)
    BY <1>1 DEF Untouched, Gathering
<1> QED BY <1>1, <1>2, <1>3, <1>4, <1>5, <1>6, <1>7

\* Where copies go to.
LEMMA StreamToStays ==
    ASSUME TypeInv, SyncInv, [Next]_vars, stream # <<>>, NEW d, StreamTo(d)
    PROVE  StreamTo(d)'
<1>1. UNCHANGED batch /\ \A i \in DOMAIN batch : ~Untouched(i) => ~Untouched(i)'
    BY TouchedWhenBegun
<1>2. CASE d \in DOMAIN batch
    BY <1>1, <1>2 DEF StreamTo
<1>3. CASE d \notin DOMAIN batch
    <2>1. deferred # <<>> /\ pc \in {"begin", "finalize"} \cup Gathering
        BY <1>3 DEF StreamTo
    <2>2. ~FinalizeSync
        <3> SUFFICES ASSUME FinalizeSync PROVE FALSE
            OBVIOUS
        <3>1. needSync /\ Recorded /\ Synchronized
            BY <2>1 DEF FinalizeSync, SyncInv
        <3>2. Len(stream) = 0 => stream = <<>>
            BY LenFacts DEF SyncInv
        <3> QED BY <3>1, <3>2 DEF Recorded, Synchronized
    <2>3. deferred' # <<>>
        <3>1. CASE FlushPinnedDeferred
            BY <3>1, AppendFacts DEF FlushPinnedDeferred, SyncInv
        <3>2. CASE ~FlushPinnedDeferred
            <4>1. deferred' = deferred
                BY <3>2 DEF Next, vars, finVars, BeginGiven, BeginReused, BeginAllocated, BeginFailed,
                   GetNextContiguousInput, InputsExhausted,
                   SkipFlushPinned, FlushPinnedDirect, FlushPinnedNow,
                   SkipFlushKernel, LaunchCopyKernel, FlushKernelDirect,
                   SetTooLarge, SetPendingPinned, SetPendingKernel, SetDirect, NextBuffer, FinalizeSync,
                   FinalizeReady, FinalizeDeferred, FinalizeReturn, CallerSync, Terminating, RunCopy,
                   BufferReadyFires
            <4> QED BY <2>1, <4>1
        <3> QED BY <3>1, <3>2
    <2>4. pc' \in {"begin", "finalize"} \cup Gathering
        BY <2>1, <2>2 DEF Next, vars, BeginGiven, BeginReused, BeginAllocated, BeginFailed, Enter,
           GetNextContiguousInput, InputsExhausted, AfterFlush, AdvanceTo, Gathering,
           SkipFlushPinned, FlushPinnedDirect, FlushPinnedNow, FlushPinnedDeferred,
           SkipFlushKernel, LaunchCopyKernel, FlushKernelDirect,
           SetTooLarge, SetPendingPinned, SetPendingKernel, SetDirect, NextBuffer,
           FinalizeReady, FinalizeDeferred, FinalizeReturn, CallerSync, Terminating, RunCopy,
           BufferReadyFires
    <2> QED BY <1>1, <1>3, <2>3, <2>4 DEF StreamTo
<1> QED BY <1>2, <1>3

LEMMA QueuedTo ==
    ASSUME TypeInv, SyncInv, [Next]_vars, NEW H, Filled(H), NEW b, NEW d, NEW s,
           Adds(Start, b, d, s), stream' = b.stream, StreamTo(d)'
    PROVE  (\A n \in DOMAIN stream : StreamTo(stream[n].dst))'
<1> SUFFICES ASSUME NEW n \in DOMAIN b.stream PROVE StreamTo(stream[n].dst)'
    OBVIOUS
<1>1. Start.stream = stream
    BY DEF Start
<1>2. \/ \E j \in DOMAIN stream : b.stream[n] = stream[j]
      \/ b.stream[n].dst = d
    BY <1>1 DEF Adds
<1>3. CASE b.stream[n].dst = d
    BY <1>3 DEF StreamTo
<1>4. CASE \E j \in DOMAIN stream : b.stream[n] = stream[j]
    <2>1. PICK j \in DOMAIN stream : b.stream[n] = stream[j]
        BY <1>4
    <2>2. StreamTo(stream[j].dst) /\ stream # <<>>
        BY DEF Filled
    <2>3. \A e : StreamTo(e) => StreamTo(e)'
        BY <2>2, StreamToStays
    <2>4. StreamTo(b.stream[n].dst)
        BY <2>1, <2>2
    <2> QED BY <2>3, <2>4 DEF StreamTo
<1> QED BY <1>2, <1>3, <1>4
-----------------------------------------------------------------------------
\* The iterator has been at the same cells.
LEMMA HandledSame ==
    ASSUME UNCHANGED <<batch, cfg, t, view, offset>>, pc \in Gathering <=> pc' \in Gathering
    PROVE  \A i, x : Handled(i, x)' <=> Handled(i, x)
<1>1. Requests' = Requests
    BY DEF Requests, RequestCount
<1>2. \A i, r : Iterated(batch[i], r)' <=> Iterated(batch[i], r)
    BY DEF Iterated
<1>3. \A i, r : InputEnd(batch[i], r)' = InputEnd(batch[i], r)
    BY <1>1 DEF InputEnd, InputOffset, InputBytes, FoldFunctionOnSet, MapThenFoldSet
<1> QED BY <1>1, <1>2, <1>3 DEF Handled

\* On to another tensor: what is behind.
LEMMA HandledNext ==
    ASSUME TypeInv, pc \in {"begin", "kernel"}, AdvanceTo, UNCHANGED <<batch, cfg>>,
           \A i \in DOMAIN batch : i # t => view'[i] = view[i],
           NEW i \in DOMAIN batch, NEW x \in Nat \ {0}, Handled(i, x)'
    PROVE  \/ Handled(i, x) /\ i < t
           \/ /\ i = t /\ view'[t].kind = "buffer"
              /\ \E r \in Requests : Iterated(Tensor, r) /\ x <= InputEnd(Tensor, r)
<1>1. Requests' = Requests
    BY DEF Requests, RequestCount
<1>2. \A r : Iterated(batch[i], r)' <=> Iterated(batch[i], r)
    BY DEF Iterated
<1>3. \A r : InputEnd(batch[i], r)' = InputEnd(batch[i], r)
    BY <1>1 DEF InputEnd, InputOffset, InputBytes, FoldFunctionOnSet, MapThenFoldSet
<1>4. t' = t + 1 /\ pc' \notin Gathering /\ t \in Nat /\ i \in Nat
    BY BatchFacts DEF AdvanceTo, Gathering, TypeInv
<1>5. /\ i < t + 1 /\ view'[i].kind = "buffer"
      /\ \E r \in Requests : Iterated(batch[i], r) /\ x <= InputEnd(batch[i], r)
    BY <1>1, <1>2, <1>3, <1>4 DEF Handled
<1>6. CASE i = t
    BY <1>5, <1>6 DEF Tensor
<1>7. CASE i # t
    <2>1. i < t /\ view'[i] = view[i]
        BY <1>4, <1>5, <1>7
    <2> QED BY <1>5, <2>1 DEF Handled
<1> QED BY <1>6, <1>7

\* The iterator is done, so every input it gets to is behind it.
LEMMA HandledAll ==
    ASSUME TypeInv, PosInv, pc = "kernel", cur = NoBuffer, AdvanceTo, UNCHANGED <<batch, cfg, view>>,
           NEW i \in DOMAIN batch, NEW x \in Nat \ {0}, Handled(i, x)'
    PROVE  Handled(i, x)
<1>1. \/ Handled(i, x)
      \/ i = t /\ \E r \in Requests : Iterated(Tensor, r) /\ x <= InputEnd(Tensor, r)
    BY HandledNext
<1>2. CASE i = t /\ \E r \in Requests : Iterated(Tensor, r) /\ x <= InputEnd(Tensor, r)
    <2>1. PICK r \in Requests : Iterated(Tensor, r) /\ x <= InputEnd(Tensor, r)
        BY <1>2
    <2>2. InputEnd(Tensor, r) <= offset
        BY <2>1 DEF PosInv, PastInputs, Gathering
    <2>3. InputEnd(Tensor, r) \in Nat /\ offset \in Nat
        BY TensorFacts, OffsetFacts DEF TypeInv, Gathering
    <2>4. x <= offset
        BY <2>1, <2>2, <2>3
    <2> QED BY <1>2, <2>4 DEF Handled, Gathering
<1> QED BY <1>1, <1>2

\* The part of a tensor that is pending.
Pends(i, x) == i = t /\ (InRegion(pend, x) \/ InRegion(kern, x))

\* A step that copies nothing.
LEMMA FillQuiet ==
    ASSUME TypeInv, SyncInv, [Next]_vars, NEW H, Filled(H),
           UNCHANGED <<mem, stream, live, deferred, finalized>>,
           \A i \in DOMAIN batch, x \in Nat \ {0} :
              Handled(i, x)' => Pends(i, x)' \/ (Handled(i, x) /\ ~Pends(i, x))
    PROVE  Filled(H)'
<1>1. UNCHANGED batch /\ \A i \in DOMAIN batch : ~Untouched(i) => ~Untouched(i)'
    BY TouchedWhenBegun
<1>2. DOMAIN batch \subseteq DOMAIN mem
    BY MemFacts
<1>3. Start' = Start
    BY DEF Start
<1>4. Carries(H, H, Start, Start')
    BY <1>3, BetterSame, BetterCarries DEF Filled
<1>5. (\A n \in DOMAIN stream : StreamTo(stream[n].dst))'
    BY <1>3, QueuedTo, StreamToStays DEF Filled, StreamTo
<1>6. \A i, x : InDeferred(i, x) => InDeferred(i, x)'
    BY DEF InDeferred
<1>7. ASSUME NEW i \in DOMAIN batch, NEW x \in Nat \ {0}, Handled(i, x)'
      PROVE  \/ Sure(Sources, H, Start, i, x) \/ InDeferred(i, x)'
             \/ i = t' /\ (InRegion(pend', x) \/ InRegion(kern', x))
    <2>1. CASE Pends(i, x)'
        BY <2>1 DEF Pends, InRegion
    <2>2. CASE Handled(i, x) /\ ~Pends(i, x)
        BY <1>6, <2>2 DEF Filled, Pends
    <2> QED BY <1>7, <2>1, <2>2
<1> QED BY <1>1, <1>2, <1>4, <1>5, <1>7, FillStep
-----------------------------------------------------------------------------
LEMMA NothingPends ==
    ASSUME pend = NonePending, kern = NonePending PROVE \A i, x : ~Pends(i, x)
<1>1. \A x : ~InRegion(NonePending, x)
    BY DEF InRegion, NonePending
<1> QED BY <1>1 DEF Pends

\* A buffer that joins those pending extends their part of the tensor.
LEMMA RegionGrows ==
    ASSUME TypeInv, NEW p, PendingInv(p), Flushed(p), cur \in Collectable, NEW x \in Nat,
           InRegion(p, x) \/ x \in offset + 1 .. offset + cur.size
    PROVE  InRegion(Pending(p), x)
<1> DEFINE q == Pending(p)
<1>1. q.off = (IF p.size = 0 THEN offset ELSE p.off) /\ q.size = p.size + cur.size
    BY DEF Pending
<1>2. p.off \in Nat /\ p.size \in Nat /\ offset \in Nat /\ cur.size \in Nat
    BY DEF PendingInv, TypeInv, Collectable
<1> HIDE DEF q
<1>3. CASE p.size = 0
    <2>1. ~InRegion(p, x)
        BY <1>2, <1>3 DEF InRegion
    <2> QED BY <1>1, <1>2, <1>3, <2>1 DEF InRegion, q
<1>4. CASE p.size # 0
    <2>1. offset = p.size + p.off
        BY <1>2, <1>4 DEF Flushed, Continues, NonePending
    <2>2. x \in p.off + 1 .. p.off + (p.size + cur.size)
        BY <1>2, <2>1 DEF InRegion
    <2>3. q.off = p.off /\ q.size = p.size + cur.size
        BY <1>1, <1>4
    <2>4. InRegion(q, x)
        BY <2>2, <2>3 DEF InRegion
    <2> QED BY <2>4 DEF q
<1> QED BY <1>3, <1>4

\* The cells of the buffer in hand are those the iterator comes to.
LEMMA HandledSets ==
    ASSUME TypeInv, NextBuffer, cur \in Collectable,
           NEW i \in DOMAIN batch, NEW x \in Nat \ {0}, Handled(i, x)'
    PROVE  Handled(i, x) \/ (i = t /\ x \in offset + 1 .. offset + cur.size)
<1>1. /\ pc \in Gathering /\ pc' \in Gathering /\ UNCHANGED <<batch, cfg, t, view>>
      /\ offset' = offset + cur.size
    BY DEF NextBuffer, Gathering
<1>2. Requests' = Requests
    BY <1>1 DEF Requests, RequestCount
<1>3. \A r : Iterated(batch[i], r)' <=> Iterated(batch[i], r)
    BY <1>1 DEF Iterated
<1>4. \A r : InputEnd(batch[i], r)' = InputEnd(batch[i], r)
    BY <1>1, <1>2 DEF InputEnd, InputOffset, InputBytes, FoldFunctionOnSet, MapThenFoldSet
<1>5. Handled(i, x) \/ (i = t /\ x <= offset + cur.size)
    BY <1>1, <1>2, <1>3, <1>4 DEF Handled
<1>6. offset \in Nat /\ cur.size \in Nat
    BY DEF TypeInv, Collectable
<1>7. CASE i = t /\ x <= offset + cur.size
    <2>1. x <= offset => Handled(i, x)
        BY <1>1, <1>7 DEF Handled
    <2>2. ~(x <= offset) => x \in offset + 1 .. offset + cur.size
        BY <1>6, <1>7
    <2> QED BY <1>7, <2>1, <2>2
<1> QED BY <1>5, <1>7

LEMMA FillSetsPending ==
    ASSUME TypeInv, SyncInv, [Next]_vars, SetPendingPinned \/ SetPendingKernel, NEW H, Filled(H)
    PROVE  Filled(H)'
<1>1. /\ NextBuffer /\ pc = "set" /\ UNCHANGED <<t, cur, mem, stream, live, deferred, finalized>>
      /\ \/ pend' = Pending(pend) /\ kern' = kern
         \/ kern' = Pending(kern) /\ pend' = pend
    BY DEF SetPendingPinned, SetPendingKernel, NextBuffer, copyVars, finVars
<1>2. cur \in Collectable /\ Flushed(pend) /\ Flushed(kern) /\ PendingInv(pend) /\ PendingInv(kern)
    BY <1>1 DEF TypeInv
<1>3. ASSUME NEW i \in DOMAIN batch, NEW x \in Nat \ {0}, Handled(i, x)'
      PROVE  Pends(i, x)' \/ (Handled(i, x) /\ ~Pends(i, x))
    <2>1. Handled(i, x) \/ (i = t /\ x \in offset + 1 .. offset + cur.size)
        BY <1>1, <1>2, <1>3, HandledSets
    <2>2. /\ InRegion(pend, x) => InRegion(pend', x)
          /\ InRegion(kern, x) => InRegion(kern', x)
        BY <1>1, <1>2, RegionGrows
    <2>3. x \in offset + 1 .. offset + cur.size => InRegion(pend', x) \/ InRegion(kern', x)
        BY <1>1, <1>2, RegionGrows
    <2>4. Pends(i, x)' <=> i = t /\ (InRegion(pend', x) \/ InRegion(kern', x))
        BY <1>1 DEF Pends, InRegion
    <2> QED BY <2>1, <2>2, <2>3, <2>4 DEF Pends
<1> QED BY <1>1, <1>3, FillQuiet

LEMMA FillQuietSteps ==
    ASSUME TypeInv, SyncInv, PosInv, [Next]_vars, NEW H, Filled(H),
           \/ BeginReused \/ GetNextContiguousInput \/ InputsExhausted
           \/ SkipFlushPinned \/ SkipFlushKernel
           \/ FinalizeSync \/ FinalizeReady \/ FinalizeReturn \/ CallerSync \/ Terminating
           \/ BufferReadyFires \/ UNCHANGED vars
    PROVE  Filled(H)'
<1>1. UNCHANGED <<batch, cfg, mem, stream, live, deferred, finalized, pend, kern>>
    BY DEF BeginReused, GetNextContiguousInput, InputsExhausted, SkipFlushPinned, SkipFlushKernel,
       FinalizeSync, FinalizeReady, FinalizeReturn, CallerSync, Terminating, BufferReadyFires, vars,
       collVars, copyVars, finVars
<1> SUFFICES ASSUME NEW i \in DOMAIN batch, NEW x \in Nat \ {0}, Handled(i, x)'
             PROVE  Pends(i, x)' \/ (Handled(i, x) /\ ~Pends(i, x))
    BY <1>1, FillQuiet
<1>2. CASE UNCHANGED <<t, view, offset>> /\ (pc \in Gathering <=> pc' \in Gathering)
    <2>1. Handled(i, x)
        BY <1>1, <1>2, HandledSame
    <2>2. Pends(i, x)' <=> Pends(i, x)
        BY <1>1, <1>2 DEF Pends, InRegion
    <2> QED BY <2>1, <2>2
<1>3. CASE BeginReused
    <2>1. pc = "begin" /\ AdvanceTo
        BY <1>3 DEF BeginReused
    <2>2. /\ \A k \in DOMAIN batch : k # t => view'[k] = view[k]
          /\ view'[t].kind = "reused"
        <3> DEFINE bufs == Collected(Tensor)
                   v == [kind |-> "reused", place |-> bufs[1].place, addr |-> bufs[1].addr,
                         bytes |-> Total(bufs)]
        <3>1. view' = [view EXCEPT ![t] = v] /\ v.kind = "reused"
            BY <1>3 DEF BeginReused
        <3> HIDE DEF v
        <3> QED BY <2>1, <3>1, TensorFacts
    <2>3. Handled(i, x) /\ i < t
        BY <1>1, <2>1, <2>2, HandledNext
    <2>4. i # t
        BY <2>3, MemFacts
    <2> QED BY <2>3, <2>4 DEF Pends
<1>4. CASE SkipFlushKernel
    <2>1. CASE cur # NoBuffer
        <3>1. UNCHANGED <<t, view, offset>> /\ (pc \in Gathering <=> pc' \in Gathering)
            BY <1>4, <2>1 DEF SkipFlushKernel, AfterFlush, Gathering
        <3> QED BY <1>2, <3>1
    <2>2. CASE cur = NoBuffer
        <3>1. pc = "kernel" /\ AdvanceTo /\ UNCHANGED view
            BY <1>4, <2>2 DEF SkipFlushKernel, AfterFlush
        <3>2. Handled(i, x)
            BY <1>1, <2>2, <3>1, HandledAll
        <3>3. pend = NonePending /\ kern = NonePending
            BY <1>4, <2>2, <3>1 DEF SkipFlushKernel, Due, TypeInv, Flushed, PendingInv
        <3> QED BY <3>2, <3>3, NothingPends
    <2> QED BY <2>1, <2>2
<1>5. CASE \/ GetNextContiguousInput \/ InputsExhausted \/ SkipFlushPinned
           \/ FinalizeSync \/ FinalizeReady \/ FinalizeReturn \/ CallerSync \/ Terminating
           \/ BufferReadyFires \/ UNCHANGED vars
    <2>1. UNCHANGED <<t, view, offset>> /\ (pc \in Gathering <=> pc' \in Gathering)
        BY <1>5 DEF GetNextContiguousInput, InputsExhausted, SkipFlushPinned,
           FinalizeSync, FinalizeReady, FinalizeReturn, CallerSync, Terminating, BufferReadyFires, vars,
           collVars, Gathering
    <2> QED BY <1>2, <2>1
<1> QED BY <1>3, <1>4, <1>5
-----------------------------------------------------------------------------
(***************************************************************************)
(* A step that copies to the tensor, or queues copies to it, or answers    *)
(* requests.                                                               *)
(***************************************************************************)
LEMMA FillCopies ==
    ASSUME TypeInv, SyncInv, [Next]_vars, NEW H, Filled(H), pc \in Gathering,
           UNCHANGED <<deferred, finalized>>,
           NEW b, Better(Sources, H, Start, b), Adds(Start, b, t, 0),
           mem' = b.mem, stream' = b.stream, live' = b.live,
           \A i \in DOMAIN batch, x \in Nat \ {0} :
              Handled(i, x)' => \/ Pends(i, x)' \/ (Handled(i, x) /\ ~Pends(i, x))
                                \/ Sure(Sources, H, b, i, x)
    PROVE  Filled(H)'
<1>1. UNCHANGED batch /\ \A i \in DOMAIN batch : ~Untouched(i) => ~Untouched(i)'
    BY TouchedWhenBegun
<1>2. DOMAIN batch \subseteq DOMAIN mem
    BY MemFacts
<1> DEFINE c == Start'
<1>3. /\ c.mem = b.mem /\ c.stream = b.stream /\ c.live = b.live /\ c.cuda = FALSE
      /\ c = [mem |-> c.mem, stream |-> c.stream, live |-> c.live, cuda |-> c.cuda]
    BY DEF Start
<1> HIDE DEF c
<1>4. IsState(c)
    BY <1>3 DEF Better, Sound, IsState
<1>5. Better(Sources, H, Start, c) /\ \A i, x : Sure(Sources, H, b, i, x) => Sure(Sources, H, c, i, x)
    BY <1>3, <1>4, BetterOfSame, SureOfSame
<1>6. Carries(H, H, Start, Start')
    BY <1>5, BetterCarries DEF c
<1>7. (\A n \in DOMAIN stream : StreamTo(stream[n].dst))'
    <2>1. \A d : Adds(Start, b, d, 0) /\ StreamTo(d)' =>
                    (\A n \in DOMAIN stream : StreamTo(stream[n].dst))'
        BY QueuedTo
    <2>2. ASSUME NEW d, d = t PROVE StreamTo(d)'
        <3>1. d \in DOMAIN batch /\ ~Untouched(d)
            BY <2>2, AtHome
        <3> QED BY <1>1, <3>1 DEF StreamTo
    <2> QED BY <2>1, <2>2
<1>8. \A i, x : InDeferred(i, x) => InDeferred(i, x)'
    BY <1>1, <1>2, <1>6, InDeferredStays DEF StillDeferred
<1>9. ASSUME NEW i \in DOMAIN batch, NEW x \in Nat \ {0}, Handled(i, x)'
      PROVE  \/ Sure(Sources, H, Start, i, x) \/ InDeferred(i, x)' \/ Sure(Sources, H, Start', i, x)
             \/ i = t' /\ (InRegion(pend', x) \/ InRegion(kern', x))
    <2>1. CASE Pends(i, x)'
        BY <2>1 DEF Pends, InRegion
    <2>2. CASE Handled(i, x) /\ ~Pends(i, x)
        BY <1>8, <2>2 DEF Filled, Pends
    <2>3. CASE Sure(Sources, H, b, i, x)
        BY <1>5, <2>3 DEF c
    <2> QED BY <1>9, <2>1, <2>2, <2>3
<1> QED BY <1>1, <1>2, <1>6, <1>7, <1>9, FillStep

\* Pending buffers copied directly.
LEMMA RegionCopied ==
    ASSUME TypeInv, SyncInv, pc \in Gathering, NEW H, Filled(H), NEW p, PendingInv(p), RegionRight(p),
           NEW F
    PROVE  LET b == CopyAll(Start, p.bufs, t, Place, p.off, F)
           IN  /\ Better(Sources, H, Start, b) /\ Adds(Start, b, t, 0)
               /\ \A x \in Nat : InRegion(p, x) => Sure(Sources, H, b, t, x)
<1> DEFINE a == Start
           A == Sources
           bufs == p.bufs
           dst == t
           place == Place
           base == p.off
           b == CopyAll(a, bufs, dst, place, base, F)
<1>1. /\ dst \in DOMAIN a.mem /\ Sound(A, H, a) /\ H[dst][1] = dst /\ H[dst][2] = 0 /\ A[dst] = Bufs
      /\ Unread(a, dst)
    BY AtHome
<1>2. bufs \in Seq(Collectable) /\ base \in Nat /\ p.size = Total(bufs) /\ p.size \in Nat
    BY DEF PendingInv
<1>3. \A n \in 1 .. Len(bufs) : BufferAt(Bufs, base + SizeBefore(bufs, n), bufs[n])
    BY DEF RegionRight
<1> HIDE DEF a, A, bufs, dst, place, base, b
<1>4. ASSUME NEW n \in 1 .. Len(bufs)
      PROVE  BufferAt(A[H[dst][1]], H[dst][2] + (base + SizeBefore(bufs, n)), bufs[n])
    <2> DEFINE s == SizeBefore(bufs, n)
    <2>1. s \in Nat
        <3>1. n - 1 \in 0 .. Len(bufs)
            BY <1>2
        <3> QED BY <1>2, <3>1, SizesAreNat, UpToFacts DEF SizeBefore, UpTo
    <2>2. BufferAt(Bufs, base + s, bufs[n])
        BY <1>3
    <2> HIDE DEF s
    <2>3. 0 + (base + s) = base + s
        BY <1>2, <2>1
    <2> QED BY <1>1, <2>2, <2>3 DEF s
<1>5. H[dst][2] \in Nat
    BY <1>1
<1>6. /\ Better(A, H, a, b) /\ Adds(a, b, dst, 0)
      /\ \A y \in 1 .. Total(bufs) : Sure(A, H, b, dst, base + y)
    BY <1>1, <1>2, <1>4, <1>5, CopyAllBetter DEF b
<1>7. ASSUME NEW x \in Nat, InRegion(p, x) PROVE Sure(A, H, b, dst, x)
    <2>1. x \in base + 1 .. base + Total(bufs)
        BY <1>2, <1>7 DEF InRegion, base
    <2>2. x - base \in 1 .. Total(bufs) /\ base + (x - base) = x
        BY <1>2, <2>1
    <2> QED BY <1>6, <2>2
<1> QED BY <1>6, <1>7 DEF a, A, bufs, dst, place, base, b

\* After the kernel's buffers are flushed: another buffer, or another tensor.
LEMMA FlushedKernel ==
    ASSUME TypeInv, PosInv, pc = "kernel", AfterFlush, UNCHANGED <<batch, cfg, view, cur, offset, pend>>,
           NEW i \in DOMAIN batch, NEW x \in Nat \ {0}, Handled(i, x)'
    PROVE  Handled(i, x) /\ (Pends(i, x)' \/ ~Pends(i, x) \/ (i = t /\ InRegion(kern, x)))
<1>1. CASE cur # NoBuffer
    <2>1. UNCHANGED t /\ (pc \in Gathering <=> pc' \in Gathering)
        BY <1>1 DEF AfterFlush, Gathering
    <2>2. Handled(i, x)
        BY <2>1, HandledSame
    <2>3. i = t /\ InRegion(pend, x) => Pends(i, x)'
        BY <2>1 DEF Pends, InRegion
    <2> QED BY <2>2, <2>3 DEF Pends
<1>2. CASE cur = NoBuffer
    <2>1. AdvanceTo
        BY <1>2 DEF AfterFlush
    <2>2. Handled(i, x)
        BY <1>2, <2>1, HandledAll
    <2>3. pend = NonePending
        BY <1>2 DEF TypeInv, Flushed
    <2>4. ~InRegion(pend, x)
        BY <2>3 DEF InRegion, NonePending
    <2> QED BY <2>2, <2>4 DEF Pends
<1> QED BY <1>1, <1>2

LEMMA FillFlushDirect ==
    ASSUME TypeInv, SyncInv, PosInv, [Next]_vars, NEW H, Filled(H), FlushPinnedDirect \/ FlushKernelDirect
    PROVE  Filled(H)'
<1>1. /\ pc \in Gathering /\ PendingInv(pend) /\ PendingInv(kern) /\ RegionRight(pend) /\ RegionRight(kern)
      /\ UNCHANGED <<batch, cfg, view, cur, offset, deferred, finalized>>
    BY DEF FlushPinnedDirect, FlushKernelDirect, Gathering, TypeInv, PosInv, finVars
<1>2. CASE FlushPinnedDirect
    <2>1. PICK F : Effect(CopyAll(Start, pend.bufs, t, Place, pend.off, F))
        BY <1>2 DEF FlushPinnedDirect
    <2> DEFINE b == CopyAll(Start, pend.bufs, t, Place, pend.off, F)
    <2>2. mem' = b.mem /\ stream' = b.stream /\ live' = b.live
        BY <2>1 DEF Effect
    <2>3. /\ Better(Sources, H, Start, b) /\ Adds(Start, b, t, 0)
          /\ \A x \in Nat : InRegion(pend, x) => Sure(Sources, H, b, t, x)
        BY <1>1, RegionCopied
    <2> HIDE DEF b
    <2>4. /\ UNCHANGED <<t, kern>> /\ (pc \in Gathering <=> pc' \in Gathering)
        BY <1>2 DEF FlushPinnedDirect, Gathering
    <2>5. ASSUME NEW i \in DOMAIN batch, NEW x \in Nat \ {0}, Handled(i, x)'
          PROVE  \/ Pends(i, x)' \/ (Handled(i, x) /\ ~Pends(i, x)) \/ Sure(Sources, H, b, i, x)
        <3>1. Handled(i, x)
            BY <1>1, <2>4, <2>5, HandledSame
        <3>2. i = t /\ InRegion(kern, x) => Pends(i, x)'
            BY <2>4 DEF Pends, InRegion
        <3> QED BY <2>3, <3>1, <3>2 DEF Pends
    <2> QED BY <1>1, <2>2, <2>3, <2>5, FillCopies
<1>3. CASE FlushKernelDirect
    <2>1. PICK F : Effect(CopyAll(Start, kern.bufs, t, Place, kern.off, F))
        BY <1>3 DEF FlushKernelDirect
    <2> DEFINE b == CopyAll(Start, kern.bufs, t, Place, kern.off, F)
    <2>2. mem' = b.mem /\ stream' = b.stream /\ live' = b.live
        BY <2>1 DEF Effect
    <2>3. /\ Better(Sources, H, Start, b) /\ Adds(Start, b, t, 0)
          /\ \A x \in Nat : InRegion(kern, x) => Sure(Sources, H, b, t, x)
        BY <1>1, RegionCopied
    <2> HIDE DEF b
    <2>4. pc = "kernel" /\ pend' = pend /\ AfterFlush
        BY <1>3 DEF FlushKernelDirect
    <2>5. ASSUME NEW i \in DOMAIN batch, NEW x \in Nat \ {0}, Handled(i, x)'
          PROVE  \/ Pends(i, x)' \/ (Handled(i, x) /\ ~Pends(i, x)) \/ Sure(Sources, H, b, i, x)
        BY <1>1, <2>3, <2>4, <2>5, FlushedKernel
    <2> QED BY <1>1, <2>2, <2>3, <2>5, FillCopies
<1> QED BY <1>2, <1>3
-----------------------------------------------------------------------------
(***************************************************************************)
(* The bytes of pending buffers, as the arrays of the gather kernel name   *)
(* them, are those of the tensor from where they go to, and of their       *)
(* requests.                                                               *)
(***************************************************************************)
LEMMA KernelGathers ==
    ASSUME TypeInv, pc \in Gathering, NEW p, PendingInv(p), RegionRight(p)
    PROVE  LET data == FlattenSeq([i \in DOMAIN p.bufs |-> Bytes(p.bufs[i])])
           IN  /\ data \in Seq(Locations) /\ Len(data) = p.size
               /\ \A y \in 1 .. p.size : \A k \in 1 .. Len(Bufs) :
                     Covers(Bufs, k, p.off + y)
                         => /\ data[y] = ByteOf(Bufs[k], (p.off + y) - UpTo(Bufs, k - 1))
                            /\ Bufs[k].first \in RequestsOfAll(p.bufs)
<1> DEFINE bufs == p.bufs
           seqs == [i \in DOMAIN bufs |-> Bytes(bufs[i])]
           data == FlattenSeq(seqs)
           o == p.off
<1>1. bufs \in Seq(Collectable) /\ o \in Nat /\ p.size = Total(bufs) /\ p.size \in Nat
    BY DEF PendingInv
<1>2. /\ Len(bufs) \in Nat /\ DOMAIN bufs = 1 .. Len(bufs)
      /\ \A i \in 1 .. Len(bufs) : bufs[i].size \in Nat /\ bufs[i].addr \in Nat /\ bufs[i].place \in Places
    BY <1>1, BufferFacts
<1>3. \A n \in 1 .. Len(bufs) : BufferAt(Bufs, o + SizeBefore(bufs, n), bufs[n])
    BY DEF RegionRight
<1> HIDE DEF bufs, o
<1>4. \A i \in 1 .. Len(bufs) : Bytes(bufs[i]) \in Seq(Locations) /\ Len(Bytes(bufs[i])) = bufs[i].size
    BY <1>2, BytesType
<1>5. seqs \in [1 .. Len(bufs) -> Seq(Locations)] /\ \A i \in 1 .. Len(bufs) : seqs[i] = Bytes(bufs[i])
    BY <1>2, <1>4
<1>6. seqs \in Seq(Seq(Locations)) /\ Len(seqs) = Len(bufs)
    <2> HIDE DEF seqs
    <2> QED BY <1>2, <1>5
<1>7. \A i \in 1 .. Len(seqs) : Len(seqs[i]) = bufs[i].size
    BY <1>4, <1>5, <1>6
<1> HIDE DEF seqs
<1>8. Len(data) = Total(bufs) /\ data \in Seq(Locations)
    BY <1>1, <1>6, <1>7, SizesAreNat, FlattenLength
<1>9. ASSUME NEW y \in 1 .. Total(bufs), NEW k \in 1 .. Len(Bufs), Covers(Bufs, k, o + y)
      PROVE  /\ data[y] = ByteOf(Bufs[k], (o + y) - UpTo(Bufs, k - 1))
             /\ Bufs[k].first \in RequestsOfAll(bufs)
    <2>1. PICK j \in 1 .. Len(bufs) : Covers(bufs, j, y) /\ data[y] = seqs[j][y - UpTo(bufs, j - 1)]
        <3>1. \A e \in Collectable : e.size \in Nat
            BY SizesAreNat
        <3> HIDE DEF data
        <3>2. \E j \in 1 .. Len(bufs) :
                 Covers(bufs, j, y) /\ FlattenSeq(seqs)[y] = seqs[j][y - UpTo(bufs, j - 1)]
            BY <1>1, <1>6, <1>7, <3>1, FlattenLocates, SMTT(20)
        <3>3. FlattenSeq(seqs) = data
            BY DEF data
        <3> QED BY <3>2, <3>3
    <2> DEFINE u == UpTo(bufs, j - 1)
    <2>2. /\ UpTo(bufs, j) = u + bufs[j].size /\ u \in Nat /\ u < y /\ y <= UpTo(bufs, j)
          /\ SizeBefore(bufs, j) = u /\ bufs[j].size \in Nat
        <3>1. j - 1 \in 0 .. Len(bufs) /\ j \in 0 .. Len(bufs)
            BY <1>2
        <3> QED BY <1>1, <1>2, <2>1, <3>1, SizesAreNat, UpToFacts DEF Covers, SizeBefore, UpTo
    <2>3. BufferAt(Bufs, o + u, bufs[j])
        BY <1>3, <2>2
    <2>4. data[y] = seqs[j][y - u]
        BY <2>1
    <2> HIDE DEF u, data
    <2>5. y - u \in 1 .. bufs[j].size /\ (o + u) + (y - u) = o + y
        BY <1>1, <2>2
    <2>6. seqs[j][y - u] = ByteOf(bufs[j], y - u)
        BY <1>5, <2>5 DEF Bytes, ByteOf
    <2>7. Covers(Bufs, k, (o + u) + (y - u))
        BY <1>9, <2>5
    <2>8. /\ ByteOf(Bufs[k], ((o + u) + (y - u)) - UpTo(Bufs, k - 1)) = ByteOf(bufs[j], y - u)
          /\ Bufs[k].first \in RequestsOf(bufs[j])
        BY <2>3, <2>5, <2>7 DEF BufferAt
    <2>9. Bufs[k].first \in RequestsOfAll(bufs)
        BY <1>2, <2>8 DEF RequestsOfAll
    <2> QED BY <2>4, <2>5, <2>6, <2>8, <2>9
<1> QED BY <1>1, <1>8, <1>9 DEF data, seqs, bufs, o

LEMMA FillLaunch ==
    ASSUME TypeInv, SyncInv, SizeInv, PosInv, [Next]_vars, NEW H, Filled(H), LaunchCopyKernel
    PROVE  Filled(H)'
<1> DEFINE data == FlattenSeq([i \in DOMAIN kern.bufs |-> Bytes(kern.bufs[i])])
           op == [dst |-> t, off |-> kern.off, src |-> 0, data |-> data]
           b == Gather(Start)
<1>1. /\ pc = "kernel" /\ pc \in Gathering /\ PendingInv(kern) /\ RegionRight(kern) /\ pend' = pend
      /\ AfterFlush /\ UNCHANGED <<batch, cfg, view, cur, offset, deferred, finalized>>
    BY DEF LaunchCopyKernel, Gathering, TypeInv, PosInv, finVars
<1>2. mem' = b.mem /\ stream' = b.stream /\ live' = b.live
    BY DEF LaunchCopyKernel, Effect
<1>3. /\ t \in DOMAIN Start.mem /\ Sound(Sources, H, Start) /\ H[t][1] = t /\ H[t][2] = 0
      /\ Sources[t] = Bufs /\ Unread(Start, t) /\ t # 0
    BY <1>1, AtHome DEF Unread
<1>4. /\ data \in Seq(Locations) /\ Len(data) = kern.size
      /\ \A y \in 1 .. kern.size : \A k \in 1 .. Len(Bufs) :
            Covers(Bufs, k, kern.off + y) => data[y] = ByteOf(Bufs[k], (kern.off + y) - UpTo(Bufs, k - 1))
    BY <1>1, KernelGathers
<1>5. b = [Start EXCEPT !.stream = Append(@, op), !.cuda = TRUE]
    BY DEF Gather, CopyBuffer
<1>6. op.dst = t /\ op.off = kern.off /\ op.src = 0 /\ op.data = data
    OBVIOUS
<1>7. kern.off \in Nat /\ kern.size \in Nat /\ kern.off + kern.size <= Len(Start.mem[t])
    <2>1. t <= Len(batch) /\ Len(mem[t]) = view[t].bytes /\ Start.mem = mem
        BY <1>1 DEF TypeInv, SizeInv, Gathering, Start
    <2> QED BY <1>1, <2>1 DEF PendingInv
<1> HIDE DEF data, op
<1>8. /\ b.mem = Start.mem /\ b.stream = Append(Start.stream, op) /\ b.live = Start.live /\ IsState(b)
    <2> DEFINE s == Append(Start.stream, op)
    <2>1. b = [Start EXCEPT !.stream = s, !.cuda = TRUE]
        BY <1>5
    <2>2. IsSequence(s)
        BY <1>3, AppendIs DEF Sound, IsState
    <2> HIDE DEF s, b
    <2>3. b.mem = Start.mem /\ b.stream = s /\ b.live = Start.live /\ b.cuda = TRUE
          /\ b = [mem |-> b.mem, stream |-> b.stream, live |-> b.live, cuda |-> b.cuda]
        BY <2>1 DEF Start
    <2>4. IsState(b)
        BY <1>3, <2>2, <2>3 DEF Sound, IsState
    <2> QED BY <2>3, <2>4 DEF s
<1> HIDE DEF b
<1>9. Payload(Start.mem, op) = data
    BY <1>6 DEF Payload
<1>10. ASSUME NEW y \in 1 .. Len(data) PROVE Wanted(Sources, H[t], kern.off + y, Start.live, data[y])
    <2>1. kern.off + y \in Nat /\ 0 + (kern.off + y) = kern.off + y
        BY <1>4, <1>7
    <2>2. y \in 1 .. kern.size
        BY <1>4
    <2> QED BY <1>3, <1>4, <2>1, <2>2 DEF Wanted
<1>11. OpRight(Sources, H, Start, op)
    <2>1. IsSequence(data)
        BY <1>4 DEF IsSequence
    <2> QED BY <1>3, <1>4, <1>6, <1>7, <1>9, <1>10, <2>1 DEF OpRight
<1>12. /\ Better(Sources, H, Start, b)
       /\ \A y \in 1 .. kern.size : Sure(Sources, H, b, t, kern.off + y)
    <2>1. Unread(Start, op.dst) /\ op.src # op.dst
        BY <1>3, <1>6
    <2>2. /\ Better(Sources, H, Start, b)
          /\ \A y \in 1 .. Len(Payload(Start.mem, op)) : Sure(Sources, H, b, op.dst, op.off + y)
        BY <1>3, <1>8, <1>11, <2>1, QueueBetter
    <2> QED BY <1>4, <1>6, <1>9, <2>2
<1>13. Adds(Start, b, t, 0)
    <2> DEFINE n == Len(Start.stream)
    <2>1. /\ DOMAIN Start.stream = 1 .. n /\ DOMAIN b.stream = 1 .. n + 1 /\ n \in Nat
          /\ \A i \in 1 .. n : b.stream[i] = Start.stream[i]
          /\ b.stream[n + 1] = op
        BY <1>3, <1>8, AppendIs DEF Sound, IsState
    <2> HIDE DEF n
    <2>2. ASSUME NEW i \in DOMAIN b.stream
          PROVE  \/ \E j \in DOMAIN Start.stream : b.stream[i] = Start.stream[j]
                 \/ b.stream[i].dst = t /\ b.stream[i].src = 0
        <3>1. CASE i = n + 1
            BY <1>6, <2>1, <3>1
        <3>2. CASE i # n + 1
            <4>1. i \in 1 .. n
                BY <2>1, <3>2
            <4> QED BY <2>1, <4>1
        <3> QED BY <3>1, <3>2
    <2> QED BY <2>2 DEF Adds
<1>14. ASSUME NEW x \in Nat, InRegion(kern, x) PROVE Sure(Sources, H, b, t, x)
    <2>1. x - kern.off \in 1 .. kern.size /\ kern.off + (x - kern.off) = x
        BY <1>7, <1>14 DEF InRegion
    <2> QED BY <1>12, <2>1
<1>15. ASSUME NEW i \in DOMAIN batch, NEW x \in Nat \ {0}, Handled(i, x)'
       PROVE  \/ Pends(i, x)' \/ (Handled(i, x) /\ ~Pends(i, x)) \/ Sure(Sources, H, b, i, x)
    BY <1>1, <1>14, <1>15, FlushedKernel
<1> QED BY <1>1, <1>2, <1>12, <1>13, <1>15, FillCopies
-----------------------------------------------------------------------------
\* The cells of the buffer in hand belong to its requests.
LEMMA BelongsToBuffer ==
    ASSUME TypeInv, NEW H, H[t][1] = t, H[t][2] = 0, Sources[t] = Bufs,
           cur \in Collectable, BufferAt(Bufs, offset, cur),
           NEW x \in offset + 1 .. offset + cur.size, NEW L
    PROVE  Ownerless(Sources, H[t], x, L \ RequestsOf(cur))
<1>1. offset \in Nat /\ cur.size \in Nat
    BY DEF TypeInv, Collectable
<1>2. x - offset \in 1 .. cur.size /\ offset + (x - offset) = x /\ 0 + x = x
    BY <1>1
<1>3. \A k \in 1 .. Len(Bufs) : Covers(Bufs, k, x) => Bufs[k].first \in RequestsOf(cur)
    BY <1>2 DEF BufferAt
<1> QED BY <1>2, <1>3 DEF Ownerless

LEMMA FillSetTooLarge ==
    ASSUME TypeInv, SyncInv, SizeInv, PosInv, [Next]_vars, NEW H, Filled(H), SetTooLarge
    PROVE  Filled(H)'
<1> DEFINE reqs == RequestsOf(cur)
           b == [mem |-> mem, stream |-> stream, live |-> live \ reqs, cuda |-> FALSE]
<1>1. /\ NextBuffer /\ pc \in Gathering /\ UNCHANGED <<t, mem, stream, pend, kern, deferred, finalized>>
      /\ live' = live \ reqs /\ cur \in Collectable /\ BufferAt(Bufs, offset, cur)
    BY DEF SetTooLarge, NextBuffer, Gathering, TypeInv, PosInv, finVars
<1>2. /\ Sound(Sources, H, Start) /\ H[t][1] = t /\ H[t][2] = 0 /\ Sources[t] = Bufs
    BY <1>1, AtHome
<1> HIDE DEF reqs
<1>3. b.mem = Start.mem /\ b.stream = Start.stream /\ b.live = Start.live \ reqs
    BY DEF Start
<1>4. IsState(b)
    BY DEF IsState, SyncInv
<1>5. mem' = b.mem /\ stream' = b.stream /\ live' = b.live
    BY <1>1
<1> HIDE DEF b
<1>6. Better(Sources, H, Start, b)
    BY <1>2, <1>3, <1>4, AnswerBetter
<1>7. Adds(Start, b, t, 0)
    BY <1>3, AddsNothing
<1>8. ASSUME NEW x \in offset + 1 .. offset + cur.size PROVE Sure(Sources, H, b, t, x)
    <2>1. Ownerless(Sources, H[t], x, Start.live \ reqs)
        BY <1>1, <1>2, BelongsToBuffer DEF reqs
    <2> QED BY <1>3, <2>1 DEF Sure
<1>9. ASSUME NEW i \in DOMAIN batch, NEW x \in Nat \ {0}, Handled(i, x)'
      PROVE  \/ Pends(i, x)' \/ (Handled(i, x) /\ ~Pends(i, x)) \/ Sure(Sources, H, b, i, x)
    <2>1. Handled(i, x) \/ (i = t /\ x \in offset + 1 .. offset + cur.size)
        BY <1>1, <1>9, HandledSets
    <2>2. Pends(i, x) => Pends(i, x)'
        BY <1>1 DEF Pends, InRegion
    <2> QED BY <1>8, <2>1, <2>2
<1> QED BY <1>1, <1>5, <1>6, <1>7, <1>9, FillCopies

LEMMA FillSetDirect ==
    ASSUME TypeInv, SyncInv, SizeInv, PosInv, [Next]_vars, NEW H, Filled(H), SetDirect
    PROVE  Filled(H)'
<1>1. /\ NextBuffer /\ pc \in Gathering /\ UNCHANGED <<t, pend, kern, deferred, finalized>>
      /\ cur \in Collectable /\ BufferAt(Bufs, offset, cur) /\ offset \in Nat
    BY DEF SetDirect, NextBuffer, Gathering, TypeInv, PosInv, finVars
<1>2. /\ t \in DOMAIN Start.mem /\ Sound(Sources, H, Start) /\ H[t][1] = t /\ H[t][2] = 0
      /\ Sources[t] = Bufs /\ Unread(Start, t)
    BY <1>1, AtHome
<1>3. PICK F : Effect(DirectCopy(Start, cur, t, Place, offset, F # {}))
    BY DEF SetDirect
<1> DEFINE fails == F # {}
           a == Start
           place == Place
           b == DirectCopy(a, cur, t, place, offset, fails)
<1>4. mem' = b.mem /\ stream' = b.stream /\ live' = b.live
    BY <1>3 DEF Effect
<1>5. fails \in BOOLEAN
    OBVIOUS
<1>6. H[t][2] \in Nat /\ BufferAt(Sources[H[t][1]], H[t][2] + offset, cur)
    <2>1. 0 + offset = offset
        BY <1>1
    <2> QED BY <1>1, <1>2, <2>1
<1> HIDE DEF fails, a, place
<1>7. /\ Better(Sources, H, a, b) /\ Adds(a, b, t, 0)
      /\ \A y \in 1 .. cur.size : Sure(Sources, H, b, t, offset + y)
    BY <1>1, <1>2, <1>5, <1>6, DirectCopyBetter DEF a
<1> HIDE DEF b
<1>8. ASSUME NEW x \in offset + 1 .. offset + cur.size PROVE Sure(Sources, H, b, t, x)
    <2>1. x - offset \in 1 .. cur.size /\ offset + (x - offset) = x
        BY <1>1 DEF Collectable
    <2> QED BY <1>7, <2>1
<1>9. ASSUME NEW i \in DOMAIN batch, NEW x \in Nat \ {0}, Handled(i, x)'
      PROVE  \/ Pends(i, x)' \/ (Handled(i, x) /\ ~Pends(i, x)) \/ Sure(Sources, H, b, i, x)
    <2>1. Handled(i, x) \/ (i = t /\ x \in offset + 1 .. offset + cur.size)
        BY <1>1, <1>9, HandledSets
    <2>2. Pends(i, x) => Pends(i, x)'
        BY <1>1 DEF Pends, InRegion
    <2> QED BY <1>8, <2>1, <2>2
<1> QED BY <1>1, <1>4, <1>7, <1>9, FillCopies DEF a
-----------------------------------------------------------------------------
\* The stream performs a copy.
LEMMA FillRuns ==
    ASSUME TypeInv, SyncInv, [Next]_vars, NEW H, Filled(H), RunCopy
    PROVE  Filled(H)'
<1> DEFINE op == Head(stream)
           a == Start
           b == Start'
           A == Sources
<1>1. /\ stream # <<>> /\ mem' = Perform(mem, op) /\ stream' = Tail(stream)
      /\ UNCHANGED <<cfg, pc, t, view, offset, pend, kern, live, deferred, finalized>>
    BY DEF RunCopy, collVars, finVars
<1>2. UNCHANGED batch /\ \A i \in DOMAIN batch : ~Untouched(i) => ~Untouched(i)'
    BY TouchedWhenBegun
<1>3. DOMAIN batch \subseteq DOMAIN mem
    BY MemFacts
<1>4. /\ a.mem = mem /\ a.stream = stream /\ a.live = live
      /\ b.mem = mem' /\ b.stream = stream' /\ b.live = live' /\ b.cuda = FALSE
      /\ b = [mem |-> b.mem, stream |-> b.stream, live |-> b.live, cuda |-> b.cuda]
    BY DEF Start
<1>5. Sound(A, H, a)
    BY DEF Filled
<1>6. /\ IsSequence(stream') /\ Len(stream) \in Nat \ {0}
      /\ DOMAIN stream = 1 .. Len(stream) /\ DOMAIN stream' = 1 .. Len(stream) - 1
      /\ op = stream[1] /\ \A n \in 1 .. Len(stream) - 1 : stream'[n] = stream[n + 1]
    <2>1. PICK S : stream \in Seq(S)
        BY DEF SyncInv, IsSequence
    <2>2. stream' \in Seq(S) /\ Len(stream') = Len(stream) - 1 /\ Len(stream) \in Nat \ {0}
        BY <1>1, <2>1
    <2>3. op = stream[1] /\ \A n \in 1 .. Len(stream) - 1 : stream'[n] = stream[n + 1]
        BY <1>1, <2>1
    <2> QED BY <2>1, <2>2, <2>3 DEF IsSequence
<1> HIDE DEF op, a, b, A
<1>7. IsSequence(mem')
    BY <1>1, SyncStep DEF SyncInv
<1>8. IsState(b)
    BY <1>4, <1>6, <1>7 DEF IsState
<1>9. 1 \in DOMAIN a.stream /\ op = a.stream[1] /\ OpRight(A, H, a, op)
    BY <1>4, <1>5, <1>6 DEF Sound
<1>10. op.dst \in DOMAIN mem /\ op.dst # 0
    <2>1. op.dst \in DOMAIN mem
        BY <1>4, <1>9 DEF OpRight
    <2> QED BY <2>1, MemFacts
<1>11. Unread(b, op.dst)
    <2> SUFFICES ASSUME NEW n \in 1 .. Len(stream) - 1, stream'[n].src = op.dst PROVE FALSE
        BY <1>4, <1>6, <1>10 DEF Unread
    <2>1. n + 1 \in DOMAIN a.stream /\ stream'[n] = a.stream[n + 1]
        BY <1>4, <1>6
    <2>2. OpRight(A, H, a, a.stream[n + 1])
        BY <1>5, <2>1 DEF Sound
    <2> QED BY <1>9, <1>10, <2>1, <2>2 DEF OpRight
<1>12. /\ \A i \in DOMAIN b.stream : \E j \in DOMAIN a.stream : b.stream[i] = a.stream[j]
       /\ \A j \in DOMAIN a.stream : a.stream[j] = op \/ \E i \in DOMAIN b.stream : b.stream[i] = a.stream[j]
    <2>1. ASSUME NEW i \in DOMAIN b.stream PROVE \E j \in DOMAIN a.stream : b.stream[i] = a.stream[j]
        <3>1. i + 1 \in DOMAIN a.stream /\ b.stream[i] = a.stream[i + 1]
            BY <1>4, <1>6
        <3> QED BY <3>1
    <2>2. ASSUME NEW j \in DOMAIN a.stream, a.stream[j] # op
          PROVE  \E i \in DOMAIN b.stream : b.stream[i] = a.stream[j]
        <3>1. j - 1 \in 1 .. Len(stream) - 1 /\ (j - 1) + 1 = j
            BY <1>4, <1>6, <2>2
        <3> QED BY <1>4, <1>6, <3>1
    <2> QED BY <2>1, <2>2
<1>13. Better(A, H, a, b)
    <2>1. b.mem = Perform(a.mem, op) /\ b.live = a.live
        BY <1>1, <1>4
    <2> QED BY <1>5, <1>8, <1>9, <1>11, <1>12, <2>1, PerformBetter
<1>14. Carries(H, H, Start, Start')
    BY <1>13, BetterCarries DEF a, b, A
<1>15. (\A n \in DOMAIN stream : StreamTo(stream[n].dst))'
    <2> SUFFICES ASSUME NEW n \in DOMAIN stream' PROVE StreamTo(stream[n].dst)'
        OBVIOUS
    <2>1. \A d : StreamTo(d) => StreamTo(d)'
        BY <1>1, StreamToStays
    <2>2. n + 1 \in DOMAIN stream /\ stream'[n] = stream[n + 1]
        BY <1>6
    <2>3. StreamTo(stream'[n].dst)
        BY <2>2 DEF Filled
    <2> QED BY <2>1, <2>3 DEF StreamTo
<1>16. \A i, x : InDeferred(i, x) => InDeferred(i, x)'
    BY <1>1, <1>2, <1>3, <1>14, InDeferredStays DEF StillDeferred
<1>17. \A i, x : Handled(i, x)' <=> Handled(i, x)
    BY <1>1, <1>2, HandledSame
<1>18. ASSUME NEW i \in DOMAIN batch, NEW x \in Nat \ {0}, Handled(i, x)'
       PROVE  \/ Sure(Sources, H, Start, i, x) \/ InDeferred(i, x)'
              \/ i = t' /\ (InRegion(pend', x) \/ InRegion(kern', x))
    BY <1>1, <1>16, <1>17, <1>18 DEF Filled
<1> QED BY <1>1, <1>2, <1>3, <1>14, <1>15, <1>18, FillStep

\* After an error nothing is wanted.
LEMMA FillFails ==
    ASSUME TypeInv, SyncInv, [Next]_vars, NEW H, Filled(H), BeginFailed
    PROVE  Filled(H)'
<1> DEFINE reqs == live
           b == Start'
<1>1. /\ pc = "begin" /\ AdvanceTo /\ UNCHANGED <<cfg, pend, kern, mem, stream, deferred, finalized>>
      /\ live' = {} /\ view' = [view EXCEPT ![t].kind = "error"]
    BY DEF BeginFailed, finVars
<1>2. UNCHANGED batch /\ \A i \in DOMAIN batch : ~Untouched(i) => ~Untouched(i)'
    BY TouchedWhenBegun
<1>3. DOMAIN batch \subseteq DOMAIN mem
    BY MemFacts
<1>4. b.mem = Start.mem /\ b.stream = Start.stream /\ b.live = Start.live \ reqs /\ IsState(b)
    <2>1. /\ b = [mem |-> mem', stream |-> stream', live |-> live', cuda |-> FALSE]
          /\ Start = [mem |-> mem, stream |-> stream, live |-> live, cuda |-> FALSE]
        BY DEF Start
    <2>2. IsSequence(mem') /\ IsSequence(stream')
        BY <1>1 DEF SyncInv
    <2> HIDE DEF b
    <2> QED BY <1>1, <2>1, <2>2 DEF IsState
<1>5. Sound(Sources, H, Start)
    BY DEF Filled
<1> HIDE DEF reqs, b
<1>6. Carries(H, H, Start, Start')
    <2>1. Better(Sources, H, Start, b)
        BY <1>4, <1>5, AnswerBetter
    <2> QED BY <2>1, BetterCarries DEF b
<1>7. (\A n \in DOMAIN stream : StreamTo(stream[n].dst))'
    <2> SUFFICES ASSUME NEW n \in DOMAIN stream PROVE StreamTo(stream[n].dst)'
        BY <1>1
    <2>1. \A d : StreamTo(d) => StreamTo(d)'
        BY StreamToStays DEF SyncInv, IsSequence
    <2>2. StreamTo(stream[n].dst)
        BY DEF Filled
    <2>3. stream'[n] = stream[n]
        BY <1>1
    <2> QED BY <2>1, <2>2, <2>3 DEF StreamTo
<1>8. \A i, x : InDeferred(i, x) => InDeferred(i, x)'
    BY <1>1 DEF InDeferred
<1>9. ASSUME NEW i \in DOMAIN batch, NEW x \in Nat \ {0}, Handled(i, x)'
      PROVE  Sure(Sources, H, Start, i, x) \/ InDeferred(i, x)'
    <2>1. /\ \A k \in DOMAIN batch : k # t => view'[k] = view[k]
          /\ view'[t].kind = "error"
        <3>1. t \in DOMAIN batch /\ DOMAIN view = DOMAIN batch /\ view[t] \in Views
            BY <1>1, TensorFacts
        <3> DEFINE v == [view[t] EXCEPT !.kind = "error"]
        <3>2. view' = [view EXCEPT ![t] = v] /\ v.kind = "error"
            BY <1>1, <3>1 DEF Views
        <3> HIDE DEF v
        <3> QED BY <3>1, <3>2
    <2>2. Handled(i, x) /\ i < t
        BY <1>1, <1>2, <1>9, <2>1, HandledNext
    <2>3. i # t
        BY <2>2, MemFacts
    <2> QED BY <1>8, <2>2, <2>3 DEF Filled
<1> QED BY <1>1, <1>2, <1>3, <1>6, <1>7, <1>9, FillStep
-----------------------------------------------------------------------------
(***************************************************************************)
(* A buffer for a tensor that nothing is copied to yet.                    *)
(***************************************************************************)
LEMMA FillEnters ==
    ASSUME TypeInv, SyncInv, SizeInv, [Next]_vars, NEW H, Filled(H), pc = "begin",
           NEW place, NEW bytes, Enter(place, bytes),
           UNCHANGED <<cfg, pend, kern, stream, live, deferred, finalized>>,
           bytes = 0 => \A r \in Requests : Iterated(Tensor, r) => InputEnd(Tensor, r) <= 0
    PROVE  Filled(H)'
<1> DEFINE a == Start
           b == Start'
           A == Sources
<1>1. UNCHANGED batch /\ \A i \in DOMAIN batch : ~Untouched(i) => ~Untouched(i)'
    BY TouchedWhenBegun
<1>2. DOMAIN batch \subseteq DOMAIN mem /\ t \in DOMAIN batch /\ t \in Nat /\ Untouched(t) /\ DOMAIN view = DOMAIN batch
    BY MemFacts, TensorFacts DEF Untouched
<1>3. DOMAIN mem' = DOMAIN mem /\ \A d \in DOMAIN mem : d # t => mem'[d] = mem[d]
    BY DEF Enter
<1>4. /\ a.mem = mem /\ a.stream = stream /\ a.live = live
      /\ b.mem = mem' /\ b.stream = stream /\ b.live = live /\ b.cuda = FALSE
      /\ b = [mem |-> b.mem, stream |-> b.stream, live |-> b.live, cuda |-> b.cuda]
    BY DEF Start
<1>5. Sources' = A /\ Requests' = Requests /\ DOMAIN A = DOMAIN batch
    BY <1>1, SameSources DEF Sources
<1>6. Sound(A, H, a) /\ Homes(H) /\ Homes(H)'
    BY <1>1 DEF Filled, Homes
<1>7. AreCells(mem')
    BY SizeStep DEF SizeInv
<1> HIDE DEF a, b, A
<1>8. IsState(b)
    BY <1>4, <1>7 DEF IsState, AreCells, SyncInv
<1>9. ASSUME NEW n \in DOMAIN stream
      PROVE  /\ OpRight(A, H, b, stream[n]) /\ Payload(mem', stream[n]) = Payload(mem, stream[n])
             /\ stream[n].dst # t
    <2> DEFINE op == stream[n]
    <2>1. OpRight(A, H, a, op)
        BY <1>4, <1>6 DEF Sound
    <2>2. op.dst # t
        BY <1>2 DEF Filled, StreamTo
    <2> HIDE DEF op
    <2>3. op.src # 0 => op.src \in DOMAIN mem /\ op.src # t
        BY <1>2, <1>4, <1>5, <2>1 DEF OpRight
    <2>4. Payload(mem', op) = Payload(mem, op)
        BY <1>3, <2>3 DEF Payload
    <2>5. mem'[op.dst] = mem[op.dst]
        BY <1>3, <1>4, <2>1, <2>2 DEF OpRight
    <2>6. OpRight(A, H, b, op)
        BY <1>3, <1>4, <2>1, <2>4, <2>5 DEF OpRight
    <2> QED BY <2>2, <2>4, <2>6 DEF op
<1>10. Sound(A, H, b)
    BY <1>4, <1>7, <1>8, <1>9 DEF Sound
<1>11. ASSUME NEW d \in DOMAIN mem, d # t, NEW y, Sure(A, H, a, d, y) PROVE Sure(A, H, b, d, y)
    <2>1. Queued(a, d, y) => Queued(b, d, y)
        BY <1>4, <1>9 DEF Queued
    <2> QED BY <1>3, <1>4, <1>11, <2>1 DEF Sure
<1>12. (\A n \in DOMAIN stream : StreamTo(stream[n].dst))'
    <2> SUFFICES ASSUME NEW n \in DOMAIN stream PROVE StreamTo(stream[n].dst)'
        OBVIOUS
    <2>1. \A d : StreamTo(d) => StreamTo(d)'
        BY StreamToStays DEF SyncInv, IsSequence
    <2>2. StreamTo(stream[n].dst)
        BY DEF Filled
    <2>3. stream'[n] = stream[n]
        OBVIOUS
    <2> QED BY <2>1, <2>2, <2>3 DEF StreamTo
<1>13. ASSUME NEW n \in finalized + 1 .. Len(deferred)
       PROVE  DeferredRight(H, deferred[n])' /\ Len(mem'[deferred[n].src]) = Len(mem[deferred[n].src])
    <2> DEFINE def == deferred[n]
    <2>1. DeferredRight(H, def)
        BY DEF Filled
    <2> SUFFICES ASSUME NEW def2, def2 = def
                 PROVE  DeferredRight(H, def2)' /\ Len(mem'[def.src]) = Len(mem[def.src])
        BY DEF DeferredRight
    <2> HIDE DEF def
    <2>2. def.src \in DOMAIN mem /\ def.src # t /\ def.dst \in DOMAIN mem /\ def.dst # t
        BY <1>2, <2>1 DEF DeferredRight
    <2>3. mem'[def.src] = mem[def.src] /\ mem'[def.dst] = mem[def.dst]
        BY <1>3, <2>2
    <2>4. \A y : Sure(A, H, a, def.src, y) => Sure(A, H, b, def.src, y)
        BY <1>11, <2>2
    <2>5. DeferredRight(H, def2)'
        BY <1>1, <1>3, <1>5, <2>1, <2>3, <2>4 DEF DeferredRight, a, b, A
    <2> QED BY <2>3, <2>5
<1>14. \A i, x : InDeferred(i, x) => InDeferred(i, x)'
    BY <1>13 DEF InDeferred
<1>15. /\ \A k \in DOMAIN batch : k # t => view'[k] = view[k]
    <2> DEFINE v == [kind |-> "buffer", place |-> place, addr |-> 0, bytes |-> bytes]
    <2>1. view' = [view EXCEPT ![t] = v]
        BY DEF Enter
    <2> HIDE DEF v
    <2> QED BY <1>2, <2>1
<1>16. ASSUME NEW i \in DOMAIN batch, NEW x \in Nat \ {0}, Handled(i, x)' PROVE Handled(i, x) /\ i < t
    <2>1. CASE bytes = 0
        <3>1. AdvanceTo
            BY <2>1 DEF Enter
        <3>2. \/ Handled(i, x) /\ i < t
              \/ i = t /\ \E r \in Requests : Iterated(Tensor, r) /\ x <= InputEnd(Tensor, r)
            BY <1>1, <1>15, <1>16, <3>1, HandledNext
        <3>3. \A r \in Requests : InputEnd(Tensor, r) \in Nat
            BY TensorFacts, OffsetFacts
        <3>4. \A r \in Requests : ~(Iterated(Tensor, r) /\ x <= InputEnd(Tensor, r))
            BY <2>1, <3>3
        <3> QED BY <3>2, <3>4
    <2>2. CASE bytes # 0
        <3>1. t' = t /\ pc' = "next" /\ offset' = 0
            BY <2>2 DEF Enter
        <3>2. \A r : Iterated(batch[i], r)' <=> Iterated(batch[i], r)
            BY <1>1 DEF Iterated
        <3>3. \A r : InputEnd(batch[i], r)' = InputEnd(batch[i], r)
            BY <1>1, <1>5 DEF InputEnd, InputOffset, InputBytes, FoldFunctionOnSet, MapThenFoldSet
        <3>4. ~(x <= offset')
            BY <3>1
        <3>5. /\ i < t /\ view'[i].kind = "buffer"
              /\ \E r \in Requests : Iterated(batch[i], r) /\ x <= InputEnd(batch[i], r)
            BY <1>5, <1>16, <3>1, <3>2, <3>3, <3>4 DEF Handled
        <3>6. view'[i] = view[i]
            BY <1>2, <1>15, <3>5
        <3> QED BY <3>5, <3>6 DEF Handled
    <2> QED BY <2>1, <2>2
<1>17. ASSUME NEW i \in DOMAIN batch, NEW x \in Nat \ {0}, Handled(i, x)'
       PROVE  Sure(A, H, b, i, x) \/ InDeferred(i, x)'
    <2>1. Handled(i, x) /\ i < t /\ i # t /\ i \in DOMAIN mem
        BY <1>2, <1>16, <1>17
    <2>2. Sure(A, H, a, i, x) \/ InDeferred(i, x)
        BY <2>1 DEF Filled, a, A
    <2> QED BY <1>11, <1>14, <2>1, <2>2
<1> QED BY <1>1, <1>5, <1>6, <1>10, <1>12, <1>13, <1>17 DEF Filled, b, A

LEMMA FillBegins ==
    ASSUME TypeInv, SyncInv, SizeInv, [Next]_vars, NEW H, Filled(H), BeginGiven \/ BeginAllocated
    PROVE  Filled(H)'
<1>1. UNCHANGED <<cfg, pend, kern, stream, live, deferred, finalized>> /\ pc = "begin"
    BY DEF BeginGiven, BeginAllocated, finVars
<1>2. CASE BeginGiven
    <2>1. Tensor.given /\ Enter(Tensor.allowed[1], Tensor.bytes)
        BY <1>2 DEF BeginGiven
    <2>2. Tensor.bytes = 0 => \A r \in Requests : ~Iterated(Tensor, r)
        BY <2>1 DEF Iterated
    <2> QED BY <1>1, <2>1, <2>2, FillEnters
<1>3. CASE BeginAllocated
    <2>1. PICK k \in DOMAIN Tensor.allowed : Enter(Tensor.allowed[k], Total(Bufs))
        BY <1>3 DEF BeginAllocated, Bufs
    <2>2. \A r \in Requests : InputEnd(Tensor, r) <= Total(Bufs)
        BY <1>1, TensorFacts, EndWithin DEF Bufs
    <2> QED BY <1>1, <2>1, <2>2, FillEnters
<1> QED BY <1>2, <1>3
-----------------------------------------------------------------------------
\* The cells of a pinned buffer are those of its home.
LEMMA HomeMoves ==
    ASSUME NEW A, NEW i, NEW off \in Nat, NEW y \in Nat, NEW L
    PROVE  /\ \A v : Wanted(A, <<i, off>>, y, L, v) <=> Wanted(A, <<i, 0>>, off + y, L, v)
           /\ Ownerless(A, <<i, off>>, y, L) <=> Ownerless(A, <<i, 0>>, off + y, L)
<1>1. 0 + (off + y) = off + y
    OBVIOUS
<1> QED BY <1>1 DEF Wanted, Ownerless

(***************************************************************************)
(* A pinned buffer that no copy goes to any more, to its home.             *)
(***************************************************************************)
LEMMA FromPinnedBetter ==
    ASSUME NEW A, NEW H, NEW a, Sound(A, H, a), NEW def, NEW onStream, NEW fails \in BOOLEAN,
           def.src \in DOMAIN a.mem, def.src \notin DOMAIN A, def.src # 0,
           \A n \in DOMAIN a.stream : a.stream[n].dst # def.src,
           def.dst \in DOMAIN a.mem, def.dst \in DOMAIN A, Unread(a, def.dst),
           def.off \in Nat, def.off + Len(a.mem[def.src]) <= Len(a.mem[def.dst]),
           H[def.src] = <<def.dst, def.off>>, H[def.dst] = <<def.dst, 0>>,
           \A y \in 1 .. Len(a.mem[def.src]) :
              /\ Sure(A, H, a, def.src, y)
              /\ Ownerless(A, <<def.dst, def.off>>, y, a.live \ RequestsOfAll(def.bufs))
    PROVE  LET b == CopyFromPinned(a, def, onStream, fails)
           IN  /\ Better(A, H, a, b) /\ Adds(a, b, def.dst, def.src)
               /\ \A y \in 1 .. Len(a.mem[def.src]) : Sure(A, H, b, def.dst, def.off + y)
<1> DEFINE mode == CopyMode("CPU_PINNED", MemoryType(view[def.dst].place), onStream)
           op == [dst |-> def.dst, off |-> def.off, src |-> def.src, data |-> <<>>]
           reqs == RequestsOfAll(def.bufs)
           b == CopyFromPinned(a, def, onStream, fails)
           cells == a.mem[def.src]
<1>1. b = CopyBuffer(a, op, mode, fails, reqs)
    BY DEF CopyFromPinned
<1>2. mode \in {"host", "stream"}
    BY DEF CopyMode
<1>3. /\ op.dst = def.dst /\ op.off = def.off /\ op.src = def.src
      /\ Payload(a.mem, op) = cells
    BY DEF Payload
<1>4. IsSequence(cells) /\ Len(cells) \in Nat
    BY LenFacts DEF Sound, AreCells
<1> HIDE DEF b, mode, op, reqs, cells
<1>5. ASSUME NEW y \in 1 .. Len(cells)
      PROVE  /\ Wanted(A, H[def.dst], def.off + y, a.live, cells[y])
             /\ Ownerless(A, H[def.dst], def.off + y, a.live \ reqs)
    <2>1. y \in Nat
        BY <1>4
    <2>2. ~Queued(a, def.src, y)
        BY DEF Queued
    <2>3. Ownerless(A, H[def.src], y, a.live) \/ Wanted(A, H[def.src], y, a.live, cells[y])
        BY <2>2 DEF Sure, cells
    <2>4. Wanted(A, H[def.src], y, a.live, cells[y])
        BY <2>3 DEF Ownerless, Wanted
    <2>5. Ownerless(A, <<def.dst, def.off>>, y, a.live \ reqs)
        BY DEF cells, reqs
    <2>6. Wanted(A, <<def.dst, def.off>>, y, a.live, cells[y])
        BY <2>4
    <2>7. Wanted(A, <<def.dst, 0>>, def.off + y, a.live, cells[y])
        BY <2>1, <2>6, HomeMoves
    <2>8. Ownerless(A, <<def.dst, 0>>, def.off + y, a.live \ reqs)
        BY <2>1, <2>5, HomeMoves
    <2> QED BY <2>7, <2>8
<1>6. OpRight(A, H, a, op)
    BY <1>3, <1>4, <1>5 DEF OpRight, cells
<1>7. Unread(a, op.dst) /\ op.src # op.dst
    BY <1>3
<1>8. \A y \in 1 .. Len(Payload(a.mem, op)) : Ownerless(A, H[op.dst], op.off + y, a.live \ reqs)
    BY <1>3, <1>5
<1>9. /\ Better(A, H, a, b) /\ Adds(a, b, op.dst, op.src)
      /\ \A y \in 1 .. Len(Payload(a.mem, op)) : Sure(A, H, b, op.dst, op.off + y)
    BY <1>1, <1>2, <1>6, <1>7, <1>8, CopyBufferBetter
<1> QED BY <1>3, <1>9 DEF b, cells

LEMMA FillFinalizes ==
    ASSUME TypeInv, SyncInv, SizeInv, [Next]_vars, NEW H, Filled(H), FinalizeDeferred
    PROVE  Filled(H)'
<1> DEFINE def == deferred[finalized + 1]
           a == Start
           A == Sources
<1>1. /\ pc = "deferred" /\ finalized < Len(deferred) /\ finalized' = finalized + 1 /\ deferred' = deferred
      /\ UNCHANGED <<cfg, pc, t, view, offset, pend, kern>>
    BY DEF FinalizeDeferred, collVars
<1>2. UNCHANGED batch /\ \A i \in DOMAIN batch : ~Untouched(i) => ~Untouched(i)'
    BY TouchedWhenBegun
<1>3. DOMAIN batch \subseteq DOMAIN mem /\ DOMAIN batch = 1 .. Len(batch) /\ DOMAIN mem = 1 .. Len(mem)
    BY MemFacts
<1>4. Len(deferred) \in Nat /\ finalized \in Nat /\ finalized + 1 \in finalized + 1 .. Len(deferred)
    BY <1>1, LenFacts DEF SyncInv
<1>5. DeferredRight(H, def)
    BY <1>4 DEF Filled
<1>6. PICK fails \in BOOLEAN : Effect(CopyFromPinned(a, def, FALSE, fails))
    BY DEF FinalizeDeferred, FinalFaults
<1>7. a.mem = mem /\ a.stream = stream /\ a.live = live /\ Sound(A, H, a) /\ Homes(H) /\ DOMAIN A = DOMAIN batch
    BY DEF Start, Filled, Sources
<1> HIDE DEF def, a, A
<1>8. /\ def.src \in DOMAIN a.mem /\ def.src \notin DOMAIN A /\ def.src # 0
      /\ def.dst \in DOMAIN a.mem /\ def.dst \in DOMAIN A
      /\ def.off \in Nat /\ def.off + Len(a.mem[def.src]) <= Len(a.mem[def.dst])
      /\ H[def.src] = <<def.dst, def.off>> /\ H[def.dst] = <<def.dst, 0>>
    BY <1>3, <1>5, <1>7 DEF DeferredRight, Homes
<1>9. \A n \in DOMAIN a.stream : a.stream[n].dst # def.src
    <2> SUFFICES ASSUME NEW n \in DOMAIN stream, stream[n].dst = def.src PROVE FALSE
        BY <1>7
    <2>1. StreamTo(stream[n].dst)
        BY DEF Filled
    <2> QED BY <1>1, <1>7, <1>8, <2>1 DEF StreamTo, Gathering
<1>10. Unread(a, def.dst)
    <2> SUFFICES ASSUME NEW n \in DOMAIN a.stream, a.stream[n].src = def.dst PROVE FALSE
        BY <1>3, <1>7, <1>8 DEF Unread
    <2>1. OpRight(A, H, a, a.stream[n])
        BY <1>7 DEF Sound
    <2>2. def.dst # 0
        BY <1>3, <1>7, <1>8
    <2> QED BY <1>8, <2>1, <2>2 DEF OpRight
<1>11. \A y \in 1 .. Len(a.mem[def.src]) :
          /\ Sure(A, H, a, def.src, y)
          /\ Ownerless(A, <<def.dst, def.off>>, y, a.live \ RequestsOfAll(def.bufs))
    <2> SUFFICES ASSUME NEW y \in 1 .. Len(mem[def.src])
                 PROVE  /\ Sure(A, H, a, def.src, y)
                        /\ Ownerless(A, <<def.dst, def.off>>, y, live \ RequestsOfAll(def.bufs))
        BY <1>7
    <2>1. /\ Sure(A, H, a, def.src, y)
          /\ Ownerless(A, <<def.dst, def.off>>, y, Requests \ RequestsOfAll(def.bufs))
        BY <1>5 DEF DeferredRight, a, A
    <2>2. live \ RequestsOfAll(def.bufs) \in SUBSET (Requests \ RequestsOfAll(def.bufs))
        BY DEF TypeInv
    <2> QED BY <2>1, <2>2, WantedOfFewer
<1> DEFINE onStream == FALSE
           b == CopyFromPinned(a, def, onStream, fails)
<1>12. /\ Better(A, H, a, b) /\ Adds(a, b, def.dst, def.src)
       /\ \A y \in 1 .. Len(a.mem[def.src]) : Sure(A, H, b, def.dst, def.off + y)
    <2> HIDE DEF onStream
    <2> QED BY <1>7, <1>8, <1>9, <1>10, <1>11, FromPinnedBetter
<1>13. Effect(b)
    BY <1>6
<1> HIDE DEF b
<1>14. Better(A, H, a, Start')
    BY <1>12, <1>13, EffectBetter DEF a, A
<1>15. Carries(H, H, Start, Start')
    BY <1>14, BetterCarries DEF a, A
<1>16. mem' = b.mem /\ stream' = b.stream /\ live' = b.live
    BY <1>13 DEF Effect
<1>17. (\A n \in DOMAIN stream : StreamTo(stream[n].dst))'
    <2>1. \A d, s : Adds(Start, b, d, s) /\ StreamTo(d)' => (\A n \in DOMAIN stream : StreamTo(stream[n].dst))'
        BY <1>16, QueuedTo
    <2>2. ASSUME NEW d, d = def.dst PROVE StreamTo(d)'
        BY <1>2, <1>5, <2>2 DEF StreamTo, DeferredRight
    <2>3. \E d, s : d = def.dst /\ s = def.src
        OBVIOUS
    <2> QED BY <1>12, <2>1, <2>2, <2>3 DEF a
<1>18. ASSUME NEW x \in Nat, x \in def.off + 1 .. def.off + Len(mem[def.src])
       PROVE  Sure(A, H, Start', def.dst, x)
    <2> DEFINE o == def.off
               l == Len(mem[def.src])
    <2>0. o \in Nat /\ l \in Nat
        BY <1>7, <1>8, LenFacts DEF SizeInv, AreCells
    <2> HIDE DEF o, l
    <2>1. x - o \in 1 .. l /\ o + (x - o) = x
        BY <1>18, <2>0 DEF o, l
    <2>2. Sure(A, H, b, def.dst, x)
        BY <1>7, <1>12, <2>1 DEF o, l
    <2>3. /\ Start'.mem = b.mem /\ Start'.stream = b.stream /\ Start'.live = b.live
        BY <1>16 DEF Start
    <2> QED BY <2>2, <2>3, SureOfSame
<1>19. \A n \in finalized + 1 .. Len(deferred) : Len(mem'[deferred[n].src]) = Len(mem[deferred[n].src])
    BY <1>2, <1>3, <1>15, DeferredStays DEF Filled
<1>20. ASSUME NEW i \in DOMAIN batch, NEW x \in Nat \ {0}, InDeferred(i, x)
       PROVE  InDeferred(i, x)' \/ Sure(A, H, Start', i, x)
    <2>1. PICK n \in finalized + 1 .. Len(deferred) :
             /\ deferred[n].dst = i
             /\ x \in deferred[n].off + 1 .. deferred[n].off + Len(mem[deferred[n].src])
        BY <1>20 DEF InDeferred
    <2>2. CASE n = finalized + 1
        BY <1>18, <2>1, <2>2 DEF def
    <2>3. CASE n # finalized + 1
        <3>1. n \in finalized' + 1 .. Len(deferred') /\ deferred'[n] = deferred[n]
            BY <1>1, <1>4, <2>1, <2>3
        <3>2. Len(mem'[deferred'[n].src]) = Len(mem[deferred[n].src])
            BY <1>19, <2>1, <3>1
        <3> QED BY <2>1, <3>1, <3>2 DEF InDeferred
    <2> QED BY <2>2, <2>3
<1>21. \A i, x : Handled(i, x)' <=> Handled(i, x)
    BY <1>1, <1>2, HandledSame
<1>22. ASSUME NEW i \in DOMAIN batch, NEW x \in Nat \ {0}, Handled(i, x)'
       PROVE  \/ Sure(Sources, H, Start, i, x) \/ InDeferred(i, x)' \/ Sure(Sources, H, Start', i, x)
              \/ i = t' /\ (InRegion(pend', x) \/ InRegion(kern', x))
    BY <1>1, <1>20, <1>21, <1>22 DEF Filled, A
<1>23. \A n \in finalized' + 1 .. Len(deferred') :
          n \in finalized + 1 .. Len(deferred) /\ deferred'[n] = deferred[n]
    BY <1>1, <1>4
<1> QED BY <1>2, <1>3, <1>15, <1>17, <1>22, <1>23, FillStep
-----------------------------------------------------------------------------
\* The cells of what is pending belong to its requests.
LEMMA BelongsToPending ==
    ASSUME TypeInv, pc \in Gathering, Sources[t] = Bufs, NEW p, PendingInv(p), RegionRight(p),
           NEW y \in 1 .. p.size, NEW L
    PROVE  Ownerless(Sources, <<t, p.off>>, y, L \ RequestsOfAll(p.bufs))
<1>1. \A k \in 1 .. Len(Bufs) : Covers(Bufs, k, p.off + y) => Bufs[k].first \in RequestsOfAll(p.bufs)
    BY KernelGathers
<1> QED BY <1>1 DEF Ownerless

NewBuffer == Len(mem) + 1

\* A new pinned buffer belongs to the part of the tensor that is pending.
WithNewBuffer(H) == [d \in Nat |-> IF d = NewBuffer THEN <<t, pend.off>> ELSE H[d]]

\* One more buffer is of no concern to the copies there are.
LEMMA BufferAdded ==
    ASSUME TypeInv, SyncInv, SizeInv, NEW H, Filled(H), NEW G, G = WithNewBuffer(H),
           NEW cells, IsSequence(cells), NEW a, IsState(a),
           a.mem = Append(mem, cells), a.stream = stream, a.live = live
    PROVE  /\ Carries(H, G, Start, a) /\ Unread(a, NewBuffer)
           /\ DOMAIN a.mem = DOMAIN mem \cup {NewBuffer} /\ a.mem[NewBuffer] = cells
           /\ NewBuffer \notin DOMAIN mem /\ NewBuffer \in Nat \ {0}
           /\ \A n \in DOMAIN stream : stream[n].dst # NewBuffer
<1> DEFINE new == NewBuffer
           A == Sources
           b == Start
<1>1. DOMAIN mem = 1 .. Len(mem) /\ Len(mem) \in Nat
    BY MemFacts
<1>2. /\ DOMAIN a.mem = DOMAIN mem \cup {new} /\ a.mem[new] = cells
      /\ \A i \in DOMAIN mem : a.mem[i] = mem[i]
    <2>1. /\ DOMAIN a.mem = 1 .. Len(mem) + 1 /\ a.mem[Len(mem) + 1] = cells
          /\ \A i \in 1 .. Len(mem) : a.mem[i] = mem[i]
        BY AppendIs DEF SyncInv
    <2> QED BY <1>1, <2>1 DEF NewBuffer
<1>3. new \notin DOMAIN mem /\ new \in Nat \ {0}
    BY <1>1 DEF NewBuffer
<1>4. \A d \in DOMAIN mem : G[d] = H[d]
    BY <1>1, <1>3 DEF WithNewBuffer
<1>5. b.mem = mem /\ b.stream = stream /\ b.live = live /\ Sound(A, H, b)
    BY DEF Start, Filled
<1> HIDE DEF new, A, b
<1>6. AreCells(a.mem)
    <2>1. \A i \in DOMAIN a.mem : IsSequence(a.mem[i])
        BY <1>2, <1>5 DEF Sound, AreCells
    <2> QED BY <2>1 DEF AreCells, IsState
<1>7. ASSUME NEW n \in DOMAIN stream
      PROVE  /\ OpRight(A, G, a, stream[n]) /\ Payload(a.mem, stream[n]) = Payload(mem, stream[n])
             /\ stream[n].dst # new /\ stream[n].src # new
    <2> DEFINE op == stream[n]
    <2>1. OpRight(A, H, b, op)
        BY <1>5 DEF Sound
    <2> HIDE DEF op
    <2>2. op.dst \in DOMAIN mem /\ (op.src # 0 => op.src \in DOMAIN mem)
        BY <1>5, <2>1 DEF OpRight
    <2>3. Payload(a.mem, op) = Payload(mem, op) /\ a.mem[op.dst] = mem[op.dst] /\ G[op.dst] = H[op.dst]
        BY <1>2, <1>4, <2>2 DEF Payload
    <2>4. OpRight(A, G, a, op)
        BY <1>2, <1>5, <2>1, <2>2, <2>3 DEF OpRight
    <2> QED BY <1>3, <2>2, <2>3, <2>4 DEF op
<1>8. Sound(A, G, a)
    BY <1>6, <1>7 DEF Sound
<1>9. ASSUME NEW d \in DOMAIN mem, NEW y, Sure(A, H, b, d, y) PROVE Sure(A, G, a, d, y)
    <2>1. Queued(b, d, y) => Queued(a, d, y)
        BY <1>5, <1>7 DEF Queued
    <2> QED BY <1>2, <1>4, <1>5, <1>9, <2>1 DEF Sure
<1>10. Carries(H, G, b, a)
    BY <1>2, <1>4, <1>5, <1>8, <1>9 DEF Carries, A
<1>11. Unread(a, new)
    BY <1>3, <1>7 DEF Unread
<1> QED BY <1>2, <1>3, <1>7, <1>10, <1>11 DEF new, b
-----------------------------------------------------------------------------
LEMMA WithMemory ==
    ASSUME NEW s, IsState(s), NEW m, IsSequence(m), NEW a, a = [s EXCEPT !.mem = m]
    PROVE  /\ a.stream = s.stream /\ a.live = s.live /\ a.cuda = s.cuda /\ a.mem = m /\ IsState(a)
BY DEF IsState

LEMMA StagedFrom ==
    ASSUME TypeInv, SyncInv, NEW F, NEW cells, cells = [i \in 1 .. pend.size |-> Junk]
    PROVE  \E a : /\ IsState(a) /\ a.mem = Append(mem, cells) /\ a.stream = stream
                  /\ a.live = live /\ a.cuda = FALSE /\ Kept(a, Staged(F))
                  /\ Staged(F) = CopyAll(a, pend.bufs, NewBuffer, "CPU_PINNED", 0, F)
<1> DEFINE s == Start
           m == Append(s.mem, cells)
           a == [s EXCEPT !.mem = m]
<1>1. s.mem = mem /\ s.stream = stream /\ s.live = live /\ s.cuda = FALSE /\ IsState(s)
    BY StartState DEF Start
<1>2. a.stream = stream /\ a.live = live /\ a.cuda = FALSE /\ a.mem = m /\ IsState(a)
    <2>1. IsSequence(m)
        BY AppendFacts DEF Start, SyncInv
    <2> HIDE DEF s, m
    <2> QED BY <1>1, <2>1, WithMemory
<1>3. Staged(F) = CopyAll(a, pend.bufs, NewBuffer, "CPU_PINNED", 0, F)
    BY DEF Staged, NewBuffer
<1> HIDE DEF a
<1>4. Kept(a, Staged(F))
    BY <1>2, <1>3, KeptByCopyAll DEF SyncInv
<1> QED BY <1>1, <1>2, <1>3, <1>4

(***************************************************************************)
(* The pending buffers in a new pinned buffer, or on their way to it.      *)
(***************************************************************************)
LEMMA StagedBetter ==
    ASSUME TypeInv, SyncInv, SizeInv, PosInv, pc \in Gathering,
           NEW H, Filled(H), NEW G, G = WithNewBuffer(H), NEW F, NEW st, st = Staged(F)
    PROVE  /\ Carries(H, G, Start, st) /\ Adds(Start, st, NewBuffer, 0)
           /\ NewBuffer \in DOMAIN st.mem /\ Len(st.mem[NewBuffer]) = pend.size
           /\ G[NewBuffer] = <<t, pend.off>> /\ pend.off \in Nat /\ pend.size \in Nat
           /\ NewBuffer \notin DOMAIN batch /\ NewBuffer # 0
           /\ \A n \in DOMAIN stream : stream[n].dst # NewBuffer
           /\ \A y \in 1 .. pend.size : Sure(Sources, G, st, NewBuffer, y)
           /\ st.live \subseteq live /\ (~st.cuda => st.stream = stream)
<1> DEFINE cells == [i \in 1 .. pend.size |-> Junk]
           new == NewBuffer
           A == Sources
           bufs == pend.bufs
           base == 0
           place == "CPU_PINNED"
<1>1. /\ bufs \in Seq(Collectable) /\ pend.size = Total(bufs) /\ pend.size \in Nat /\ pend.off \in Nat
      /\ RegionRight(pend)
    BY DEF PendingInv, TypeInv, PosInv
<1>2. IsSequence(cells) /\ Len(cells) = pend.size
    <2>1. cells \in Seq({Junk}) /\ Len(cells) = pend.size
        BY <1>1
    <2> HIDE DEF cells
    <2> QED BY <2>1 DEF IsSequence
<1>3. PICK a : /\ IsState(a) /\ a.mem = Append(mem, cells) /\ a.stream = stream
               /\ a.live = live /\ a.cuda = FALSE /\ Kept(a, st)
               /\ st = CopyAll(a, bufs, new, place, base, F)
    BY StagedFrom
<1> HIDE DEF cells, place, bufs
<1>4. /\ Carries(H, G, Start, a) /\ Unread(a, new)
      /\ DOMAIN a.mem = DOMAIN mem \cup {new} /\ a.mem[new] = cells
      /\ new \notin DOMAIN mem /\ new \in Nat \ {0}
      /\ \A n \in DOMAIN stream : stream[n].dst # new
    BY <1>2, <1>3, BufferAdded
<1>5. G[new] = <<t, pend.off>>
    BY <1>4 DEF WithNewBuffer
<1>6. A[t] = Bufs
    BY AtHome
<1> HIDE DEF new, A
<1>7. \A n \in 1 .. Len(bufs) : BufferAt(A[G[new][1]], G[new][2] + (base + SizeBefore(bufs, n)), bufs[n])
    <2> SUFFICES ASSUME NEW n \in 1 .. Len(bufs)
                 PROVE  BufferAt(A[G[new][1]], G[new][2] + (base + SizeBefore(bufs, n)), bufs[n])
        OBVIOUS
    <2> DEFINE z == SizeBefore(bufs, n)
    <2>1. z \in Nat
        <3>1. n - 1 \in 0 .. Len(bufs)
            BY <1>1
        <3> QED BY <1>1, <3>1, SizesAreNat, UpToFacts DEF SizeBefore, UpTo
    <2>2. BufferAt(Bufs, pend.off + z, bufs[n])
        BY <1>1 DEF RegionRight, bufs
    <2> HIDE DEF z
    <2>3. base + z = z
        BY <2>1
    <2> QED BY <1>5, <1>6, <2>2, <2>3 DEF z
<1>8. base \in Nat /\ G[new][2] \in Nat /\ new \in DOMAIN a.mem /\ Sound(A, G, a)
    BY <1>1, <1>4, <1>5 DEF Carries, A
<1> HIDE DEF base
<1>9. /\ Better(A, G, a, st) /\ Adds(a, st, new, 0)
      /\ \A y \in 1 .. Total(bufs) : Sure(A, G, st, new, base + y)
    <2>1. LET c == CopyAll(a, bufs, new, place, base, F)
          IN  /\ Better(A, G, a, c) /\ Adds(a, c, new, 0)
              /\ \A y \in 1 .. Total(bufs) : Sure(A, G, c, new, base + y)
        BY <1>1, <1>4, <1>7, <1>8, CopyAllBetter
    <2> QED BY <1>3, <2>1
<1>10. Carries(H, G, Start, st)
    BY <1>4, <1>9, CarriesBoth DEF A
<1>11. Adds(Start, st, new, 0)
    BY <1>3, <1>9 DEF Adds, Start
<1>12. new \in DOMAIN st.mem /\ Len(st.mem[new]) = pend.size
    BY <1>2, <1>4, <1>9 DEF Better, SameLengths
<1>13. new \notin DOMAIN batch
    BY <1>4, MemFacts
<1>14. \A y \in 1 .. pend.size : Sure(A, G, st, new, y)
    <2> SUFFICES ASSUME NEW y \in 1 .. pend.size PROVE Sure(A, G, st, new, y)
        OBVIOUS
    <2>1. base + y = y
        BY <1>1 DEF base
    <2> QED BY <1>1, <1>9, <2>1
<1>15. st.live \subseteq live /\ (~st.cuda => st.stream = stream)
    BY <1>3 DEF Kept
<1> QED BY <1>1, <1>4, <1>5, <1>10, <1>11, <1>12, <1>13, <1>14, <1>15 DEF new, A
-----------------------------------------------------------------------------
\* From the pending buffers in pinned memory to the tensor.
LEMMA StagedMoves ==
    ASSUME TypeInv, SyncInv, SizeInv, PosInv, pc \in Gathering,
           NEW H, Filled(H), NEW G, G = WithNewBuffer(H), NEW F, NEW st, st = Staged(F), ~st.cuda,
           NEW onStream, NEW fails \in BOOLEAN, NEW b, b = CopyFromPinned(st, Deferred, onStream, fails)
    PROVE  /\ Carries(H, G, Start, b) /\ Adds(Start, b, t, NewBuffer)
           /\ \A x \in Nat : InRegion(pend, x) => Sure(Sources, G, b, t, x)
<1> DEFINE def == Deferred
           A == Sources
           new == NewBuffer
<1>1. def.src = new /\ def.dst = t /\ def.off = pend.off /\ def.bufs = pend.bufs
    BY DEF Deferred, NewBuffer
<1>2. /\ t \in DOMAIN batch /\ t \in DOMAIN Start.mem /\ H[t][1] = t /\ H[t][2] = 0 /\ A[t] = Bufs
      /\ Unread(Start, t)
    BY AtHome
<1>3. /\ DOMAIN A = DOMAIN batch /\ Start.mem = mem /\ Start.stream = stream /\ H[t] = <<t, 0>>
    BY <1>2 DEF Sources, Start, Filled, Homes
<1>4. /\ Carries(H, G, Start, st) /\ new \in DOMAIN st.mem /\ Len(st.mem[new]) = pend.size
      /\ G[new] = <<t, pend.off>> /\ pend.off \in Nat /\ pend.size \in Nat
      /\ new \notin DOMAIN batch /\ new # 0
      /\ \A n \in DOMAIN stream : stream[n].dst # new
      /\ \A y \in 1 .. pend.size : Sure(A, G, st, new, y)
      /\ st.live \subseteq live /\ st.stream = stream
    BY StagedBetter
<1>5. PendingInv(pend) /\ RegionRight(pend)
    BY DEF TypeInv, PosInv
<1>6. pend.off + pend.size <= Len(mem[t])
    <2>1. t <= Len(batch) /\ Len(mem[t]) = view[t].bytes
        BY DEF TypeInv, SizeInv, Gathering
    <2> QED BY <1>5, <2>1 DEF PendingInv
<1>7. b = CopyFromPinned(st, def, onStream, fails)
    OBVIOUS
<1> HIDE DEF def, A, new
<1>8. Sound(A, G, st) /\ t \in DOMAIN st.mem /\ G[t] = <<t, 0>> /\ Len(st.mem[t]) = Len(mem[t])
    BY <1>2, <1>3, <1>4 DEF Carries, A
<1>9. Unread(st, t)
    BY <1>2, <1>3, <1>4 DEF Unread
<1>10. \A y \in 1 .. pend.size : Ownerless(A, <<t, pend.off>>, y, st.live \ RequestsOfAll(pend.bufs))
    BY <1>2, <1>5, BelongsToPending DEF A
<1>11. /\ Better(A, G, st, b) /\ Adds(st, b, def.dst, def.src)
       /\ \A y \in 1 .. Len(st.mem[def.src]) : Sure(A, G, b, def.dst, def.off + y)
    <2>1. LET c == CopyFromPinned(st, def, onStream, fails)
          IN  /\ Better(A, G, st, c) /\ Adds(st, c, def.dst, def.src)
              /\ \A y \in 1 .. Len(st.mem[def.src]) : Sure(A, G, c, def.dst, def.off + y)
        BY <1>1, <1>2, <1>3, <1>4, <1>6, <1>8, <1>9, <1>10, FromPinnedBetter
    <2> QED BY <1>7, <2>1
<1>12. Carries(H, G, Start, b)
    BY <1>4, <1>11, CarriesBoth DEF A
<1>13. Adds(Start, b, t, new)
    BY <1>1, <1>3, <1>4, <1>11 DEF Adds
<1>14. ASSUME NEW x \in Nat, InRegion(pend, x) PROVE Sure(A, G, b, t, x)
    <2>1. x - pend.off \in 1 .. pend.size /\ pend.off + (x - pend.off) = x
        BY <1>4, <1>14 DEF InRegion
    <2> QED BY <1>1, <1>4, <1>11, <2>1
<1> QED BY <1>12, <1>13, <1>14 DEF A, new

\* As Start' is b.
LEMMA CarriesEffect ==
    ASSUME NEW H, NEW G, NEW b, Carries(H, G, Start, b), Effect(b)
    PROVE  /\ Carries(H, G, Start, Start')
           /\ \A A, K, d, y : Sure(A, K, b, d, y) <=> Sure(A, K, Start', d, y)
<1> DEFINE c == Start'
<1>1. /\ c.mem = b.mem /\ c.stream = b.stream /\ c.live = b.live /\ c.cuda = FALSE
      /\ c = [mem |-> c.mem, stream |-> c.stream, live |-> c.live, cuda |-> c.cuda]
    BY DEF Start, Effect
<1> HIDE DEF c
<1>2. IsState(c)
    BY <1>1 DEF Carries, Sound, IsState
<1>3. \A A, K, d, y : Sure(A, K, b, d, y) <=> Sure(A, K, c, d, y)
    BY <1>1, SureOfSame
<1>4. Sound(Sources, G, c)
    BY <1>1, <1>2, SureOfSame DEF Carries
<1> QED BY <1>1, <1>3, <1>4 DEF Carries, c

LEMMA FillFlushNow ==
    ASSUME TypeInv, SyncInv, SizeInv, PosInv, [Next]_vars, NEW H, Filled(H), FlushPinnedNow,
           NEW G, G = WithNewBuffer(H)
    PROVE  Filled(G)'
<1>1. /\ pc = "pinned" /\ pc' = "kernel" /\ pc \in Gathering /\ pc' \in Gathering
      /\ UNCHANGED <<cfg, t, view, offset, kern, deferred, finalized>>
    BY DEF FlushPinnedNow, Gathering, finVars
<1>2. UNCHANGED batch /\ \A i \in DOMAIN batch : ~Untouched(i) => ~Untouched(i)'
    BY TouchedWhenBegun
<1>3. DOMAIN batch \subseteq DOMAIN mem
    BY MemFacts
<1>4. PICK F \in SUBSET Breakable(pend.bufs, "CPU_PINNED"), fails \in BOOLEAN :
         ~Staged(F).cuda /\ Effect(CopyFromPinned(Staged(F), Deferred, cfg.copyOnStream, fails))
    BY DEF FlushPinnedNow, FinalFaults
<1> DEFINE st == Staged(F)
           onStream == cfg.copyOnStream
           b == CopyFromPinned(st, Deferred, onStream, fails)
<1>5. ~st.cuda /\ Effect(b)
    BY <1>4
<1> HIDE DEF st, onStream
<1>6. /\ Carries(H, G, Start, b) /\ Adds(Start, b, t, NewBuffer)
      /\ \A x \in Nat : InRegion(pend, x) => Sure(Sources, G, b, t, x)
    BY <1>1, <1>5, StagedMoves DEF st
<1> HIDE DEF b
<1>7. /\ Carries(H, G, Start, Start')
      /\ \A A, K, d, y : Sure(A, K, b, d, y) <=> Sure(A, K, Start', d, y)
    BY <1>5, <1>6, CarriesEffect
<1>8. (\A n \in DOMAIN stream : StreamTo(stream[n].dst))'
    <2>1. stream' = b.stream
        BY <1>5 DEF Effect
    <2>2. \A d, s : Adds(Start, b, d, s) /\ StreamTo(d)' => (\A n \in DOMAIN stream : StreamTo(stream[n].dst))'
        BY <2>1, QueuedTo
    <2>3. ASSUME NEW d, d = t PROVE StreamTo(d)'
        <3>1. d \in DOMAIN batch /\ ~Untouched(d)
            BY <1>1, <2>3, AtHome
        <3> QED BY <1>2, <3>1 DEF StreamTo
    <2>4. \E d, s : d = t /\ s = NewBuffer
        OBVIOUS
    <2> QED BY <1>6, <2>2, <2>3, <2>4
<1>9. \A i, x : InDeferred(i, x) => InDeferred(i, x)'
    BY <1>1, <1>2, <1>3, <1>7, InDeferredStays DEF StillDeferred
<1>10. \A i, x : Handled(i, x)' <=> Handled(i, x)
    BY <1>1, <1>2, HandledSame
<1>11. ASSUME NEW i \in DOMAIN batch, NEW x \in Nat \ {0}, Handled(i, x)'
       PROVE  \/ Sure(Sources, H, Start, i, x) \/ InDeferred(i, x)' \/ Sure(Sources, G, Start', i, x)
              \/ i = t' /\ (InRegion(pend', x) \/ InRegion(kern', x))
    BY <1>1, <1>6, <1>7, <1>9, <1>10, <1>11 DEF Filled
<1>12. \A n \in finalized' + 1 .. Len(deferred') :
          n \in finalized + 1 .. Len(deferred) /\ deferred'[n] = deferred[n]
    BY <1>1
<1> QED BY <1>2, <1>3, <1>7, <1>8, <1>11, <1>12, FillStep
-----------------------------------------------------------------------------
LEMMA FillFlushDeferred ==
    ASSUME TypeInv, SyncInv, SizeInv, PosInv, [Next]_vars, NEW H, Filled(H), FlushPinnedDeferred,
           NEW G, G = WithNewBuffer(H)
    PROVE  Filled(G)'
<1>1. /\ pc = "pinned" /\ pc' = "kernel" /\ pc \in Gathering /\ pc' \in Gathering
      /\ UNCHANGED <<cfg, t, view, offset, kern, finalized>>
      /\ deferred' = Append(deferred, Deferred)
    BY DEF FlushPinnedDeferred, Gathering
<1>2. UNCHANGED batch /\ \A i \in DOMAIN batch : ~Untouched(i) => ~Untouched(i)'
    BY TouchedWhenBegun
<1>3. DOMAIN batch \subseteq DOMAIN mem
    BY MemFacts
<1>4. PICK F : Effect(Staged(F))
    BY DEF FlushPinnedDeferred
<1> DEFINE b == Staged(F)
           new == NewBuffer
           def == Deferred
           N == Len(deferred)
<1>5. /\ Carries(H, G, Start, b) /\ Adds(Start, b, new, 0)
      /\ new \in DOMAIN b.mem /\ Len(b.mem[new]) = pend.size
      /\ G[new] = <<t, pend.off>> /\ pend.off \in Nat /\ pend.size \in Nat
      /\ new \notin DOMAIN batch
      /\ \A y \in 1 .. pend.size : Sure(Sources, G, b, new, y)
    BY <1>1, StagedBetter
<1>6. mem' = b.mem /\ stream' = b.stream /\ Effect(b)
    BY <1>4 DEF Effect
<1>7. def.src = new /\ def.dst = t /\ def.off = pend.off /\ def.bufs = pend.bufs
    BY DEF Deferred, NewBuffer
<1>8. /\ N \in Nat /\ Len(deferred') = N + 1 /\ deferred'[N + 1] = def
      /\ \A n \in 1 .. N : deferred'[n] = deferred[n]
    <2>1. /\ IsSequence(deferred') /\ Len(deferred) \in Nat /\ DOMAIN deferred' = 1 .. Len(deferred) + 1
          /\ \A n \in 1 .. Len(deferred) : deferred'[n] = deferred[n]
          /\ deferred'[Len(deferred) + 1] = Deferred
        BY <1>1, AppendIs DEF SyncInv
    <2>2. Len(deferred') = Len(deferred) + 1
        BY <1>1, AppendFacts DEF SyncInv
    <2> QED BY <2>1, <2>2
<1> HIDE DEF b, new, def, N
<1>9. /\ Carries(H, G, Start, Start')
      /\ \A A, K, d, y : Sure(A, K, b, d, y) <=> Sure(A, K, Start', d, y)
    BY <1>5, <1>6, CarriesEffect
<1>10. (\A n \in DOMAIN stream : StreamTo(stream[n].dst))'
    <2>1. \A d, s : Adds(Start, b, d, s) /\ StreamTo(d)' => (\A n \in DOMAIN stream : StreamTo(stream[n].dst))'
        BY <1>6, QueuedTo
    <2>2. ASSUME NEW d, d = new PROVE StreamTo(d)'
        <3>1. deferred' # <<>>
            BY <1>8
        <3> QED BY <1>1, <1>2, <1>5, <2>2, <3>1 DEF StreamTo
    <2>3. \E d, s : d = new /\ s = 0
        OBVIOUS
    <2> QED BY <1>5, <2>1, <2>2, <2>3
<1>11. finalized \in Nat /\ finalized <= N
    BY DEF SyncInv, TypeInv, N
<1>12. \A i, x : InDeferred(i, x) => InDeferred(i, x)'
    <2>1. StillDeferred
        BY <1>1, <1>8, <1>11 DEF StillDeferred, N
    <2> QED BY <1>1, <1>2, <1>3, <1>9, <2>1, InDeferredStays
<1>13. \A i, x : Handled(i, x)' <=> Handled(i, x)
    BY <1>1, <1>2, HandledSame
<1>14. ASSUME NEW i, NEW x, i = t, InRegion(pend, x) PROVE InDeferred(i, x)'
    <2>1. N + 1 \in finalized' + 1 .. Len(deferred')
        BY <1>1, <1>8, <1>11
    <2>2. deferred'[N + 1].dst = t /\ x \in pend.off + 1 .. pend.off + Len(mem'[new])
        BY <1>5, <1>6, <1>7, <1>8, <1>14 DEF InRegion
    <2>3. deferred'[N + 1].off = pend.off /\ deferred'[N + 1].src = new
        BY <1>7, <1>8
    <2>4. \E n \in finalized' + 1 .. Len(deferred') :
             /\ deferred'[n].dst = i
             /\ x \in deferred'[n].off + 1 .. deferred'[n].off + Len(mem'[deferred'[n].src])
        BY <1>14, <2>1, <2>2, <2>3
    <2> QED BY <2>4 DEF InDeferred
<1>15. ASSUME NEW i \in DOMAIN batch, NEW x \in Nat \ {0}, Handled(i, x)'
       PROVE  \/ Sure(Sources, H, Start, i, x) \/ InDeferred(i, x)'
              \/ i = t' /\ (InRegion(pend', x) \/ InRegion(kern', x))
    <2>1. \/ Sure(Sources, H, Start, i, x) \/ InDeferred(i, x)
          \/ i = t /\ (InRegion(pend, x) \/ InRegion(kern, x))
        BY <1>13, <1>15 DEF Filled
    <2>2. i = t /\ InRegion(pend, x) => InDeferred(i, x)'
        BY <1>14
    <2> QED BY <1>1, <1>12, <2>1, <2>2
<1>16. Sources' = Sources /\ Requests' = Requests
    BY <1>2, SameSources
<1>17. ASSUME NEW d, d = def PROVE DeferredRight(G, d)'
    <2>1. t \in DOMAIN batch /\ ~Untouched(t) /\ Sources[t] = Bufs
        BY <1>1, AtHome
    <2>2. \A i \in DOMAIN batch : i = t => ~Untouched(i)'
        BY <1>2, <2>1
    <2>3. d.src = new /\ d.dst = t /\ d.off = pend.off /\ d.bufs = pend.bufs
        BY <1>7, <1>17
    <2>4. pend.off + pend.size <= Len(mem'[t])
        <3>1. t <= Len(batch) /\ Len(mem[t]) = view[t].bytes /\ PendingInv(pend)
            BY <1>1 DEF TypeInv, SizeInv, Gathering
        <3>2. Len(mem'[t]) = Len(mem[t])
            BY <1>3, <1>5, <1>6, <2>1 DEF Carries, Start
        <3> QED BY <3>1, <3>2 DEF PendingInv
    <2>5. \A y \in 1 .. pend.size :
             Ownerless(Sources, <<t, pend.off>>, y, Requests \ RequestsOfAll(pend.bufs))
        BY <1>1, <2>1, BelongsToPending DEF TypeInv, PosInv
    <2>6. \A y \in 1 .. pend.size : Sure(Sources, G, Start', new, y)
        BY <1>5, <1>9
    <2>7. /\ d.src \in DOMAIN mem' /\ d.src \notin DOMAIN batch' /\ G[d.src] = <<d.dst, d.off>>
          /\ d.dst \in DOMAIN batch' /\ ~Untouched(d.dst)'
          /\ d.off \in Nat /\ d.off + Len(mem'[d.src]) <= Len(mem'[d.dst])
        BY <1>2, <1>5, <1>6, <2>1, <2>2, <2>3, <2>4
    <2>8. \A y \in 1 .. Len(mem'[d.src]) :
             /\ Sure(Sources', G, Start', d.src, y)
             /\ Ownerless(Sources', <<d.dst, d.off>>, y, Requests' \ RequestsOfAll(d.bufs))
        BY <1>5, <1>6, <1>16, <2>3, <2>5, <2>6
    <2> QED BY <2>7, <2>8 DEF DeferredRight
<1>18. ASSUME NEW n \in finalized' + 1 .. Len(deferred')
       PROVE  \/ n \in finalized + 1 .. Len(deferred) /\ deferred'[n] = deferred[n]
              \/ DeferredRight(G, deferred[n])'
    <2>1. CASE n = N + 1
        <3>1. deferred'[n] = def
            BY <1>8, <2>1
        <3> QED BY <1>17, <3>1 DEF DeferredRight
    <2>2. CASE n # N + 1
        BY <1>1, <1>8, <1>11, <2>2 DEF N
    <2> QED BY <2>1, <2>2
<1> QED BY <1>2, <1>3, <1>9, <1>10, <1>15, <1>18, FillStep
-----------------------------------------------------------------------------
LEMMA FillInit == Init => FillInv
<1> SUFFICES ASSUME Init PROVE FillInv
    OBVIOUS
<1> DEFINE H == [d \in Nat |-> <<d, 0>>]
<1>1. /\ pc = "begin" /\ t = 1 /\ stream = <<>> /\ deferred = <<>> /\ finalized = 0 /\ FromScenario
    BY DEF Init, FromScenario
<1>2. DOMAIN batch = 1 .. Len(batch) /\ Len(batch) \in Nat
    BY <1>1, BatchFacts
<1>3. DOMAIN stream = {} /\ finalized + 1 .. Len(deferred) = {}
    BY <1>1
<1>4. IsState(Start) /\ AreCells(Start.mem) /\ Start.stream = stream
    BY SyncInit, SizeInit, StartFacts DEF Start
<1>5. Homes(H)
    BY <1>2 DEF Homes
<1>6. Sound(Sources, H, Start)
    BY <1>3, <1>4 DEF Sound
<1>7. \A i \in DOMAIN batch : \A x \in Nat \ {0} : ~Handled(i, x)
    BY <1>1, <1>2 DEF Handled, Gathering
<1> HIDE DEF H
<1>8. Filled(H)
    BY <1>3, <1>5, <1>6, <1>7 DEF Filled
<1> QED BY <1>8 DEF FillInv

LEMMA FillInvStep ==
    TypeInv /\ SyncInv /\ SizeInv /\ PosInv /\ FillInv /\ [Next]_vars => FillInv'
<1> SUFFICES ASSUME TypeInv, SyncInv, SizeInv, PosInv, FillInv, [Next]_vars PROVE FillInv'
    OBVIOUS
<1>1. PICK H : Filled(H)
    BY DEF FillInv
<1> SUFFICES \E G : Filled(G)'
    BY DEF FillInv
<1>2. CASE \/ BeginReused \/ GetNextContiguousInput \/ InputsExhausted
           \/ SkipFlushPinned \/ SkipFlushKernel
           \/ FinalizeSync \/ FinalizeReady \/ FinalizeReturn \/ CallerSync \/ Terminating
           \/ BufferReadyFires \/ UNCHANGED vars
    BY <1>1, <1>2, FillQuietSteps
<1>3. CASE BeginGiven \/ BeginAllocated
    BY <1>1, <1>3, FillBegins
<1>4. CASE BeginFailed
    BY <1>1, <1>4, FillFails
<1>5. CASE FlushPinnedDirect \/ FlushKernelDirect
    BY <1>1, <1>5, FillFlushDirect
<1>6. CASE FlushPinnedNow \/ FlushPinnedDeferred
    <2>1. ASSUME NEW G, G = WithNewBuffer(H) PROVE Filled(G)'
        BY <1>1, <1>6, <2>1, FillFlushNow, FillFlushDeferred
    <2>2. \E G : G = WithNewBuffer(H)
        OBVIOUS
    <2> QED BY <2>1, <2>2
<1>7. CASE LaunchCopyKernel
    BY <1>1, <1>7, FillLaunch
<1>8. CASE SetTooLarge
    BY <1>1, <1>8, FillSetTooLarge
<1>9. CASE SetDirect
    BY <1>1, <1>9, FillSetDirect
<1>10. CASE SetPendingPinned \/ SetPendingKernel
    BY <1>1, <1>10, FillSetsPending
<1>11. CASE FinalizeDeferred
    BY <1>1, <1>11, FillFinalizes
<1>12. CASE RunCopy
    BY <1>1, <1>12, FillRuns
<1> QED BY <1>2, <1>3, <1>4, <1>5, <1>6, <1>7, <1>8, <1>9, <1>10, <1>11, <1>12 DEF Next
-----------------------------------------------------------------------------
\* A part of a sequence that has the elements of another is that sequence.
LEMMA PartIs ==
    ASSUME NEW cells, IsSequence(cells), NEW o \in Nat, NEW V, NEW s \in Seq(V),
           \A y \in 1 .. Len(s) : o + y \in 1 .. Len(cells) /\ cells[o + y] = s[y]
    PROVE  SubSeq(cells, o + 1, o + Len(s)) = s
<1> DEFINE n == Len(s)
           p == SubSeq(cells, o + 1, o + n)
<1>1. PICK S : cells \in Seq(S)
    BY DEF IsSequence
<1>2. n \in Nat /\ Len(cells) \in Nat
    BY <1>1
<1>3. CASE n = 0
    <2>1. s = <<>>
        BY <1>3
    <2>2. p = <<>>
        BY <1>1, <1>3
    <2> QED BY <2>1, <2>2
<1>4. CASE n # 0
    <2>1. n \in 1 .. n /\ o + n \in 1 .. Len(cells) /\ o + 1 \in 1 .. Len(cells)
        BY <1>2, <1>4
    <2>2. p \in Seq(S) /\ Len(p) = n /\ \A y \in 1 .. n : p[y] = cells[o + y]
        BY <1>1, <1>2, <2>1
    <2> QED BY <2>2, SeqEqual
<1> QED BY <1>3, <1>4
-----------------------------------------------------------------------------
\* A byte of an input in use as it is.
LEMMA ReusedByte ==
    ASSUME TypeInv, ViewInv, NEW i \in DOMAIN batch, view[i].kind = "reused", IsTensor(batch[i]),
           NEW r \in Requests, NEW y \in 1 .. Len(InputBytes(batch[i], r))
    PROVE  LET o == InputOffset(batch[i], r)
           IN  /\ o + y \in 1 .. Len(Cells(i)) /\ Cells(i)[o + y] = InputBytes(batch[i], r)[y]
<1> DEFINE tensor == batch[i]
           bufs == Collected(tensor)
           o == InputOffset(tensor, r)
           use == InUse(i)
           cells == Bytes([place |-> view[i].place, addr |-> view[i].addr, size |-> view[i].bytes])
           input == InputBytes(tensor, r)
<1>1. /\ cells = [z \in 1 .. view[i].bytes |-> <<view[i].place, view[i].addr + z - 1>>]
      /\ Cells(i) = cells
    BY DEF Bytes, Cells
<1>2. /\ Sources[i] = bufs /\ view[i].bytes = Total(bufs) /\ BufferAt(bufs, 0, use)
      /\ use.place = view[i].place /\ use.addr = view[i].addr /\ use.size = view[i].bytes
    BY DEF ViewInv, Sources, InUse
<1> HIDE DEF tensor, bufs, o, use, input, cells
<1>3. PICK k \in 1 .. Len(bufs) :
         /\ Covers(bufs, k, o + y) /\ bufs[k].first = r
         /\ input[y] = ByteOf(bufs[k], (o + y) - UpTo(bufs, k - 1))
    BY ByteLocated DEF tensor, bufs, o, input
<1>4. /\ o \in Nat /\ o + Len(input) <= Total(bufs) /\ Len(input) \in Nat /\ Total(bufs) \in Nat
    <2>1. o \in Nat /\ InputEnd(tensor, r) = o + Len(input)
        BY OffsetFacts DEF tensor, o, input, InputEnd
    <2>2. InputEnd(tensor, r) <= Total(bufs)
        BY EndWithin DEF tensor, bufs
    <2>3. Len(input) \in Nat
        BY InputBytesLength DEF tensor, input
    <2>4. view[i].bytes \in Nat
        BY DEF TypeInv, Views
    <2> QED BY <1>2, <2>1, <2>2, <2>3, <2>4
<1>5. y \in 1 .. Len(input)
    BY DEF input, tensor
<1>6. o + y \in 1 .. Total(bufs) /\ 0 + (o + y) = o + y
    BY <1>4, <1>5
<1>7. Covers(bufs, k, 0 + (o + y))
    BY <1>3, <1>6
<1>8. ByteOf(bufs[k], (0 + (o + y)) - UpTo(bufs, k - 1)) = ByteOf(use, o + y)
    BY <1>2, <1>6, <1>7 DEF BufferAt
<1>9. input[y] = <<view[i].place, view[i].addr + (o + y) - 1>>
    BY <1>2, <1>3, <1>6, <1>8 DEF ByteOf
<1>10. cells[o + y] = input[y]
    BY <1>1, <1>2, <1>6, <1>9
<1>11. Len(cells) = Total(bufs)
    BY <1>1, <1>2, <1>4
<1> QED BY <1>1, <1>6, <1>10, <1>11 DEF o, tensor, input

\* A byte that was copied.
LEMMA CopiedByte ==
    ASSUME TypeInv, SyncInv, EndInv, pc = "consumed", NEW H, Filled(H),
           NEW i \in DOMAIN batch, i < t, view[i].kind = "buffer", IsTensor(batch[i]),
           NEW r \in live, r \in Requests, Iterated(batch[i], r),
           NEW y \in 1 .. Len(InputBytes(batch[i], r))
    PROVE  LET o == InputOffset(batch[i], r)
           IN  /\ o + y \in 1 .. Len(Cells(i)) /\ Cells(i)[o + y] = InputBytes(batch[i], r)[y]
<1> DEFINE tensor == batch[i]
           bufs == Collected(tensor)
           o == InputOffset(tensor, r)
           input == InputBytes(tensor, r)
<1>1. Cells(i) = mem[i] /\ Sources[i] = bufs
    BY DEF Cells, Sources
<1>2. DOMAIN stream = {} /\ finalized = Len(deferred)
    BY DEF EndInv
<1>3. i \in Nat /\ i # t
    BY BatchFacts DEF TypeInv
<1> HIDE DEF bufs
<1>4. o \in Nat /\ Len(input) \in Nat /\ InputEnd(tensor, r) = o + Len(input)
    BY OffsetFacts, InputBytesLength DEF InputEnd
<1>5. o + y \in Nat \ {0} /\ o + y <= InputEnd(tensor, r) /\ 0 + (o + y) = o + y
    <2> HIDE DEF o, input
    <2>1. y \in 1 .. Len(input)
        BY DEF input
    <2> QED BY <1>4, <2>1
<1>6. Handled(i, o + y)
    BY <1>5 DEF Handled
<1>7. PICK k \in 1 .. Len(bufs) :
         /\ Covers(bufs, k, o + y) /\ bufs[k].first = r
         /\ input[y] = ByteOf(bufs[k], (o + y) - UpTo(bufs, k - 1))
    BY ByteLocated DEF bufs
<1> HIDE DEF o, input, tensor
<1>8. ~InDeferred(i, o + y)
    <2>1. Len(deferred) \in Nat => finalized + 1 .. Len(deferred) = {}
        BY <1>2
    <2>2. Len(deferred) \in Nat
        BY LenFacts DEF SyncInv
    <2> QED BY <2>1, <2>2 DEF InDeferred
<1>9. Sure(Sources, H, Start, i, o + y)
    BY <1>3, <1>5, <1>6, <1>8 DEF Filled
<1>10. Start.mem = mem /\ Start.live = live /\ Start.stream = stream /\ H[i] = <<i, 0>>
    BY DEF Filled, Homes, Start
<1>11. ~Queued(Start, i, o + y)
    BY <1>2, <1>10 DEF Queued
<1>12. Covers(bufs, k, 0 + (o + y))
    BY <1>5, <1>7
<1>13. ~Ownerless(Sources, H[i], o + y, live)
    BY <1>1, <1>7, <1>10, <1>12 DEF Ownerless
<1>14. o + y \in 1 .. Len(mem[i]) /\ Wanted(Sources, H[i], o + y, live, mem[i][o + y])
    BY <1>9, <1>10, <1>11, <1>13 DEF Sure
<1>15. mem[i][o + y] = ByteOf(bufs[k], (0 + (o + y)) - UpTo(bufs, k - 1))
    BY <1>1, <1>7, <1>10, <1>12, <1>14 DEF Wanted
<1> QED BY <1>1, <1>5, <1>7, <1>14, <1>15 DEF o, input, tensor
-----------------------------------------------------------------------------
\* What the caller finds in a tensor is a sequence of bytes.
LEMMA CellsAreSequence ==
    ASSUME TypeInv, SyncInv, AreCells(mem), NEW i \in DOMAIN batch
    PROVE  IsSequence(Cells(i))
<1>1. CASE view[i].kind = "reused"
    <2>1. Cells(i) = [z \in 1 .. view[i].bytes |-> <<view[i].place, view[i].addr + z - 1>>]
        BY <1>1 DEF Cells, Bytes
    <2>2. view[i].bytes \in Nat
        BY DEF TypeInv, Views
    <2> DEFINE n == view[i].bytes
               e(z) == <<view[i].place, view[i].addr + z - 1>>
               V == {e(z) : z \in 1 .. n}
    <2> HIDE DEF e
    <2>3. [z \in 1 .. n |-> e(z)] \in [1 .. n -> V]
        OBVIOUS
    <2> HIDE DEF V, n
    <2>4. [z \in 1 .. n |-> e(z)] \in Seq(V)
        BY <2>2, <2>3 DEF n
    <2>5. Cells(i) \in Seq(V)
        BY <2>1, <2>4 DEF n, e
    <2> QED BY <2>5 DEF IsSequence
<1>2. CASE view[i].kind # "reused"
    <2>1. Cells(i) = mem[i] /\ i \in DOMAIN mem
        BY <1>2, MemFacts DEF Cells
    <2> QED BY <2>1 DEF AreCells
<1> QED BY <1>1, <1>2

\* At the end no byte is pending or queued: all that were handled are there.
LEMMA GatheredAtEnd ==
    ASSUME TypeInv, SyncInv, SizeInv, ViewInv, EndInv, FillInv
    PROVE  Gathered
<1> SUFFICES ASSUME pc = "consumed", NEW i \in DOMAIN batch, NEW r \in live, Iterated(batch[i], r)
             PROVE  GatheredFrom(i, r)
    BY DEF Gathered
<1>1. PICK H : Filled(H)
    BY DEF FillInv
<1>2. r \in Requests
    BY DEF TypeInv
<1>3. i < t /\ ~Untouched(i)
    <2>1. /\ t \in 1 .. Len(batch) + 1 /\ ~(t <= Len(batch)) /\ i \in 1 .. Len(batch)
          /\ Len(batch) \in Nat
        BY BatchFacts DEF TypeInv, Gathering
    <2> QED BY <2>1 DEF Untouched
<1>4. view[i].kind \in {"buffer", "reused"}
    <2>1. view[i].kind \in {"none", "buffer", "reused", "error"}
        BY DEF TypeInv, Views
    <2>2. view[i].kind # "none" /\ view[i].kind # "error"
        BY <1>3 DEF ViewInv
    <2> QED BY <2>1, <2>2
<1>5. IsTensor(batch[i])
    BY BatchFacts DEF TypeInv, IsTensor
<1> DEFINE o == InputOffset(batch[i], r)
           input == InputBytes(batch[i], r)
<1>6. ASSUME NEW y \in 1 .. Len(input)
      PROVE  o + y \in 1 .. Len(Cells(i)) /\ Cells(i)[o + y] = input[y]
    BY <1>1, <1>2, <1>3, <1>4, <1>5, ReusedByte, CopiedByte
<1>7. IsSequence(Cells(i))
    BY CellsAreSequence DEF SizeInv
<1>8. o \in Nat /\ input \in Seq(Locations) /\ InputEnd(batch[i], r) = o + Len(input)
    BY <1>2, <1>5, OffsetFacts, InputBytesLength DEF InputEnd
<1> HIDE DEF o, input
<1>9. SubSeq(Cells(i), o + 1, o + Len(input)) = input
    BY <1>6, <1>7, <1>8, PartIs
<1> QED BY <1>8, <1>9 DEF GatheredFrom, o, input

(***************************************************************************)
(* When the caller has synchronized as Finalize() told it to, every tensor *)
(* holds, for every request not answered with an error, exactly the bytes  *)
(* of its input at its offset: whatever the buffers of the requests and    *)
(* the memory they are in, however they are staged, gathered by the kernel *)
(* or copied one by one, however late the stream performs its copies, and  *)
(* whichever of the calls fail.                                            *)
(***************************************************************************)
THEOREM EverythingGathered == Spec => []Gathered
<1> DEFINE Inv == /\ TypeInv /\ SyncInv /\ SizeInv /\ PlaceInv /\ PosInv
                  /\ ViewInv /\ EndInv /\ FillInv
<1>1. Init => Inv
    BY TypeInit, SyncInit, SizeInit, PlaceInit, PosInit, ViewInit, EndInit, FillInit
<1>2. Inv /\ [Next]_vars => Inv'
    BY TypeStep, SyncStep, SizeStep, PlaceStep, PosStep, ViewStep, EndStep, FillInvStep
<1>3. Inv => Gathered
    BY GatheredAtEnd
<1> QED BY <1>1, <1>2, <1>3, PTL DEF Spec
=============================================================================
