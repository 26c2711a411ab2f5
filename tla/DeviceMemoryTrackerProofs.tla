---------------------- MODULE DeviceMemoryTrackerProofs ----------------------
(***************************************************************************)
(* DeviceMemoryTracker counts a call for the right usage, for any number   *)
(* of threads, usages, calls and buffers, in every order of delivery.      *)
(***************************************************************************)
EXTENDS DeviceMemoryTracker, FiniteSetTheorems, SequenceTheorems, TLAPS

UsageOrNone == Usages \cup {None}
CallSet == [op : Ops, under : UsageOrNone, together : BOOLEAN]

\* A record of a call that was made; one of kind "correlation" has the usage that was
\* on top of the stack then.
Genuine ==
    {r \in [kind : {"correlation", "memory"}, call : Nat, usage : UsageOrNone] :
        /\ r.call \in DOMAIN calls
        /\ r.kind = "correlation" => r.usage \in Usages /\ r.usage = calls[r.call].under}

UnderOf(c, u) == c \in DOMAIN calls /\ calls[c].under = u

RecordInv ==
    /\ calls \in Seq(CallSet)
    /\ buffers \in Seq(Seq(Genuine))
    /\ delivery \in [Deliverers -> Seq(Genuine)]

\* What a deliverer has found belongs to the record it is about to count.
FoundInv ==
    /\ found \in [Deliverers -> UsageOrNone] /\ DOMAIN load = Deliverers
    /\ \A d \in Deliverers :
           /\ load[d] # <<>> => found[d] # None
           /\ found[d] # None =>
                  delivery[d] # <<>> /\ UnderOf(Head(delivery[d]).call, found[d])

MapInv == \A c \in DOMAIN map : map[c] \in Usages /\ UnderOf(c, map[c])
AppliedInv ==
    /\ applied \in [Usages -> SUBSET (DOMAIN calls)]
    /\ \A u \in Usages : \A c \in applied[u] : UnderOf(c, u)
StackInv == stack \in [Threads -> Seq(Usages)]

IInv == RecordInv /\ FoundInv /\ MapInv /\ AppliedInv /\ StackInv
-----------------------------------------------------------------------------
LEMMA InitInv == Init => IInv
<1> SUFFICES ASSUME Init PROVE IInv
    OBVIOUS
<1>1. /\ calls = <<>> /\ buffers = <<>> /\ map = <<>>
      /\ \A d \in Deliverers : delivery[d] = <<>>
      /\ delivery = [d \in Deliverers |-> <<>>]
      /\ stack = [t \in Threads |-> <<>>]
    BY DEF Init
<1>2. RecordInv
    <2>1. <<>> \in Seq(CallSet) /\ <<>> \in Seq(Seq(Genuine)) /\ <<>> \in Seq(Genuine)
        OBVIOUS
    <2> QED BY <1>1, <2>1 DEF RecordInv
<1>3. MapInv
    BY <1>1 DEF MapInv
<1>4. StackInv
    <2>1. <<>> \in Seq(Usages)
        OBVIOUS
    <2> QED BY <1>1, <2>1 DEF StackInv
<1> QED BY <1>2, <1>3, <1>4 DEF Init, IInv, FoundInv, AppliedInv, UsageOrNone

\* Records, and what was concluded from them, stay right when calls are added.
LEMMA Persistence ==
    ASSUME IInv, DOMAIN calls \subseteq DOMAIN calls',
           \A c \in DOMAIN calls : calls'[c] = calls[c]
    PROVE  /\ Genuine \subseteq Genuine' /\ Seq(Genuine) \subseteq Seq(Genuine')
           /\ Seq(Seq(Genuine)) \subseteq Seq(Seq(Genuine'))
           /\ \A c, u : UnderOf(c, u) => UnderOf(c, u)'
<1>1. Genuine \subseteq Genuine'
    BY DEF Genuine
<1>2. Seq(Genuine) \subseteq Seq(Genuine')
    BY <1>1
<1>3. Seq(Seq(Genuine)) \subseteq Seq(Seq(Genuine'))
    BY <1>2
<1> QED BY <1>1, <1>2, <1>3 DEF UnderOf

\* Writing records that are genuine leaves the buffers so.
LEMMA WriteType ==
    ASSUME NEW S, NEW bs \in Seq(Seq(S)), NEW r \in S
    PROVE  Write(bs, r) \in Seq(Seq(S))
<1>1. CASE bs # <<>> /\ Len(bs[Len(bs)]) < BufferRecords
    <2>1. Len(bs) \in DOMAIN bs /\ bs[Len(bs)] \in Seq(S)
        BY <1>1
    <2>2. Append(bs[Len(bs)], r) \in Seq(S)
        BY <2>1
    <2> QED BY <1>1, <2>1, <2>2 DEF Write
<1>2. CASE ~(bs # <<>> /\ Len(bs[Len(bs)]) < BufferRecords)
    <2>1. <<r>> \in Seq(S)
        OBVIOUS
    <2> QED BY <1>2, <2>1 DEF Write
<1> QED BY <1>1, <1>2

LEMMA WriteAllType ==
    ASSUME NEW S, NEW bs \in Seq(Seq(S)), NEW recs \in Seq(S)
    PROVE  WriteAll(bs, recs) \in Seq(Seq(S))
<1>1. CASE Len(recs) = 0
    BY <1>1 DEF WriteAll
<1>2. CASE Len(recs) = 1
    BY <1>2, WriteType DEF WriteAll
<1>3. CASE Len(recs) # 0 /\ Len(recs) # 1
    <2>1. recs[1] \in S /\ recs[2] \in S
        <3> DEFINE n == Len(recs)
        <3>1. n \in Nat /\ n # 0 /\ n # 1
            BY <1>3
        <3>2. 1 \in 1 .. n /\ 2 \in 1 .. n
            <4> HIDE DEF n
            <4> QED BY <3>1
        <3> QED BY <3>2, ElementOfSeq
    <2>2. Write(bs, recs[1]) \in Seq(Seq(S))
        BY <2>1, WriteType
    <2>3. Write(Write(bs, recs[1]), recs[2]) \in Seq(Seq(S))
        BY <2>1, <2>2, WriteType
    <2> QED BY <1>3, <2>3 DEF WriteAll
<1> QED BY <1>1, <1>2, <1>3
-----------------------------------------------------------------------------
LEMMA BeginCallStep ==
    ASSUME IInv, NEW t \in Threads, NEW op \in Ops, BeginCall(t, op) PROVE IInv'
<1> DEFINE c == Len(calls) + 1
           u == Top(stack[t])
           recs == Records(c, op, u)
           new == calls'[c]
<1>1. u \in UsageOrNone
    BY DEF IInv, StackInv, Top, UsageOrNone
<1>2. /\ calls' = Append(calls, new) /\ new \in CallSet /\ new.under = u
      /\ buffers' = WriteAll(buffers, recs)
      /\ UNCHANGED <<stack, map, delivery, found, load, applied>>
    <2>1. PICK together \in BOOLEAN :
              calls' = Append(calls, [op |-> op, under |-> u, together |-> together])
        BY DEF BeginCall
    <2>2. calls'[c] = [op |-> op, under |-> u, together |-> together]
        BY <2>1 DEF IInv, RecordInv
    <2>3. new \in CallSet /\ new.under = u
        BY <1>1, <2>2 DEF CallSet
    <2>4. calls' = Append(calls, new)
        BY <2>1, <2>2
    <2>5. /\ buffers' = WriteAll(buffers, recs)
          /\ UNCHANGED <<stack, map, delivery, found, load, applied>>
        BY DEF BeginCall
    <2> QED BY <2>3, <2>4, <2>5
<1> HIDE DEF recs, new, u
<1>3. /\ calls' \in Seq(CallSet) /\ c \in DOMAIN calls' /\ c \in Nat
      /\ DOMAIN calls \subseteq DOMAIN calls'
      /\ \A k \in DOMAIN calls : calls'[k] = calls[k]
    BY <1>2 DEF IInv, RecordInv
<1>4. recs \in Seq(Genuine')
    <2> USE DEF recs, new
    <2>1. u # None => [kind |-> "correlation", call |-> c, usage |-> u] \in Genuine'
        BY <1>1, <1>2, <1>3 DEF Genuine, UsageOrNone
    <2>2. [kind |-> "memory", call |-> c, usage |-> None] \in Genuine'
        BY <1>2, <1>3 DEF Genuine, UsageOrNone
    <2> DEFINE first == IF u = None THEN <<>>
                        ELSE <<[kind |-> "correlation", call |-> c, usage |-> u]>>
               second == IF op.kind = "none" THEN <<>>
                         ELSE <<[kind |-> "memory", call |-> c, usage |-> None]>>
    <2>3. first \in Seq(Genuine')
        BY <2>1
    <2>4. second \in Seq(Genuine')
        BY <2>2
    <2>5. first \o second \in Seq(Genuine')
        <3> HIDE DEF first, second
        <3> QED BY <2>3, <2>4
    <2> QED BY <2>5 DEF Records
<1> HIDE DEF c
<1>5. RecordInv'
    <2>1. buffers \in Seq(Seq(Genuine'))
        BY <1>3, Persistence DEF IInv, RecordInv
    <2>2. buffers' \in Seq(Seq(Genuine'))
        BY <1>2, <1>4, <2>1, WriteAllType
    <2>3. delivery' \in [Deliverers -> Seq(Genuine')]
        BY <1>2, <1>3, Persistence DEF IInv, RecordInv
    <2> QED BY <1>3, <2>2, <2>3 DEF RecordInv
<1>6. FoundInv' /\ MapInv' /\ AppliedInv' /\ StackInv'
    BY <1>2, <1>3, Persistence DEF IInv, FoundInv, MapInv, AppliedInv, StackInv
<1> QED BY <1>5, <1>6 DEF IInv

LEMMA BufferCompletedStep ==
    ASSUME IInv, NEW d \in Deliverers, NEW i \in DOMAIN buffers, BufferCompleted(d, i)
    PROVE  IInv'
<1>1. /\ delivery[d] = <<>> /\ delivery' = [delivery EXCEPT ![d] = buffers[i]]
      /\ buffers' = SubSeq(buffers, 1, i - 1) \o SubSeq(buffers, i + 1, Len(buffers))
      /\ UNCHANGED <<calls, found, load, map, applied, stack>>
    BY DEF BufferCompleted, history, members
<1>2. Genuine' = Genuine /\ \A c, u : UnderOf(c, u)' <=> UnderOf(c, u)
    BY <1>1 DEF Genuine, UnderOf
<1>3. RecordInv'
    <2>1. buffers \in Seq(Seq(Genuine)) /\ i \in 1 .. Len(buffers)
        BY DEF IInv, RecordInv
    <2>2. SubSeq(buffers, 1, i - 1) \in Seq(Seq(Genuine))
        BY <2>1
    <2>3. SubSeq(buffers, i + 1, Len(buffers)) \in Seq(Seq(Genuine))
        BY <2>1
    <2>4. buffers' \in Seq(Seq(Genuine))
        BY <1>1, <2>2, <2>3
    <2>5. delivery' \in [Deliverers -> Seq(Genuine)]
        BY <1>1, <2>1 DEF IInv, RecordInv
    <2> QED BY <1>1, <1>2, <2>4, <2>5 DEF IInv, RecordInv
<1>4. FoundInv'
    BY <1>1, <1>2 DEF IInv, FoundInv, RecordInv
<1> QED BY <1>1, <1>2, <1>3, <1>4 DEF IInv, MapInv, AppliedInv, StackInv

\* A deliverer goes on to its next record, perhaps after counting one.
LEMMA NextRecordStep ==
    ASSUME IInv, NEW d \in Deliverers, delivery[d] # <<>>, NextRecord(d),
           UNCHANGED <<calls, buffers, stack>>, MapInv', AppliedInv'
    PROVE  IInv'
<1>1. Genuine' = Genuine /\ \A c, u : UnderOf(c, u)' <=> UnderOf(c, u)
    BY DEF Genuine, UnderOf
<1>2. /\ delivery' = [delivery EXCEPT ![d] = Tail(delivery[d])]
      /\ found' = [found EXCEPT ![d] = None] /\ load' = [load EXCEPT ![d] = <<>>]
    BY DEF NextRecord
<1>3. RecordInv'
    <2>1. Tail(delivery[d]) \in Seq(Genuine)
        BY DEF IInv, RecordInv
    <2> QED BY <1>1, <1>2, <2>1 DEF IInv, RecordInv
<1>4. FoundInv'
    BY <1>1, <1>2 DEF IInv, FoundInv, RecordInv, UsageOrNone
<1> QED BY <1>3, <1>4 DEF IInv, StackInv

LEMMA TrackStep ==
    ASSUME IInv, NEW d \in Deliverers, TrackActivity(d) PROVE IInv'
<1> USE DEF IInv
<1>0. UNCHANGED <<calls, buffers, stack>>
    BY DEF TrackActivity, TrackCorrelation, LookUpUsage, IgnoreRecord, Invalidate, ReadSum,
           WriteSum, cupti
<1>1. Genuine' = Genuine /\ calls' = calls /\ \A c, u : UnderOf(c, u)' <=> UnderOf(c, u)
    BY <1>0 DEF Genuine, UnderOf
<1>2. CASE TrackCorrelation(d)
    <2> DEFINE r == Head(delivery[d])
    <2>1. delivery[d] # <<>> /\ r.kind = "correlation" /\ NextRecord(d) /\ applied' = applied
        BY <1>2 DEF TrackCorrelation, At
    <2>2. r \in Genuine
        BY <2>1 DEF RecordInv
    <2>3. r.usage \in Usages /\ UnderOf(r.call, r.usage)
        BY <2>1, <2>2 DEF Genuine, UnderOf
    <2>4. map' = Stored(map, r.call, r.usage) \/ map' = map
        BY <1>2 DEF TrackCorrelation
    <2> HIDE DEF r
    <2>5. MapInv'
        BY <1>1, <2>3, <2>4 DEF MapInv, Stored
    <2>6. AppliedInv'
        BY <1>1, <2>1 DEF AppliedInv
    <2> QED BY <1>0, <2>1, <2>5, <2>6, NextRecordStep
<1>3. CASE LookUpUsage(d)
    <2> DEFINE c == Head(delivery[d]).call
               u == IF tracker THEN FoundUsage(c) ELSE None
    <2>1. /\ delivery[d] # <<>> /\ applied' = applied
          /\ map' = IF tracker THEN Erased(map, c) ELSE map
          /\ IF u = None THEN NextRecord(d)
             ELSE found' = [found EXCEPT ![d] = u] /\ UNCHANGED <<delivery, load>>
        BY <1>3 DEF LookUpUsage, At
    <2>2. u = None \/ (u \in Usages /\ UnderOf(c, u))
        BY DEF FoundUsage, MapInv
    <2> HIDE DEF c, u
    <2>3. MapInv'
        BY <1>1, <2>1 DEF MapInv, Erased
    <2>4. AppliedInv'
        BY <1>1, <2>1 DEF AppliedInv
    <2>5. CASE u = None
        BY <1>0, <2>1, <2>3, <2>4, <2>5, NextRecordStep
    <2>6. CASE u # None
        <3>1. found' = [found EXCEPT ![d] = u] /\ UNCHANGED <<delivery, load>>
            BY <2>1, <2>6
        <3>2. FoundInv'
            BY <1>1, <2>1, <2>2, <2>6, <3>1 DEF FoundInv, UsageOrNone, c
        <3>3. RecordInv'
            BY <1>0, <1>1, <3>1 DEF RecordInv
        <3> QED BY <1>0, <2>3, <2>4, <3>2, <3>3 DEF StackInv
    <2> QED BY <2>5, <2>6
<1>4. CASE IgnoreRecord(d) \/ Invalidate(d)
    <2>1. NextRecord(d) /\ found[d] # None /\ UNCHANGED <<map, applied>>
        BY <1>4 DEF IgnoreRecord, Invalidate
    <2>2. MapInv' /\ AppliedInv' /\ delivery[d] # <<>>
        BY <1>1, <2>1 DEF MapInv, AppliedInv, FoundInv
    <2> QED BY <1>0, <2>1, <2>2, NextRecordStep
<1>5. CASE ReadSum(d)
    <2>1. /\ found[d] # None /\ UNCHANGED <<map, applied, delivery, found>>
          /\ \E sum : load' = [load EXCEPT ![d] = <<sum>>]
        BY <1>5 DEF ReadSum
    <2>2. FoundInv'
        BY <1>1, <2>1 DEF FoundInv
    <2> QED BY <1>0, <1>1, <2>1, <2>2 DEF RecordInv, MapInv, AppliedInv, StackInv
<1>6. CASE WriteSum(d)
    <2> DEFINE c == Head(delivery[d]).call
    <2>1. /\ load[d] # <<>> /\ NextRecord(d) /\ map' = map
          /\ applied' = [applied EXCEPT ![found[d]] = @ \cup {c}]
        BY <1>6 DEF WriteSum
    <2>2. found[d] \in Usages /\ delivery[d] # <<>> /\ UnderOf(c, found[d])
        BY <2>1 DEF FoundInv, UsageOrNone
    <2> HIDE DEF c
    <2>3. MapInv' /\ AppliedInv'
        BY <1>1, <2>1, <2>2 DEF MapInv, AppliedInv, UnderOf
    <2> QED BY <1>0, <2>1, <2>2, <2>3, NextRecordStep
<1> QED BY <1>2, <1>3, <1>4, <1>5, <1>6 DEF TrackActivity

\* Pushing on the stack of a thread, and popping from it.
LEMMA StackStep ==
    ASSUME IInv, NEW t \in Threads,
           (\E u \in Usages : TrackThreadMemoryUsage(t, u)) \/ Pop(t)
    PROVE  IInv'
<1>1. UNCHANGED <<calls, buffers, delivery, found, load, map, applied>>
    BY DEF TrackThreadMemoryUsage, Pop, history
<1>2. Genuine' = Genuine /\ \A c, v : UnderOf(c, v)' <=> UnderOf(c, v)
    BY <1>1 DEF Genuine, UnderOf
<1>3. stack[t] \in Seq(Usages)
    BY DEF IInv, StackInv
<1>4. StackInv'
    <2>1. CASE Pop(t)
        <3>1. Len(stack[t]) \in Nat /\ \A i \in 1 .. Len(stack[t]) - 1 : stack[t][i] \in Usages
            BY <1>3
        <3>2. SubSeq(stack[t], 1, Len(stack[t]) - 1) \in Seq(Usages)
            BY <3>1, SubSeqProperties
        <3> QED BY <2>1, <3>2 DEF IInv, StackInv, Pop
    <2>2. ASSUME NEW u \in Usages, TrackThreadMemoryUsage(t, u) PROVE StackInv'
        <3>1. Append(stack[t], u) \in Seq(Usages)
            BY <1>3
        <3> QED BY <2>2, <3>1 DEF IInv, StackInv, TrackThreadMemoryUsage
    <2> QED BY <2>1, <2>2
<1> QED BY <1>1, <1>2, <1>4 DEF IInv, RecordInv, FoundInv, MapInv, AppliedInv

\* The steps of the tracker, the usages and the threads that leave the records alone.
LEMMA QuietStep ==
    ASSUME IInv, UNCHANGED <<calls, buffers, delivery, found, load, applied, stack>>,
           map' = map \/ map' = <<>>
    PROVE  IInv'
<1>1. Genuine' = Genuine /\ \A c, u : UnderOf(c, u)' <=> UnderOf(c, u)
    BY DEF Genuine, UnderOf
<1>2. MapInv'
    BY <1>1 DEF IInv, MapInv
<1> QED BY <1>1, <1>2 DEF IInv, RecordInv, FoundInv, AppliedInv, StackInv

LEMMA NextInv == IInv /\ [Next]_vars => IInv'
<1> SUFFICES ASSUME IInv, [Next]_vars PROVE IInv'
    OBVIOUS
<1>1. CASE InitTracker \/ FiniTracker
    BY <1>1, QuietStep DEF InitTracker, FiniTracker, cupti
<1>2. ASSUME NEW t \in Threads,
             \/ \E u \in Usages : TrackThreadMemoryUsage(t, u)
             \/ \E op \in Ops : BeginCall(t, op)
             \/ EndCall(t) \/ Untrack(t) \/ Flush(t) \/ Pop(t)
      PROVE  IInv'
    <2>1. CASE (\E u \in Usages : TrackThreadMemoryUsage(t, u)) \/ Pop(t)
        BY <2>1, StackStep
    <2>2. CASE \E op \in Ops : BeginCall(t, op)
        BY <2>2, BeginCallStep
    <2>3. CASE EndCall(t) \/ Untrack(t)
        BY <2>3, QuietStep DEF EndCall, Untrack, cupti
    <2>4. CASE Flush(t)
        BY <2>4, BufferCompletedStep DEF Flush, Deliverers
    <2> QED BY <1>2, <2>1, <2>2, <2>3, <2>4
<1>3. ASSUME NEW i \in DOMAIN buffers, BufferCompleted(Worker, i) PROVE IInv'
    BY <1>3, BufferCompletedStep DEF Deliverers
<1>4. ASSUME NEW d \in Deliverers, TrackActivity(d) PROVE IInv'
    BY <1>4, TrackStep
<1>5. ASSUME NEW u \in Usages, Destroy(u) \/ SerializeToBufferAttributes(u) PROVE IInv'
    BY <1>5, QuietStep DEF Destroy, SerializeToBufferAttributes, cupti
<1>6. ASSUME NEW u \in Usages, NEW v \in Usages, Merge(u, v) PROVE IInv'
    BY <1>6, QuietStep DEF Merge, cupti
<1>7. CASE UNCHANGED vars
    BY <1>7, QuietStep DEF vars, history
<1> QED BY <1>1, <1>2, <1>3, <1>4, <1>5, <1>6, <1>7 DEF Next
-----------------------------------------------------------------------------
\* A call is counted for the usage that was on top of the calling thread's stack when it
\* was made, whatever thread delivers its records, in whatever order the buffers are
\* delivered, and whatever the map still has of other calls.
THEOREM AttributedToCaller == Spec => []Attributed
<1>1. IInv => Attributed
    BY DEF IInv, AppliedInv, UnderOf, Attributed
<1> QED BY <1>1, InitInv, NextInv, PTL DEF Spec
-----------------------------------------------------------------------------
(***************************************************************************)
(* What a report lists.                                                    *)
(***************************************************************************)
SlotSums == [slot : Slots, bytes : Int]
Listing == INSTANCE FoldTheorems WITH Op <- AddUsed

\* used has those of the first k sums that are not 0, each once.
Lists(used, k, sums) ==
    /\ used \in Seq(SlotSums)
    /\ \A i \in 1 .. Len(used) :
           used[i].bytes # 0 /\ \E j \in 1 .. k : used[i] = sums[j]
    /\ \A j \in 1 .. k : sums[j].bytes # 0 => \E i \in 1 .. Len(used) : used[i] = sums[j]
    /\ \A i, l \in 1 .. Len(used) : used[i].slot = used[l].slot => i = l

\* One sum more: it is listed unless it is 0.
LEMMA ListsOneMore ==
    ASSUME NEW sums, NEW k \in Nat, sums[k + 1] \in SlotSums,
           \A j \in 1 .. k : sums[j].slot # sums[k + 1].slot,
           NEW used, Lists(used, k, sums)
    PROVE  Lists(AddUsed(used, sums[k + 1]), k + 1, sums)
<1> DEFINE e == sums[k + 1]
<1>1. CASE e.bytes = 0
    <2>1. AddUsed(used, e) = used
        BY <1>1 DEF AddUsed
    <2>2. \A j \in 1 .. k + 1 : j \in 1 .. k \/ j = k + 1
        OBVIOUS
    <2> QED BY <1>1, <2>1, <2>2 DEF Lists
<1>2. CASE e.bytes # 0
    <2> DEFINE new == Append(used, e)
    <2>1. AddUsed(used, e) = new
        BY <1>2 DEF AddUsed
    <2>2. /\ new \in Seq(SlotSums) /\ Len(new) = Len(used) + 1 /\ Len(used) \in Nat
          /\ new[Len(used) + 1] = e /\ \A i \in 1 .. Len(used) : new[i] = used[i]
        BY DEF Lists
    <2>0. \A i \in 1 .. Len(new) : i \in 1 .. Len(used) \/ i = Len(used) + 1
        BY <2>2
    <2> HIDE DEF new
    <2>3. \A i \in 1 .. Len(new) : new[i].bytes # 0 /\ \E j \in 1 .. k + 1 : new[i] = sums[j]
        BY <1>2, <2>0, <2>2, SMTT(30) DEF Lists
    <2>4. ASSUME NEW j \in 1 .. k + 1, sums[j].bytes # 0
          PROVE  \E i \in 1 .. Len(new) : new[i] = sums[j]
        <3>1. CASE j = k + 1
            BY <2>2, <3>1
        <3>2. CASE j # k + 1
            <4>1. PICK i \in 1 .. Len(used) : used[i] = sums[j]
                BY <2>4, <3>2 DEF Lists
            <4> QED BY <2>2, <4>1
        <3> QED BY <3>1, <3>2
    <2>5. \A i \in 1 .. Len(used) : new[i].slot # e.slot
        BY <2>2 DEF Lists
    <2>6. ASSUME NEW i \in 1 .. Len(new), NEW l \in 1 .. Len(new), new[i].slot = new[l].slot
          PROVE  i = l
        BY <2>0, <2>2, <2>5, <2>6 DEF Lists
    <2> QED BY <2>1, <2>2, <2>3, <2>4, <2>6 DEF Lists
<1> QED BY <1>1, <1>2

LEMMA UsedLists ==
    ASSUME NEW n \in Nat, NEW sums, DOMAIN sums = 1 .. n, \A j \in 1 .. n : sums[j] \in SlotSums,
           \A i, j \in 1 .. n : sums[i].slot = sums[j].slot => i = j
    PROVE  Lists(FoldLeft(AddUsed, <<>>, sums), n, sums)
<1>1. FoldLeft(AddUsed, <<>>, sums) = Listing!FoldOver(1 .. n, sums, <<>>)[1 .. n]
    BY DEF FoldLeft, MapThenFoldSet, Max, Listing!FoldOver, Listing!Largest
<1>2. PICK h : Listing!IsChain(h, n, sums, <<>>)
               /\ Listing!FoldOver(1 .. n, sums, <<>>)[1 .. n] = h[n]
    BY Listing!FoldIsChain
<1> DEFINE T == {k \in Nat : k <= n => Lists(h[k], k, sums)}
<1>3. 0 \in T
    <2>1. h[0] = <<>>
        BY <1>2 DEF Listing!IsChain
    <2>2. <<>> \in Seq(SlotSums) /\ Len(<<>>) = 0
        OBVIOUS
    <2>3. Lists(h[0], 0, sums)
        BY <2>1, <2>2 DEF Lists
    <2> QED BY <2>3
<1>4. ASSUME NEW k \in Nat, k \in T PROVE k + 1 \in T
    <2> SUFFICES ASSUME k + 1 <= n PROVE Lists(h[k + 1], k + 1, sums)
        OBVIOUS
    <2>1. Lists(h[k], k, sums) /\ k + 1 \in 1 .. n
        BY <1>4
    <2>2. h[k + 1] = AddUsed(h[k], sums[k + 1])
        BY <1>2, <2>1 DEF Listing!IsChain
    <2>3. sums[k + 1] \in SlotSums /\ \A j \in 1 .. k : sums[j].slot # sums[k + 1].slot
        BY <2>1
    <2> QED BY <2>1, <2>2, <2>3, ListsOneMore
<1> HIDE DEF T
<1>5. n \in T
    BY <1>3, <1>4, Listing!NaturalInduction
<1> QED BY <1>1, <1>2, <1>5 DEF T

LEMMA SlotOrderFacts ==
    /\ DeviceCount + 2 \in Nat /\ DOMAIN SlotOrder = 1 .. DeviceCount + 2
    /\ \A i, j \in DOMAIN SlotOrder : SlotOrder[i] = SlotOrder[j] => i = j
<1> DEFINE gpu == [d \in 1 .. DeviceCount |-> <<"cuda", d - 1>>]
           host == << <<"system", 0>>, <<"pinned", 0>> >>
           E == {"system", "pinned", "cuda"} \X Int
<1>1. DeviceCount \in Nat
    BY DevicesAssumption
<1>2. gpu \in Seq(E) /\ Len(gpu) = DeviceCount /\ host \in Seq(E) /\ Len(host) = 2
    <2>1. \A d \in 1 .. DeviceCount : <<"cuda", d - 1>> \in E
        BY <1>1
    <2>2. gpu \in [1 .. DeviceCount -> E]
        BY <2>1
    <2>3. gpu \in Seq(E) /\ Len(gpu) = DeviceCount
        <3> HIDE DEF gpu, E
        <3> QED BY <1>1, <2>2
    <2>4. <<"system", 0>> \in E /\ <<"pinned", 0>> \in E
        OBVIOUS
    <2>5. host \in Seq(E) /\ Len(host) = 2
        <3> HIDE DEF E
        <3> QED BY <2>4
    <2> QED BY <2>3, <2>5
<1>3. /\ DOMAIN (host \o gpu) = 1 .. DeviceCount + 2
      /\ \A i \in 1 .. DeviceCount + 2 : (host \o gpu)[i] = IF i <= 2 THEN host[i] ELSE gpu[i - 2]
    <2> HIDE DEF gpu, host, E
    <2>1. /\ host \o gpu \in Seq(E) /\ Len(host \o gpu) = Len(host) + Len(gpu)
          /\ \A i \in 1 .. Len(host) + Len(gpu) :
                 (host \o gpu)[i] = IF i <= Len(host) THEN host[i] ELSE gpu[i - Len(host)]
        BY <1>2, ConcatProperties
    <2>2. 2 + DeviceCount = DeviceCount + 2
        BY <1>1
    <2>3. DOMAIN (host \o gpu) = 1 .. Len(host \o gpu)
        BY <2>1, LenProperties
    <2> QED BY <1>2, <2>1, <2>2, <2>3
<1>4. SlotOrder = host \o gpu
    BY DEF SlotOrder
<1>5. /\ host[1] = <<"system", 0>> /\ host[2] = <<"pinned", 0>>
      /\ \A d \in 1 .. DeviceCount : gpu[d] = <<"cuda", d - 1>>
    OBVIOUS
<1> HIDE DEF gpu, host
<1>6. /\ SlotOrder[1] = <<"system", 0>> /\ SlotOrder[2] = <<"pinned", 0>>
      /\ \A i \in 3 .. DeviceCount + 2 : SlotOrder[i] = <<"cuda", i - 3>>
    <2>1. 1 \in 1 .. DeviceCount + 2 /\ 2 \in 1 .. DeviceCount + 2
        BY <1>1
    <2>2. ASSUME NEW i \in 3 .. DeviceCount + 2 PROVE SlotOrder[i] = <<"cuda", i - 3>>
        <3>1. i \in 1 .. DeviceCount + 2 /\ ~(i <= 2) /\ i - 2 \in 1 .. DeviceCount
              /\ (i - 2) - 1 = i - 3
            BY <1>1
        <3>2. SlotOrder[i] = gpu[i - 2]
            BY <1>3, <1>4, <3>1
        <3>3. gpu[i - 2] = <<"cuda", (i - 2) - 1>>
            BY <1>5, <3>1
        <3> HIDE DEF gpu
        <3> DEFINE k == (i - 2) - 1
        <3>4. k = i - 3 /\ gpu[i - 2] = <<"cuda", k>>
            BY <3>1, <3>3
        <3> HIDE DEF k
        <3> QED BY <3>2, <3>4
    <2>3. SlotOrder[1] = host[1] /\ SlotOrder[2] = host[2]
        <3> DEFINE all == host \o gpu
        <3>1. \A i \in 1 .. DeviceCount + 2 : all[i] = IF i <= 2 THEN host[i] ELSE gpu[i - 2]
            BY <1>3
        <3> HIDE DEF all
        <3>2. all[1] = host[1] /\ all[2] = host[2]
            BY <2>1, <3>1
        <3> QED BY <1>4, <3>2 DEF all
    <2>4. SlotOrder[1] = <<"system", 0>> /\ SlotOrder[2] = <<"pinned", 0>>
        BY <1>5, <2>3
    <2> QED BY <2>2, <2>4
<1>7. ASSUME NEW i \in 1 .. DeviceCount + 2, NEW j \in 1 .. DeviceCount + 2, SlotOrder[i] = SlotOrder[j]
      PROVE  i = j
    <2>1. i = 1 \/ i = 2 \/ i \in 3 .. DeviceCount + 2
        BY <1>1
    <2>2. j = 1 \/ j = 2 \/ j \in 3 .. DeviceCount + 2
        BY <1>1
    <2> QED BY <1>1, <1>6, <1>7, <2>1, <2>2
<1> QED BY <1>1, <1>3, <1>4, <1>7

\* What is reported of a usage are the sums that are not 0.
LEMMA UsedOfSums ==
    ASSUME NEW u \in Usages, bytes \in [Usages -> [Slots -> Int]]
    PROVE  Lists(Used(u), DeviceCount + 2, Sums(u))
<1> DEFINE n == DeviceCount + 2
<1>1. DOMAIN Sums(u) = 1 .. n /\ n \in Nat
    BY SlotOrderFacts DEF Sums
<1>2. \A j \in 1 .. n : Sums(u)[j] = [slot |-> SlotOrder[j], bytes |-> bytes[u][SlotOrder[j]]]
    BY SlotOrderFacts DEF Sums
<1>3. \A j \in 1 .. n : SlotOrder[j] \in Slots
    BY SlotOrderFacts DEF Slots
<1> HIDE DEF n
<1>4. ASSUME NEW j \in 1 .. n PROVE Sums(u)[j] \in SlotSums
    <2>1. SlotOrder[j] \in Slots /\ bytes[u][SlotOrder[j]] \in Int
        BY <1>3
    <2>2. [slot |-> SlotOrder[j], bytes |-> bytes[u][SlotOrder[j]]] \in SlotSums
        BY <2>1 DEF SlotSums
    <2> QED BY <1>2, <2>2
<1>5. ASSUME NEW i \in 1 .. n, NEW j \in 1 .. n, Sums(u)[i].slot = Sums(u)[j].slot
      PROVE  i = j
    <2>1. Sums(u)[i].slot = SlotOrder[i] /\ Sums(u)[j].slot = SlotOrder[j]
        <3>1. /\ Sums(u)[i] = [slot |-> SlotOrder[i], bytes |-> bytes[u][SlotOrder[i]]]
              /\ Sums(u)[j] = [slot |-> SlotOrder[j], bytes |-> bytes[u][SlotOrder[j]]]
            BY <1>2
        <3> QED BY <3>1
    <2>2. i \in DOMAIN SlotOrder /\ j \in DOMAIN SlotOrder
        BY SlotOrderFacts DEF n
    <2> QED BY <1>5, <2>1, <2>2, SlotOrderFacts
<1>6. Lists(FoldLeft(AddUsed, <<>>, Sums(u)), n, Sums(u))
    <2> DEFINE sums == Sums(u)
    <2>1. \A j \in 1 .. n : sums[j] \in SlotSums
        BY <1>4
    <2>2. \A i, j \in 1 .. n : sums[i].slot = sums[j].slot => i = j
        BY <1>5
    <2>3. DOMAIN sums = 1 .. n
        BY <1>1
    <2> HIDE DEF sums
    <2>4. Lists(FoldLeft(AddUsed, <<>>, sums), n, sums)
        BY <1>1, <2>1, <2>2, <2>3, UsedLists
    <2> QED BY <2>4 DEF sums
<1> QED BY <1>6 DEF Used, n
-----------------------------------------------------------------------------
(***************************************************************************)
(* Types.                                                                  *)
(***************************************************************************)
ControlType ==
    /\ tracker \in BOOLEAN /\ pc \in [Threads -> {"idle", "call", "flush"}]
    /\ Len(calls) <= MaxCalls /\ running \in [Threads -> 0 .. Len(calls)]
UsageType ==
    /\ bytes \in [Usages -> [Slots -> Int]]
    /\ valid \in [Usages -> BOOLEAN] /\ tracked \in [Usages -> BOOLEAN]
    /\ gone \subseteq Usages /\ raced \subseteq Usages
    /\ merged \in [Usages -> SUBSET (DOMAIN calls)]
ReportType == attributes \in [Usages -> Seq(AttributeSet)] /\ reported \in [Usages -> Nat]
\* A sum that was read is of one of the elements of the arrays.
LoadType ==
    /\ load \in [Deliverers -> {<<>>} \cup {<<sum>> : sum \in Int}]
    /\ \A d \in Deliverers : load[d] # <<>> => SlotOf(OpOf(d)) \in Slots

TypeInv == ControlType /\ UsageType /\ ReportType /\ LoadType

LEMMA TypeInit == Init => TypeInv
<1> SUFFICES ASSUME Init PROVE TypeInv
    OBVIOUS
<1>1. ControlType
    <2>1. Len(calls) = 0 /\ MaxCalls \in Nat
        <3>1. calls = <<>>
            BY DEF Init
        <3> QED BY <3>1, BoundsAssumption
    <2>2. /\ tracker = FALSE /\ pc = [t \in Threads |-> "idle"]
          /\ running = [t \in Threads |-> 0]
        BY DEF Init
    <2>3. 0 \in 0 .. Len(calls) /\ Len(calls) <= MaxCalls
        BY <2>1
    <2>4. running \in [Threads -> 0 .. Len(calls)]
        BY <2>2, <2>3
    <2>5. pc \in [Threads -> {"idle", "call", "flush"}]
        BY <2>2
    <2> QED BY <2>2, <2>3, <2>4, <2>5 DEF ControlType
<1>2. UsageType
    BY DEF Init, UsageType
<1>3. ReportType
    <2>1. <<>> \in Seq(AttributeSet)
        OBVIOUS
    <2> QED BY <2>1 DEF Init, ReportType
<1> QED BY <1>1, <1>2, <1>3 DEF Init, TypeInv, LoadType

\* The types of what a step leaves alone stay.
LEMMA TypesKept ==
    ASSUME TypeInv
    PROVE  /\ UNCHANGED <<tracker, pc, calls, running>> => ControlType'
           /\ UNCHANGED <<members, merged, raced, calls>> => UsageType'
           /\ UNCHANGED <<attributes, reported>> => ReportType'
           /\ UNCHANGED <<load, delivery, calls>> => LoadType'
<1>1. UNCHANGED <<tracker, pc, calls, running>> => ControlType'
    BY DEF TypeInv, ControlType
<1>2. UNCHANGED <<members, merged, raced, calls>> => UsageType'
    BY DEF TypeInv, UsageType, members
<1>3. UNCHANGED <<attributes, reported>> => ReportType'
    BY DEF TypeInv, ReportType
<1>4. UNCHANGED <<load, delivery, calls>> => LoadType'
    <2> SUFFICES ASSUME UNCHANGED <<load, delivery, calls>> PROVE LoadType'
        OBVIOUS
    <2>1. \A d : OpOf(d)' = OpOf(d)
        BY DEF OpOf
    <2> QED BY <2>1 DEF TypeInv, LoadType
<1> QED BY <1>1, <1>2, <1>3, <1>4

LEMMA BeginCallType ==
    ASSUME IInv, TypeInv, NEW t \in Threads, NEW op \in Ops, BeginCall(t, op) PROVE TypeInv'
<1> DEFINE c == Len(calls) + 1
<1>1. /\ c <= MaxCalls /\ pc' = [pc EXCEPT ![t] = "call"] /\ running' = [running EXCEPT ![t] = c]
      /\ \E call : calls' = Append(calls, call)
      /\ UNCHANGED <<tracker, members, merged, raced, attributes, reported, load, delivery, found>>
    BY DEF BeginCall, members
<1>2. Len(calls) \in Nat /\ DOMAIN calls = 1 .. Len(calls)
    BY DEF IInv, RecordInv
<1>3. PICK call : calls' = Append(calls, call)
    BY <1>1
<1>4. Len(calls') = c /\ DOMAIN calls' = 1 .. c /\ \A k \in DOMAIN calls : calls'[k] = calls[k]
    BY <1>3 DEF IInv, RecordInv
<1>5. ControlType'
    BY <1>1, <1>2, <1>4 DEF TypeInv, ControlType
<1>6. UsageType'
    BY <1>1, <1>2, <1>4 DEF TypeInv, UsageType, members
<1>7. LoadType'
    <2>1. ASSUME NEW d \in Deliverers, load[d] # <<>> PROVE OpOf(d)' = OpOf(d)
        <3>1. Head(delivery[d]).call \in DOMAIN calls
            BY <2>1 DEF IInv, FoundInv, UnderOf
        <3>2. Head(delivery[d])' = Head(delivery[d])
            BY <1>1
        <3> QED BY <1>4, <3>1, <3>2 DEF OpOf
    <2> QED BY <1>1, <2>1 DEF TypeInv, LoadType
<1> QED BY <1>1, <1>5, <1>6, <1>7, TypesKept DEF TypeInv

\* After a step of a deliverer d the others still have what they read.
LEMMA LoadKept ==
    ASSUME LoadType, NEW d \in Deliverers, calls' = calls,
           \A e \in Deliverers \ {d} : load'[e] = load[e] /\ delivery'[e] = delivery[e],
           load' \in [Deliverers -> {<<>>} \cup {<<sum>> : sum \in Int}], load'[d] = <<>>
    PROVE  LoadType'
<1>1. \A e \in Deliverers \ {d} : OpOf(e)' = OpOf(e)
    BY DEF OpOf
<1> QED BY <1>1 DEF LoadType

LEMMA BufferCompletedType ==
    ASSUME IInv, TypeInv, NEW d \in Deliverers, NEW i \in DOMAIN buffers, BufferCompleted(d, i)
    PROVE  TypeInv'
<1>1. /\ delivery[d] = <<>> /\ delivery' = [delivery EXCEPT ![d] = buffers[i]]
      /\ UNCHANGED <<tracker, pc, calls, running, members, merged, raced, attributes, reported,
                     load, found>>
    BY DEF BufferCompleted, history
<1>2. load[d] = <<>> /\ DOMAIN delivery = Deliverers /\ DOMAIN load = Deliverers
    BY <1>1 DEF IInv, FoundInv, RecordInv
<1>3. LoadType'
    <2>1. \A e \in Deliverers \ {d} : load'[e] = load[e] /\ delivery'[e] = delivery[e]
        BY <1>1, <1>2
    <2>2. load' \in [Deliverers -> {<<>>} \cup {<<sum>> : sum \in Int}]
        BY <1>1 DEF TypeInv, LoadType
    <2> QED BY <1>1, <1>2, <2>1, <2>2, LoadKept DEF TypeInv
<1> QED BY <1>1, <1>3, TypesKept DEF TypeInv

LEMMA NextRecordLoad ==
    ASSUME IInv, TypeInv, NEW d \in Deliverers, NextRecord(d), calls' = calls PROVE LoadType'
<1>1. /\ delivery' = [delivery EXCEPT ![d] = Tail(delivery[d])]
      /\ load' = [load EXCEPT ![d] = <<>>]
    BY DEF NextRecord
<1>2. DOMAIN delivery = Deliverers /\ DOMAIN load = Deliverers
    BY DEF IInv, FoundInv, RecordInv
<1>3. /\ \A e \in Deliverers \ {d} : load'[e] = load[e] /\ delivery'[e] = delivery[e]
      /\ load' \in [Deliverers -> {<<>>} \cup {<<sum>> : sum \in Int}] /\ load'[d] = <<>>
    BY <1>1, <1>2 DEF TypeInv, LoadType
<1> QED BY <1>3, LoadKept DEF TypeInv

LEMMA TrackType ==
    ASSUME IInv, TypeInv, NEW d \in Deliverers, TrackActivity(d) PROVE TypeInv'
<1>0. UNCHANGED <<tracker, pc, calls, running, attributes, reported>>
    BY DEF TrackActivity, TrackCorrelation, LookUpUsage, IgnoreRecord, Invalidate, ReadSum,
           WriteSum, cupti
<1>1. CASE TrackCorrelation(d) \/ IgnoreRecord(d)
    <2>1. UNCHANGED <<members, merged, raced>> /\ NextRecord(d)
        BY <1>1 DEF TrackCorrelation, IgnoreRecord
    <2> QED BY <1>0, <2>1, NextRecordLoad, TypesKept DEF TypeInv
<1>2. CASE LookUpUsage(d)
    <2>1. UNCHANGED <<members, merged, raced>> /\ (NextRecord(d) \/ UNCHANGED <<delivery, load>>)
        BY <1>2 DEF LookUpUsage
    <2> QED BY <1>0, <2>1, NextRecordLoad, TypesKept DEF TypeInv
<1>3. CASE Invalidate(d)
    <2>1. /\ valid' = [valid EXCEPT ![found[d]] = FALSE] /\ NextRecord(d)
          /\ found[d] # None /\ (raced' = raced \/ raced' = raced \cup {found[d]})
          /\ UNCHANGED <<bytes, tracked, gone, merged>>
        BY <1>3 DEF Invalidate, Race
    <2>2. found[d] \in Usages
        BY <2>1 DEF IInv, FoundInv, UsageOrNone
    <2>3. UsageType'
        BY <1>0, <2>1, <2>2 DEF TypeInv, UsageType
    <2> QED BY <1>0, <2>1, <2>3, NextRecordLoad, TypesKept DEF TypeInv
<1>4. CASE ReadSum(d)
    <2>1. /\ load' = [load EXCEPT ![d] = <<bytes[found[d]][SlotOf(OpOf(d))]>>] /\ found[d] # None
          /\ SlotOf(OpOf(d)) \in Slots /\ UNCHANGED <<members, merged, raced, delivery>>
        BY <1>4 DEF ReadSum
    <2>2. found[d] \in Usages
        BY <2>1 DEF IInv, FoundInv, UsageOrNone
    <2>3. bytes[found[d]][SlotOf(OpOf(d))] \in Int
        BY <2>1, <2>2 DEF TypeInv, UsageType
    <2>4. \A e : OpOf(e)' = OpOf(e)
        BY <1>0, <2>1 DEF OpOf
    <2>5. LoadType'
        BY <2>1, <2>3, <2>4 DEF TypeInv, LoadType
    <2> QED BY <1>0, <2>1, <2>5, TypesKept DEF TypeInv
<1>5. CASE WriteSum(d)
    <2> DEFINE u == found[d]
               op == OpOf(d)
    <2>1. /\ load[d] # <<>> /\ NextRecord(d) /\ (raced' = raced \/ raced' = raced \cup {u})
          /\ bytes' = [bytes EXCEPT ![u][SlotOf(op)] = Updated(load[d][1], op)]
          /\ valid' = [valid EXCEPT ![u] = TRUE] /\ UNCHANGED <<tracked, gone, merged>>
        BY <1>5 DEF WriteSum, Race
    <2>2. u \in Usages /\ SlotOf(op) \in Slots
        BY <2>1 DEF IInv, FoundInv, UsageOrNone, TypeInv, LoadType
    <2>3. Updated(load[d][1], op) \in Int
        <3>1. load[d][1] \in Int
            BY <2>1 DEF TypeInv, LoadType
        <3>2. Head(delivery[d]).call \in DOMAIN calls
            BY <2>1 DEF IInv, FoundInv, UnderOf
        <3>3. op \in CallOps
            <4>1. calls[Head(delivery[d]).call] \in CallSet
                BY <3>2 DEF IInv, RecordInv
            <4>2. op \in Ops
                BY <4>1 DEF OpOf, CallSet
            <4> QED BY <4>2, OpsAssumption
        <3> HIDE DEF op
        <3> QED BY <3>1, <3>3 DEF CallOps, Updated
    <2> HIDE DEF u, op
    <2>4. UsageType'
        BY <1>0, <2>1, <2>2, <2>3 DEF TypeInv, UsageType
    <2> QED BY <1>0, <2>1, <2>4, NextRecordLoad, TypesKept DEF TypeInv
<1> QED BY <1>1, <1>2, <1>3, <1>4, <1>5 DEF TrackActivity

\* The attributes that are set, and those left of an earlier report.
LEMMA SerializeType ==
    ASSUME TypeInv, NEW u \in Usages, SerializeToBufferAttributes(u) PROVE ReportType'
<1> DEFINE n == Len(Used(u))
           new == [i \in 1 .. n |-> Entry(u, i)]
           old == SubSeq(attributes[u], n + 1, Len(attributes[u]))
<1>1. /\ reported' = [reported EXCEPT ![u] = n]
      /\ attributes' = [attributes EXCEPT ![u] = new \o old]
    BY DEF SerializeToBufferAttributes
<1>2. Used(u) \in Seq(SlotSums) /\ n \in Nat
    BY UsedOfSums DEF Lists, TypeInv, UsageType
<1>3. new \in Seq(AttributeSet)
    <2>1. ASSUME NEW i \in 1 .. n PROVE Entry(u, i) \in AttributeSet
        <3>1. Used(u)[i] \in SlotSums
            BY <1>2
        <3>2. \A e \in SlotSums : [e EXCEPT !.bytes = @ % SizeModulus] \in AttributeSet
            <4>1. \A x \in Int : x % SizeModulus \in 0 .. SizeModulus - 1
                <5>1. \A m \in Nat \ {0} : \A x \in Int : x % m \in 0 .. m - 1
                    OBVIOUS
                <5> QED BY <5>1, BoundsAssumption
            <4> QED BY <4>1 DEF SlotSums, AttributeSet
        <3> QED BY <3>1, <3>2 DEF Entry
    <2> HIDE DEF n
    <2>2. new \in [1 .. n -> AttributeSet]
        BY <2>1
    <2> HIDE DEF new
    <2> QED BY <1>2, <2>2
<1>4. attributes[u] \in Seq(AttributeSet)
    BY DEF TypeInv, ReportType
<1>5. old \in Seq(AttributeSet)
    <2> HIDE DEF n
    <2>1. Len(attributes[u]) \in Nat /\ \A i \in n + 1 .. Len(attributes[u]) : attributes[u][i] \in AttributeSet
        BY <1>2, <1>4
    <2> QED BY <1>2, <2>1, SubSeqProperties
<1> HIDE DEF n, new, old
<1>6. new \o old \in Seq(AttributeSet)
    BY <1>3, <1>5
<1> QED BY <1>1, <1>2, <1>6 DEF TypeInv, ReportType

LEMMA TypeStep == IInv /\ TypeInv /\ [Next]_vars => TypeInv'
<1> SUFFICES ASSUME IInv, TypeInv, [Next]_vars PROVE TypeInv'
    OBVIOUS
<1>1. CASE InitTracker \/ FiniTracker
    <2>1. tracker' \in BOOLEAN /\ UNCHANGED <<pc, running, calls, members, merged, raced, attributes,
                                              reported, load, delivery>>
        BY <1>1 DEF InitTracker, FiniTracker, cupti
    <2>2. ControlType'
        BY <2>1 DEF TypeInv, ControlType
    <2> QED BY <2>1, <2>2, TypesKept DEF TypeInv
<1>2. ASSUME NEW t \in Threads,
             \/ \E u \in Usages : TrackThreadMemoryUsage(t, u)
             \/ \E op \in Ops : BeginCall(t, op)
             \/ EndCall(t) \/ Untrack(t) \/ Flush(t) \/ Pop(t)
      PROVE  TypeInv'
    <2>1. ASSUME NEW u \in Usages, TrackThreadMemoryUsage(t, u) PROVE TypeInv'
        <3>1. /\ UNCHANGED <<tracker, pc, calls, running, attributes, reported, load, delivery, bytes,
                             valid, gone, raced, merged>>
              /\ tracked' = [tracked EXCEPT ![u] = TRUE]
            BY <2>1 DEF TrackThreadMemoryUsage, history
        <3>2. UsageType'
            BY <3>1 DEF TypeInv, UsageType
        <3> QED BY <3>1, <3>2, TypesKept DEF TypeInv
    <2>2. CASE \E op \in Ops : BeginCall(t, op)
        BY <2>2, BeginCallType
    <2>3. CASE EndCall(t) \/ Untrack(t)
        <3>1. /\ UNCHANGED <<tracker, calls, members, merged, raced, attributes, reported, load, delivery>>
              /\ \E p \in {"idle", "call", "flush"} : pc' = [pc EXCEPT ![t] = p]
              /\ running' = running \/ running' = [running EXCEPT ![t] = 0]
            BY <2>3 DEF EndCall, Untrack, cupti
        <3>2. ControlType'
            BY <3>1 DEF TypeInv, ControlType, IInv, RecordInv
        <3> QED BY <3>1, <3>2, TypesKept DEF TypeInv
    <2>4. CASE Flush(t)
        BY <2>4, BufferCompletedType DEF Flush, Deliverers
    <2>5. CASE Pop(t)
        <3>1. /\ UNCHANGED <<tracker, calls, running, attributes, reported, load, delivery, bytes,
                             valid, gone, raced, merged>>
              /\ pc' = [pc EXCEPT ![t] = "idle"]
              /\ tracked' = [tracked EXCEPT ![Top(stack[t])] = FALSE]
            BY <2>5 DEF Pop, history
        <3>2. UsageType'
            BY <3>1 DEF TypeInv, UsageType
        <3>3. ControlType'
            BY <3>1 DEF TypeInv, ControlType
        <3> QED BY <3>1, <3>2, <3>3, TypesKept DEF TypeInv
    <2> QED BY <1>2, <2>1, <2>2, <2>3, <2>4, <2>5
<1>3. ASSUME NEW i \in DOMAIN buffers, BufferCompleted(Worker, i) PROVE TypeInv'
    BY <1>3, BufferCompletedType DEF Deliverers
<1>4. ASSUME NEW d \in Deliverers, TrackActivity(d) PROVE TypeInv'
    BY <1>4, TrackType
<1>5. ASSUME NEW u \in Usages, Destroy(u) PROVE TypeInv'
    <2>1. /\ gone' = gone \cup {u} /\ attributes' = [attributes EXCEPT ![u] = <<>>]
          /\ UNCHANGED <<tracker, pc, calls, running, reported, load, delivery, bytes, valid, tracked,
                         merged, raced>>
        BY <1>5 DEF Destroy, cupti
    <2>2. UsageType'
        BY <2>1 DEF TypeInv, UsageType
    <2>3. ReportType'
        <3>1. <<>> \in Seq(AttributeSet)
            OBVIOUS
        <3> QED BY <2>1, <3>1 DEF TypeInv, ReportType
    <2> QED BY <2>1, <2>2, <2>3, TypesKept DEF TypeInv
<1>6. ASSUME NEW u \in Usages, SerializeToBufferAttributes(u) PROVE TypeInv'
    <2>1. UNCHANGED <<tracker, pc, calls, running, load, delivery, members, merged, raced>>
        BY <1>6 DEF SerializeToBufferAttributes, cupti
    <2> QED BY <1>6, <2>1, SerializeType, TypesKept DEF TypeInv
<1>7. ASSUME NEW u \in Usages, NEW v \in Usages, Merge(u, v) PROVE TypeInv'
    <2>1. /\ bytes' = [bytes EXCEPT ![u] = [s \in Slots |-> bytes[u][s] + bytes[v][s]]]
          /\ merged' = [merged EXCEPT ![u] = merged[u] \cup applied[v] \cup merged[v]]
          /\ raced' = raced \/ raced' = raced \cup {u}
          /\ UNCHANGED <<tracker, pc, calls, running, attributes, reported, load, delivery, valid,
                         tracked, gone>>
        BY <1>7 DEF Merge, cupti
    <2>2. \A s \in Slots : bytes[u][s] + bytes[v][s] \in Int
        BY DEF TypeInv, UsageType
    <2>3. applied[v] \subseteq DOMAIN calls
        BY DEF IInv, AppliedInv, UnderOf
    <2>4. UsageType'
        BY <2>1, <2>2, <2>3 DEF TypeInv, UsageType
    <2> QED BY <2>1, <2>4, TypesKept DEF TypeInv
<1>8. CASE UNCHANGED vars
    BY <1>8, TypesKept DEF vars, history, cupti, TypeInv
<1> QED BY <1>1, <1>2, <1>3, <1>4, <1>5, <1>6, <1>7, <1>8 DEF Next
-----------------------------------------------------------------------------
(***************************************************************************)
(* Sums over the calls of a usage.                                         *)
(***************************************************************************)
AddCall(sum, call) == Signed(call.op) + sum
Adding == INSTANCE FoldTheorems WITH Op <- AddCall

SumOf(S) == Adding!SetValue(S, calls, 0)
Counting(u, s) == {c \in applied[u] \cup merged[u] : SlotOf(calls[c].op) = s}

LEMMA TotalIsSum ==
    \A u, s : /\ Total(u, s) = SumOf(Counting(u, s))
              /\ Total(u, s)' = SumOf(Counting(u, s))'
BY DEF Total, MapThenSumSet, MapThenFoldSet, SumOf, Counting, Adding!SetValue, Adding!SetFold,
       Adding!Any, AddCall

\* The instance has a name of its own for finiteness.
LEMMA Finite == \A S : IsFiniteSet(S) => Adding!IsFiniteSet(S)
BY DEF IsFiniteSet, Adding!IsFiniteSet

\* The sizes of calls are numbers, and may be added in any order.
LEMMA SizesCommute ==
    ASSUME IInv, NEW S \in SUBSET (DOMAIN calls)
    PROVE  /\ IsFiniteSet(S) /\ Adding!Commutes(Int, S, calls)
           /\ \A c \in S : Signed(calls[c].op) \in Int
<1>1. IsFiniteSet(S)
    <2>1. Len(calls) \in Nat /\ DOMAIN calls = 1 .. Len(calls)
        BY DEF IInv, RecordInv
    <2>2. IsFiniteSet(DOMAIN calls)
        BY <2>1, FS_Interval
    <2> QED BY <2>2, FS_Subset
<1>2. ASSUME NEW c \in S PROVE Signed(calls[c].op) \in Int
    <2>1. calls[c] \in CallSet
        BY DEF IInv, RecordInv
    <2>2. calls[c].op \in CallOps
        BY <2>1, OpsAssumption DEF CallSet
    <2> QED BY <2>2 DEF CallOps, Signed
<1>3. \A v \in Int, c \in S : AddCall(v, calls[c]) = Signed(calls[c].op) + v
    BY DEF AddCall
<1>4. ASSUME NEW v \in Int, NEW c \in S
      PROVE  /\ AddCall(v, calls[c]) \in Int
             /\ \A x \in S : AddCall(AddCall(v, calls[c]), calls[x]) = AddCall(AddCall(v, calls[x]), calls[c])
    BY <1>2, <1>3
<1> QED BY <1>1, <1>2, <1>4 DEF Adding!Commutes

LEMMA SumInt ==
    ASSUME IInv, NEW S \in SUBSET (DOMAIN calls) PROVE SumOf(S) \in Int
<1>1. Adding!IsFiniteSet(S) /\ Adding!Commutes(Int, S, calls) /\ 0 \in Int
    BY SizesCommute, Finite
<1> QED BY <1>1, Adding!SetValueType DEF SumOf

LEMMA SumWithCall ==
    ASSUME IInv, NEW S \in SUBSET (DOMAIN calls), NEW c \in DOMAIN calls \ S
    PROVE  SumOf(S \cup {c}) = SumOf(S) + Signed(calls[c].op)
<1>1. S \cup {c} \in SUBSET (DOMAIN calls)
    OBVIOUS
<1>2. Adding!IsFiniteSet(S) /\ Adding!Commutes(Int, S \cup {c}, calls) /\ Signed(calls[c].op) \in Int
    BY <1>1, SizesCommute, Finite
<1>3. SumOf(S \cup {c}) = AddCall(SumOf(S), calls[c])
    <2>1. \A x \in S : calls[x] = calls[x]
        OBVIOUS
    <2>2. 0 \in Int /\ c \notin S
        OBVIOUS
    <2> QED BY <1>2, <2>1, <2>2, Adding!SetValueWithElement DEF SumOf
<1>4. SumOf(S) \in Int
    BY SumInt
<1> QED BY <1>2, <1>3, <1>4 DEF AddCall

LEMMA SumEmpty == SumOf({}) = 0
BY Adding!SetValueEmpty DEF SumOf

\* The sums of calls that have none in common.
LEMMA SumOfUnion ==
    ASSUME IInv, NEW A \in SUBSET (DOMAIN calls), NEW B \in SUBSET (DOMAIN calls), A \cap B = {}
    PROVE  SumOf(A \cup B) = SumOf(A) + SumOf(B)
<1> DEFINE T == {S \in SUBSET B : SumOf(A \cup S) = SumOf(A) + SumOf(S)}
<1>1. {} \in T
    <2>1. A \cup {} = A /\ SumOf(A) \in Int
        BY SumInt
    <2> QED BY <2>1, SumEmpty
<1>2. ASSUME NEW S \in SUBSET B, NEW c \in B \ S, S \in T PROVE S \cup {c} \in T
    <2>1. A \cup (S \cup {c}) = (A \cup S) \cup {c} /\ c \in DOMAIN calls \ (A \cup S)
          /\ A \cup S \in SUBSET (DOMAIN calls) /\ S \in SUBSET (DOMAIN calls) /\ c \in DOMAIN calls \ S
        OBVIOUS
    <2>2. SumOf((A \cup S) \cup {c}) = SumOf(A \cup S) + Signed(calls[c].op)
        BY <2>1, SumWithCall
    <2>3. SumOf(S \cup {c}) = SumOf(S) + Signed(calls[c].op)
        BY <2>1, SumWithCall
    <2>4. SumOf(A \cup S) = SumOf(A) + SumOf(S)
        BY <1>2
    <2>5. SumOf(A) \in Int /\ SumOf(S) \in Int /\ Signed(calls[c].op) \in Int
        BY <2>1, SumInt, SizesCommute
    <2> HIDE DEF T
    <2>6. SumOf(A \cup (S \cup {c})) = SumOf(A) + SumOf(S \cup {c})
        <3>1. SumOf(A \cup (S \cup {c})) = SumOf((A \cup S) \cup {c})
            BY <2>1
        <3> DEFINE all == SumOf(A \cup (S \cup {c}))
                   more == SumOf(S \cup {c})
                   mine == SumOf(A)
                   some == SumOf(S)
                   one == Signed(calls[c].op)
        <3>2. all = (mine + some) + one /\ more = some + one
            BY <2>2, <2>3, <2>4, <3>1
        <3>3. mine \in Int /\ some \in Int /\ one \in Int
            BY <2>5
        <3> HIDE DEF all, more, mine, some, one
        <3>4. all = mine + more
            BY <3>2, <3>3
        <3> QED BY <3>4 DEF all, more, mine
    <2> QED BY <2>6 DEF T
<1>3. Adding!IsFiniteSet(B)
    BY SizesCommute, Finite
<1> HIDE DEF T
<1>4. B \in T
    BY <1>1, <1>2, <1>3, Adding!FiniteInduction
<1> QED BY <1>4 DEF T

\* Calls that are made later do not change a sum.
LEMMA SumKept ==
    ASSUME IInv, NEW S \in SUBSET (DOMAIN calls), \A c \in DOMAIN calls : calls'[c] = calls[c]
    PROVE  SumOf(S)' = SumOf(S)
<1>1. Adding!SetValue(S, calls', 0) = Adding!SetValue(S, calls, 0)
    <2>0. Adding!IsFiniteSet(S)
        BY SizesCommute, Finite
    <2>1. \A c \in S : calls'[c] = calls[c]
        OBVIOUS
    <2> QED BY <2>0, <2>1, Adding!SetValueCongruent
<1> QED BY <1>1 DEF SumOf

LEMMA CountingCalls ==
    ASSUME IInv, TypeInv, NEW u \in Usages, NEW s
    PROVE  applied[u] \cup merged[u] \in SUBSET (DOMAIN calls) /\ Counting(u, s) \in SUBSET (DOMAIN calls)
BY DEF IInv, AppliedInv, UnderOf, TypeInv, UsageType, Counting

\* The total of a usage for which nothing is counted in a step.
LEMMA TotalKept ==
    ASSUME IInv, TypeInv, \A c \in DOMAIN calls : calls'[c] = calls[c], NEW u \in Usages, NEW s \in Slots,
           applied'[u] = applied[u], merged'[u] = merged[u]
    PROVE  Total(u, s)' = Total(u, s)
<1>1. Counting(u, s)' = Counting(u, s)
    <2>1. \A c \in applied[u] \cup merged[u] : calls'[c] = calls[c]
        BY CountingCalls
    <2> QED BY <2>1 DEF Counting
<1>2. Adding!SetValue(Counting(u, s), calls', 0) = SumOf(Counting(u, s))
    BY SumKept, CountingCalls DEF SumOf
<1>3. Total(u, s)' = SumOf(Counting(u, s))'
    BY TotalIsSum
<1> QED BY <1>1, <1>2, <1>3, TotalIsSum DEF SumOf
-----------------------------------------------------------------------------
(***************************************************************************)
(* Where records are.                                                      *)
(***************************************************************************)
\* new is bs with the record r more, at place k of buffer i and behind all of that buffer.
AddedAt(bs, new, r, i, k) ==
    /\ i \in DOMAIN new /\ k \in DOMAIN new[i] /\ new[i][k] = r /\ DOMAIN bs \subseteq DOMAIN new
    /\ \A j \in DOMAIN bs : \A l \in DOMAIN bs[j] :
           l \in DOMAIN new[j] /\ new[j][l] = bs[j][l] /\ (j = i => l < k)
    /\ \A j \in DOMAIN new : \A l \in DOMAIN new[j] :
           (j = i /\ l = k) \/ (j \in DOMAIN bs /\ l \in DOMAIN bs[j])

LEMMA WriteAdds ==
    ASSUME NEW S, NEW bs \in Seq(Seq(S)), NEW r \in S
    PROVE  \E i, k : AddedAt(bs, Write(bs, r), r, i, k)
<1> DEFINE n == Len(bs)
           last == bs[n]
           new == Write(bs, r)
<1>0. n \in Nat /\ DOMAIN bs = 1 .. n
    OBVIOUS
<1>1. CASE bs # <<>> /\ Len(last) < BufferRecords
    <2>1. n \in DOMAIN bs /\ last \in Seq(S)
        BY <1>1
    <2> DEFINE m == Len(last)
               grown == Append(last, r)
    <2>2. /\ m \in Nat /\ DOMAIN last = 1 .. m /\ DOMAIN grown = 1 .. m + 1 /\ grown[m + 1] = r
          /\ \A l \in 1 .. m : grown[l] = last[l]
        BY <2>1
    <2>3. new = [bs EXCEPT ![n] = grown]
        BY <1>1 DEF Write
    <2> HIDE DEF grown, m, new
    <2>4. DOMAIN new = DOMAIN bs /\ new[n] = grown /\ \A j \in DOMAIN bs \ {n} : new[j] = bs[j]
        BY <2>1, <2>3
    <2>5. AddedAt(bs, new, r, n, m + 1)
        <3> HIDE DEF n
        <3>1. m + 1 \in DOMAIN grown /\ \A l \in DOMAIN last : l \in DOMAIN grown /\ l < m + 1
            BY <2>2
        <3>2. \A l \in DOMAIN grown : l = m + 1 \/ l \in DOMAIN last
            BY <2>2
        <3>3. ASSUME NEW j \in DOMAIN bs, NEW l \in DOMAIN bs[j]
              PROVE  l \in DOMAIN new[j] /\ new[j][l] = bs[j][l] /\ (j = n => l < m + 1)
            BY <2>2, <2>4, <3>1
        <3>4. ASSUME NEW j \in DOMAIN new, NEW l \in DOMAIN new[j]
              PROVE  (j = n /\ l = m + 1) \/ (j \in DOMAIN bs /\ l \in DOMAIN bs[j])
            BY <2>4, <3>2
        <3> QED BY <2>1, <2>2, <2>4, <3>1, <3>3, <3>4 DEF AddedAt
    <2> QED BY <2>5 DEF new
<1>2. CASE ~(bs # <<>> /\ Len(last) < BufferRecords)
    <2>1. new = Append(bs, <<r>>)
        BY <1>2 DEF Write
    <2>2. /\ DOMAIN new = 1 .. n + 1 /\ new[n + 1] = <<r>> /\ \A j \in 1 .. n : new[j] = bs[j]
        <3>1. <<r>> \in Seq(S)
            OBVIOUS
        <3> QED BY <2>1, <3>1, AppendProperties
    <2>3. DOMAIN <<r>> = {1} /\ <<r>>[1] = r
        OBVIOUS
    <2> HIDE DEF n, new
    <2>4. AddedAt(bs, new, r, n + 1, 1)
        <3>1. \A j \in DOMAIN bs : j # n + 1 /\ j \in DOMAIN new /\ new[j] = bs[j]
            BY <1>0, <2>2
        <3>2. \A j \in DOMAIN new : j = n + 1 \/ (j \in DOMAIN bs /\ new[j] = bs[j])
            BY <1>0, <2>2
        <3>3. n + 1 \in DOMAIN new
            BY <1>0, <2>2
        <3> QED BY <2>2, <2>3, <3>1, <3>2, <3>3 DEF AddedAt
    <2> QED BY <2>4 DEF new
<1> QED BY <1>1, <1>2

IsOld(i, k) == i \in DOMAIN buffers /\ k \in DOMAIN buffers[i]
MemoryAt(q, k, c) == q[k].kind = "memory" /\ q[k].call = c
CorrelationAt(q, k, c) == q[k].kind = "correlation" /\ q[k].call = c
Paired(c) == calls[c].together /\ calls[c].op.kind # "none" /\ calls[c].under # None

\* The two records of call c are the new ones, in buffer i at j < k.
PairAt(c, i, j, k) ==
    /\ i \in DOMAIN buffers' /\ j \in DOMAIN buffers'[i] /\ k \in DOMAIN buffers'[i] /\ j < k
    /\ CorrelationAt(buffers'[i], j, c) /\ MemoryAt(buffers'[i], k, c)
    /\ \A x \in DOMAIN buffers' : \A y \in DOMAIN buffers'[x] :
           ~IsOld(x, y) => x = i /\ (y = j \/ y = k)
MemoryOf(c, i, k) == i \in DOMAIN buffers' /\ k \in DOMAIN buffers'[i] /\ MemoryAt(buffers'[i], k, c)

\* Records that were there stay; those that are new are of call c, which has them as
\* NewRecords says.
OldRecordsKept ==
    /\ DOMAIN buffers \subseteq DOMAIN buffers'
    /\ \A i \in DOMAIN buffers : \A k \in DOMAIN buffers[i] :
           k \in DOMAIN buffers'[i] /\ buffers'[i][k] = buffers[i][k]
NewAreOf(c) ==
    \A i \in DOMAIN buffers' : \A k \in DOMAIN buffers'[i] :
        ~IsOld(i, k) => buffers'[i][k].call = c
OneMemory(c) ==
    \A i, j \in DOMAIN buffers' : \A k \in DOMAIN buffers'[i], l \in DOMAIN buffers'[j] :
        MemoryAt(buffers'[i], k, c) /\ MemoryAt(buffers'[j], l, c) => i = j /\ k = l
HasMemory(c) == \E i, k : MemoryOf(c, i, k)
HasPair(c) == \E i, j, k : PairAt(c, i, j, k)
NewRecords(c, op) ==
    /\ OldRecordsKept /\ NewAreOf(c) /\ OneMemory(c)
    /\ op.kind # "none" => HasMemory(c)
    /\ calls'[c].together /\ op.kind # "none" /\ calls'[c].under # None => HasPair(c)

LEMMA TwoJoined == ASSUME NEW a, NEW b PROVE <<a>> \o <<b>> = <<a, b>>
<1> DEFINE S == {a, b}
           joined == <<a>> \o <<b>>
<1>1. <<a>> \in Seq(S) /\ Len(<<a>>) = 1 /\ <<b>> \in Seq(S) /\ Len(<<b>>) = 1
    OBVIOUS
<1>2. joined \in Seq(S) /\ Len(joined) = 2 /\ joined[1] = a /\ joined[2] = b
    <2>1. /\ joined \in Seq(S) /\ Len(joined) = 1 + 1
          /\ \A i \in 1 .. 1 + 1 : joined[i] = IF i <= 1 THEN <<a>>[i] ELSE <<b>>[i - 1]
        BY <1>1, ConcatProperties
    <2> HIDE DEF joined
    <2> QED BY <2>1
<1>3. <<a, b>> \in Seq(S) /\ Len(<<a, b>>) = 2 /\ <<a, b>>[1] = a /\ <<a, b>>[2] = b
    OBVIOUS
<1> HIDE DEF joined
<1>4. joined = <<a, b>>
    <2>1. \A i \in 1 .. 2 : i = 1 \/ i = 2
        OBVIOUS
    <2>2. \A i \in 1 .. 2 : joined[i] = <<a, b>>[i]
        BY <1>2, <1>3, <2>1
    <2> QED BY <1>2, <1>3, <2>2, SeqEqual
<1> QED BY <1>4 DEF joined

\* What BeginCall writes.
LEMMA BeginCallRecords ==
    ASSUME IInv, NEW t \in Threads, NEW op \in Ops, BeginCall(t, op)
    PROVE  NewRecords(Len(calls) + 1, op)
<1> DEFINE c == Len(calls) + 1
           u == Top(stack[t])
           recs == Records(c, op, u)
           R == [kind : {"correlation", "memory"}, call : Nat, usage : UsageOrNone]
           corr == [kind |-> "correlation", call |-> c, usage |-> u]
           mem == [kind |-> "memory", call |-> c, usage |-> None]
<1>1. Len(calls) \in Nat /\ DOMAIN calls = 1 .. Len(calls)
    BY DEF IInv, RecordInv
<1>2. u \in UsageOrNone
    BY DEF IInv, StackInv, Top, UsageOrNone
<1>3. buffers \in Seq(Seq(R))
    <2>1. Genuine \subseteq R
        BY DEF Genuine
    <2> HIDE DEF R
    <2>2. Seq(Genuine) \subseteq Seq(R)
        BY <2>1
    <2>3. Seq(Seq(Genuine)) \subseteq Seq(Seq(R))
        BY <2>2
    <2> QED BY <2>3 DEF IInv, RecordInv
<1>4. corr \in R /\ mem \in R
    BY <1>1, <1>2 DEF UsageOrNone
<1>5. /\ buffers' = WriteAll(buffers, recs)
      /\ calls'[c].under = u
      /\ calls'[c].together => \E i \in DOMAIN buffers' :
             {recs[k] : k \in DOMAIN recs} \subseteq {buffers'[i][k] : k \in DOMAIN buffers'[i]}
    <2>1. buffers' = WriteAll(buffers, recs)
        BY DEF BeginCall
    <2>2. calls' = Append(calls, [op |-> op, under |-> u, together |-> \E i \in DOMAIN buffers' :
              {recs[k] : k \in DOMAIN recs} \subseteq {buffers'[i][k] : k \in DOMAIN buffers'[i]}])
        BY DEF BeginCall
    <2>3. calls'[c] = [op |-> op, under |-> u, together |-> \E i \in DOMAIN buffers' :
              {recs[k] : k \in DOMAIN recs} \subseteq {buffers'[i][k] : k \in DOMAIN buffers'[i]}]
        BY <2>2 DEF IInv, RecordInv
    <2> QED BY <2>1, <2>3
<1>6. \A i \in DOMAIN buffers : \A k \in DOMAIN buffers[i] : buffers[i][k].call # c
    <2>1. ASSUME NEW i \in DOMAIN buffers, NEW k \in DOMAIN buffers[i] PROVE buffers[i][k].call # c
        <3>1. buffers[i] \in Seq(Genuine)
            BY DEF IInv, RecordInv
        <3>2. buffers[i][k] \in Genuine
            BY <3>1
        <3>3. buffers[i][k].call \in DOMAIN calls
            BY <3>2 DEF Genuine
        <3> QED BY <1>1, <3>3
    <2> QED BY <2>1
<1>7. /\ corr.kind = "correlation" /\ corr.call = c /\ mem.kind = "memory" /\ mem.call = c
    OBVIOUS
<1>r. recs = (IF u = None THEN <<>> ELSE <<corr>>) \o (IF op.kind = "none" THEN <<>> ELSE <<mem>>)
    BY DEF Records
<1> HIDE DEF recs, u
<1>8. CASE u = None /\ op.kind = "none"
    <2>1. recs = <<>>
        BY <1>8, <1>r
    <2>2. buffers' = buffers
        BY <1>5, <2>1 DEF WriteAll
    <2> QED BY <1>5, <1>6, <1>8, <2>2 DEF NewRecords, OldRecordsKept, NewAreOf, OneMemory, IsOld, MemoryAt
<1>9. ASSUME NEW r \in {corr, mem}, recs = <<r>>, r = mem <=> op.kind # "none", r = corr => u # None,
             r = mem => u = None
      PROVE  NewRecords(c, op)
    <2>1. buffers' = Write(buffers, r)
        BY <1>5, <1>9 DEF WriteAll
    <2>2. PICK i, k : AddedAt(buffers, buffers', r, i, k)
        BY <1>3, <1>4, <2>1, WriteAdds
    <2>3. r.call = c
        BY <1>7
    <2>4. \A x \in DOMAIN buffers' : \A y \in DOMAIN buffers'[x] : IsOld(x, y) \/ (x = i /\ y = k)
        BY <2>2 DEF AddedAt, IsOld
    <2>5. \A x \in DOMAIN buffers' : \A y \in DOMAIN buffers'[x] :
              IsOld(x, y) => buffers'[x][y].call # c
        BY <1>6, <2>2 DEF AddedAt, IsOld
    <2>6. op.kind # "none" => MemoryOf(c, i, k)
        BY <1>7, <1>9, <2>2 DEF AddedAt, MemoryOf, MemoryAt
    <2>7. \A x \in DOMAIN buffers : \A y \in DOMAIN buffers[x] :
              y \in DOMAIN buffers'[x] /\ buffers'[x][y] = buffers[x][y]
        BY <2>2 DEF AddedAt
    <2>8. \A x \in DOMAIN buffers' : \A y \in DOMAIN buffers'[x] :
              ~IsOld(x, y) => buffers'[x][y].call = c
        BY <2>2, <2>3, <2>4 DEF AddedAt
    <2>9. \A x, z \in DOMAIN buffers' : \A y \in DOMAIN buffers'[x], w \in DOMAIN buffers'[z] :
              MemoryAt(buffers'[x], y, c) /\ MemoryAt(buffers'[z], w, c) => x = z /\ y = w
        BY <2>4, <2>5 DEF MemoryAt
    <2>10. ~(op.kind # "none" /\ calls'[c].under # None)
        BY <1>5, <1>9
    <2>11. DOMAIN buffers \subseteq DOMAIN buffers'
        BY <2>2 DEF AddedAt
    <2> HIDE DEF c
    <2>12. OldRecordsKept
        BY <2>7, <2>11 DEF OldRecordsKept
    <2>13. NewAreOf(c)
        BY <2>8 DEF NewAreOf
    <2>14. OneMemory(c)
        BY <2>9 DEF OneMemory
    <2>15. op.kind # "none" => HasMemory(c)
        BY <2>6 DEF HasMemory
    <2> QED BY <2>10, <2>12, <2>13, <2>14, <2>15 DEF NewRecords
<1>10. CASE u # None /\ op.kind # "none"
    <2>1. recs = <<corr, mem>>
        <3> HIDE DEF corr, mem
        <3>1. recs = <<corr>> \o <<mem>>
            BY <1>10, <1>r
        <3> HIDE DEF R
        <3>2. <<corr>> \o <<mem>> = <<corr, mem>>
            BY TwoJoined
        <3> QED BY <3>1, <3>2
    <2> DEFINE mid == Write(buffers, corr)
    <2>2. buffers' = Write(mid, mem)
        BY <1>5, <2>1 DEF WriteAll
    <2>3. mid \in Seq(Seq(R))
        BY <1>3, <1>4, WriteType
    <2>4. PICK i1, k1 : AddedAt(buffers, mid, corr, i1, k1)
        BY <1>3, <1>4, WriteAdds
    <2>5. PICK i2, k2 : AddedAt(mid, buffers', mem, i2, k2)
        BY <1>4, <2>2, <2>3, WriteAdds
    <2> HIDE DEF mid
    <2>6. \A x \in DOMAIN buffers' : \A y \in DOMAIN buffers'[x] :
              IsOld(x, y) \/ (x = i1 /\ y = k1) \/ (x = i2 /\ y = k2)
        BY <2>4, <2>5 DEF AddedAt, IsOld
    <2>7. /\ i1 \in DOMAIN buffers' /\ k1 \in DOMAIN buffers'[i1] /\ buffers'[i1][k1] = corr
          /\ i2 \in DOMAIN buffers' /\ k2 \in DOMAIN buffers'[i2] /\ buffers'[i2][k2] = mem
          /\ (i1 = i2 => k1 < k2)
        BY <2>4, <2>5 DEF AddedAt
    <2>8. /\ DOMAIN buffers \subseteq DOMAIN buffers'
          /\ \A x \in DOMAIN buffers : \A y \in DOMAIN buffers[x] :
                 y \in DOMAIN buffers'[x] /\ buffers'[x][y] = buffers[x][y]
        BY <2>4, <2>5 DEF AddedAt
    <2>9. \A x \in DOMAIN buffers' : \A y \in DOMAIN buffers'[x] :
              IsOld(x, y) => buffers'[x][y].call # c
        BY <1>6, <2>8 DEF IsOld
    <2>10. /\ CorrelationAt(buffers'[i1], k1, c) /\ MemoryAt(buffers'[i2], k2, c)
           /\ ~MemoryAt(buffers'[i1], k1, c)
        BY <1>7, <2>7 DEF CorrelationAt, MemoryAt
    <2>11. MemoryOf(c, i2, k2)
        BY <2>7, <2>10 DEF MemoryOf
    <2>12. \A x \in DOMAIN buffers' : \A y \in DOMAIN buffers'[x] :
              ~IsOld(x, y) => buffers'[x][y].call = c
        BY <2>6, <2>10 DEF CorrelationAt, MemoryAt
    <2>13. \A x \in DOMAIN buffers' : \A y \in DOMAIN buffers'[x] :
               MemoryAt(buffers'[x], y, c) => x = i2 /\ y = k2
        BY <2>6, <2>9, <2>10 DEF MemoryAt
    <2>14. ASSUME calls'[c].together PROVE PairAt(c, i1, k1, k2)
        <3>1. PICK x \in DOMAIN buffers' :
                  {recs[k] : k \in DOMAIN recs} \subseteq {buffers'[x][k] : k \in DOMAIN buffers'[x]}
            BY <1>5, <2>14
        <3>2. corr \in {recs[k] : k \in DOMAIN recs} /\ mem \in {recs[k] : k \in DOMAIN recs}
            <4>1. DOMAIN recs = {1, 2} /\ recs[1] = corr /\ recs[2] = mem
                BY <2>1
            <4> HIDE DEF corr, mem
            <4> QED BY <4>1
        <3>3. PICK a \in DOMAIN buffers'[x] : buffers'[x][a] = corr
            BY <3>1, <3>2
        <3>4. PICK b \in DOMAIN buffers'[x] : buffers'[x][b] = mem
            BY <3>1, <3>2
        <3>5. corr.call = c /\ mem.call = c /\ corr # mem
            BY <1>7
        <3> HIDE DEF corr, mem
        <3>6. x = i1 /\ a = k1
            BY <2>6, <2>7, <2>9, <3>3, <3>5
        <3>7. x = i2 /\ b = k2
            BY <2>6, <2>7, <2>9, <3>4, <3>5
        <3> QED BY <2>6, <2>7, <2>10, <3>6, <3>7 DEF PairAt
    <2> HIDE DEF c
    <2>15. HasMemory(c)
        BY <2>11 DEF HasMemory
    <2>16. calls'[c].together => HasPair(c)
        BY <2>14 DEF HasPair
    <2>17. OneMemory(c)
        BY <2>13 DEF OneMemory
    <2>18. OldRecordsKept
        BY <2>8 DEF OldRecordsKept
    <2>19. NewAreOf(c)
        BY <2>12 DEF NewAreOf
    <2>20. NewRecords(c, op)
        BY <2>15, <2>16, <2>17, <2>18, <2>19 DEF NewRecords
    <2> QED BY <2>20 DEF c
<1>11. CASE u # None /\ op.kind = "none"
    <2>1. recs = <<corr>>
        BY <1>11, <1>r
    <2>2. corr # mem
        BY <1>7
    <2> QED BY <1>9, <1>11, <2>1, <2>2
<1>12. CASE u = None /\ op.kind # "none"
    <2>1. recs = <<mem>>
        BY <1>12, <1>r
    <2>2. corr # mem
        BY <1>7
    <2> QED BY <1>9, <1>12, <2>1, <2>2
<1> QED BY <1>8, <1>10, <1>11, <1>12

\* The buffer that stood at place i is gone, the others have moved up.
Moved(i, j) == IF j < i THEN j ELSE j + 1
LEMMA BufferRemoved ==
    ASSUME IInv, NEW i \in DOMAIN buffers,
           buffers' = SubSeq(buffers, 1, i - 1) \o SubSeq(buffers, i + 1, Len(buffers))
    PROVE  /\ \A j \in DOMAIN buffers' :
                  Moved(i, j) \in DOMAIN buffers \ {i} /\ buffers'[j] = buffers[Moved(i, j)]
           /\ \A j, x \in DOMAIN buffers' : Moved(i, j) = Moved(i, x) => j = x
           /\ \A x \in DOMAIN buffers \ {i} : \E j \in DOMAIN buffers' : Moved(i, j) = x
<1> DEFINE n == Len(buffers)
           S == Seq(Genuine)
           front == SubSeq(buffers, 1, i - 1)
           back == SubSeq(buffers, i + 1, n)
<1>1. buffers \in Seq(S) /\ n \in Nat /\ DOMAIN buffers = 1 .. n /\ i \in 1 .. n
    BY SMTT(30) DEF IInv, RecordInv
<1>2. \A j \in 1 .. n : buffers[j] \in S
    BY <1>1
<1> HIDE DEF S, n
<1>3. front \in Seq(S) /\ Len(front) = i - 1 /\ \A j \in 1 .. i - 1 : front[j] = buffers[j]
    <2>1. \A j \in 1 .. i - 1 : buffers[j] \in S
        BY <1>1, <1>2
    <2>2. /\ SubSeq(buffers, 1, i - 1) \in Seq(S)
          /\ Len(SubSeq(buffers, 1, i - 1)) = IF 1 <= i - 1 THEN (i - 1) - 1 + 1 ELSE 0
          /\ \A j \in 1 .. (i - 1) - 1 + 1 : SubSeq(buffers, 1, i - 1)[j] = buffers[1 + j - 1]
        BY <1>1, <2>1, SubSeqProperties
    <2>3. i \in Int /\ i >= 1
        BY <1>1
    <2>4. (i - 1) - 1 + 1 = i - 1 /\ (IF 1 <= i - 1 THEN (i - 1) - 1 + 1 ELSE 0) = i - 1
          /\ \A j \in 1 .. i - 1 : 1 + j - 1 = j
        BY <2>3
    <2> QED BY <2>2, <2>4
<1>4. back \in Seq(S) /\ Len(back) = n - i /\ \A j \in 1 .. n - i : back[j] = buffers[i + j]
    <2>1. \A j \in i + 1 .. n : buffers[j] \in S
        BY <1>1, <1>2
    <2>2. /\ SubSeq(buffers, i + 1, n) \in Seq(S)
          /\ Len(SubSeq(buffers, i + 1, n)) = IF i + 1 <= n THEN n - (i + 1) + 1 ELSE 0
          /\ \A j \in 1 .. n - (i + 1) + 1 : SubSeq(buffers, i + 1, n)[j] = buffers[(i + 1) + j - 1]
        BY <1>1, <2>1, SubSeqProperties
    <2>3. i \in Int /\ i >= 1 /\ n \in Int /\ i <= n
        BY <1>1
    <2>4. n - (i + 1) + 1 = n - i
        BY <2>3
    <2>5. (IF i + 1 <= n THEN n - (i + 1) + 1 ELSE 0) = n - i
        BY <2>3
    <2>6. \A j \in 1 .. n - i : (i + 1) + j - 1 = i + j
        BY <2>3
    <2> QED BY <2>2, <2>4, <2>5, <2>6
<1>5. buffers' = front \o back
    BY DEF n
<1> HIDE DEF front, back
<1>6. /\ DOMAIN buffers' = 1 .. n - 1
      /\ \A j \in 1 .. n - 1 : buffers'[j] = IF j <= i - 1 THEN front[j] ELSE back[j - (i - 1)]
    <2>1. /\ front \o back \in Seq(S) /\ Len(front \o back) = Len(front) + Len(back)
          /\ \A j \in 1 .. Len(front) + Len(back) :
                 (front \o back)[j] = IF j <= Len(front) THEN front[j] ELSE back[j - Len(front)]
        BY <1>3, <1>4, ConcatProperties
    <2>2. Len(front) + Len(back) = n - 1
        BY <1>1, <1>3, <1>4
    <2>3. DOMAIN (front \o back) = 1 .. Len(front \o back)
        BY <2>1, LenProperties
    <2>4. Len(front) = i - 1
        BY <1>3
    <2> QED BY <1>5, <2>1, <2>2, <2>3, <2>4
<1>7. ASSUME NEW j \in 1 .. n - 1
      PROVE  Moved(i, j) \in (1 .. n) \ {i} /\ buffers'[j] = buffers[Moved(i, j)]
    <2>1. CASE j < i
        <3>1. Moved(i, j) = j /\ j <= i - 1 /\ j \in 1 .. i - 1 /\ j \in (1 .. n) \ {i}
            BY <1>1, <2>1 DEF Moved
        <3>2. buffers'[j] = front[j]
            BY <1>6, <3>1
        <3> QED BY <1>3, <3>1, <3>2
    <2>2. CASE ~(j < i)
        <3>0. i \in 1 .. n /\ n \in Nat /\ j \in 1 .. n - 1 /\ ~(j < i)
            BY <1>1, <2>2
        <3>4. Moved(i, j) = j + 1
            BY <3>0 DEF Moved
        <3>5. ~(j <= i - 1) /\ j - (i - 1) \in 1 .. n - i
            BY <3>0
        <3>6. j + 1 \in (1 .. n) \ {i}
            BY <3>0
        <3>7. i + (j - (i - 1)) = j + 1
            BY <3>0
        <3>1. /\ Moved(i, j) = j + 1 /\ ~(j <= i - 1) /\ j - (i - 1) \in 1 .. n - i
              /\ j + 1 \in (1 .. n) \ {i} /\ i + (j - (i - 1)) = j + 1
            BY <3>4, <3>5, <3>6, <3>7
        <3>2. buffers'[j] = back[j - (i - 1)]
            BY <1>6, <3>1
        <3>3. back[j - (i - 1)] = buffers[i + (j - (i - 1))]
            BY <1>4, <3>1
        <3> QED BY <3>1, <3>2, <3>3
    <2> QED BY <2>1, <2>2
<1>8. \A j, x \in 1 .. n - 1 : Moved(i, j) = Moved(i, x) => j = x
    BY <1>1 DEF Moved
<1>9. ASSUME NEW x \in (1 .. n) \ {i} PROVE \E j \in 1 .. n - 1 : Moved(i, j) = x
    <2> DEFINE j == IF x < i THEN x ELSE x - 1
    <2>1. j \in 1 .. n - 1 /\ Moved(i, j) = x
        BY <1>1 DEF Moved
    <2> QED BY <2>1
<1> QED BY <1>1, <1>6, <1>7, <1>8, <1>9
-----------------------------------------------------------------------------
Same(q, k, r, l) == q[k].kind = "memory" /\ r[l].kind = "memory" /\ q[k].call = r[l].call
Settled(c) == \E u \in Usages : c \in applied[u] \cup merged[u]
Uncounted(q) == \A k \in DOMAIN q : q[k].kind = "memory" => ~Settled(q[k].call)

\* A call has one memory record ...
OneRecord ==
    /\ \A i, j \in DOMAIN buffers : \A k \in DOMAIN buffers[i], l \in DOMAIN buffers[j] :
           Same(buffers[i], k, buffers[j], l) => i = j /\ k = l
    /\ \A d, e \in Deliverers : \A k \in DOMAIN delivery[d], l \in DOMAIN delivery[e] :
           Same(delivery[d], k, delivery[e], l) => d = e /\ k = l
    /\ \A i \in DOMAIN buffers, d \in Deliverers :
           \A k \in DOMAIN buffers[i], l \in DOMAIN delivery[d] :
               ~Same(buffers[i], k, delivery[d], l)
\* ... which was handed over when the call is counted.
NotCounted ==
    /\ \A i \in DOMAIN buffers : Uncounted(buffers[i])
    /\ \A d \in Deliverers : Uncounted(delivery[d])

AtMemory == \A d \in Deliverers : found[d] # None => At(d, "memory")

\* What a deliverer read is still the sum, unless another one has come in between.
LoadInv ==
    \A d \in Deliverers : load[d] # <<>> /\ found[d] \notin raced =>
        valid[found[d]] /\ load[d] = <<bytes[found[d]][SlotOf(OpOf(d))]>>

CountInv == OneRecord /\ NotCounted /\ AtMemory /\ LoadInv /\ Counted
-----------------------------------------------------------------------------
\* Place k of what e has left after d went on to its next record, before that.
Ahead(d, e, k) == IF e = d THEN k + 1 ELSE k
LEMMA RecordTaken ==
    ASSUME IInv, NEW d \in Deliverers, delivery[d] # <<>>, NextRecord(d)
    PROVE  \A e \in Deliverers : \A k \in DOMAIN delivery'[e] :
               /\ k \in Nat \ {0} /\ Ahead(d, e, k) \in DOMAIN delivery[e]
               /\ delivery'[e][k] = delivery[e][Ahead(d, e, k)]
<1>1. delivery' = [delivery EXCEPT ![d] = Tail(delivery[d])]
    BY DEF NextRecord
<1>2. ASSUME NEW e \in Deliverers PROVE delivery[e] \in Seq(Genuine)
    BY DEF IInv, RecordInv
<1>3. CASE TRUE
    <2> DEFINE q == delivery[d]
    <2>1. /\ Tail(q) \in Seq(Genuine) /\ Len(Tail(q)) = Len(q) - 1 /\ Len(q) \in Nat
          /\ \A k \in 1 .. Len(Tail(q)) : Tail(q)[k] = q[k + 1]
        BY <1>2, HeadTailProperties
    <2>2. ASSUME NEW k \in DOMAIN delivery'[d]
          PROVE  /\ k \in Nat \ {0} /\ k + 1 \in DOMAIN delivery[d]
                 /\ delivery'[d][k] = delivery[d][k + 1]
        <3>1. delivery'[d] = Tail(q)
            BY <1>1 DEF IInv, RecordInv
        <3>2. k \in 1 .. Len(q) - 1
            BY <2>1, <3>1
        <3> QED BY <1>2, <2>1, <3>1, <3>2
    <2>3. ASSUME NEW e \in Deliverers \ {d}, NEW k \in DOMAIN delivery'[e]
          PROVE  /\ k \in Nat \ {0} /\ k \in DOMAIN delivery[e]
                 /\ delivery'[e][k] = delivery[e][k]
        <3>1. delivery'[e] = delivery[e]
            BY <1>1 DEF IInv, RecordInv
        <3>2. DOMAIN delivery[e] = 1 .. Len(delivery[e]) /\ Len(delivery[e]) \in Nat
            BY <1>2
        <3> QED BY <3>1, <3>2
    <2> QED BY <2>2, <2>3 DEF Ahead
<1> QED BY <1>3

LEMMA NextRecordOne ==
    ASSUME IInv, OneRecord, NEW d \in Deliverers, delivery[d] # <<>>, NextRecord(d),
           buffers' = buffers
    PROVE  OneRecord'
<1>1. \A e \in Deliverers : \A k \in DOMAIN delivery'[e] :
          /\ k \in Nat \ {0} /\ Ahead(d, e, k) \in DOMAIN delivery[e]
          /\ delivery'[e][k] = delivery[e][Ahead(d, e, k)]
    BY RecordTaken
<1>2. ASSUME NEW e \in Deliverers, NEW f \in Deliverers,
             NEW k \in DOMAIN delivery'[e], NEW l \in DOMAIN delivery'[f],
             Same(delivery'[e], k, delivery'[f], l)
      PROVE  e = f /\ k = l
    <2>1. Same(delivery[e], Ahead(d, e, k), delivery[f], Ahead(d, f, l))
        BY <1>1, <1>2 DEF Same
    <2>2. e = f /\ Ahead(d, e, k) = Ahead(d, f, l)
        BY <1>1, <2>1 DEF OneRecord
    <2>3. k \in Nat /\ l \in Nat
        BY <1>1
    <2> QED BY <2>2, <2>3 DEF Ahead
<1>3. ASSUME NEW i \in DOMAIN buffers, NEW e \in Deliverers, NEW k \in DOMAIN buffers[i],
             NEW l \in DOMAIN delivery'[e], Same(buffers[i], k, delivery'[e], l)
      PROVE  FALSE
    <2>1. Same(buffers[i], k, delivery[e], Ahead(d, e, l))
        BY <1>1, <1>3 DEF Same
    <2> QED BY <1>1, <2>1 DEF OneRecord
<1> QED BY <1>2, <1>3 DEF OneRecord, Same

\* The record that is taken is the only one of its call.
LEMMA TakenOnce ==
    ASSUME IInv, OneRecord, NEW d \in Deliverers, delivery[d] # <<>>, NextRecord(d),
           buffers' = buffers, Head(delivery[d]).kind = "memory"
    PROVE  /\ \A i \in DOMAIN buffers' : \A k \in DOMAIN buffers'[i] :
                  buffers'[i][k].kind = "memory" => buffers'[i][k].call # Head(delivery[d]).call
           /\ \A e \in Deliverers : \A k \in DOMAIN delivery'[e] :
                  delivery'[e][k].kind = "memory" => delivery'[e][k].call # Head(delivery[d]).call
<1>1. \A e \in Deliverers : \A k \in DOMAIN delivery'[e] :
          /\ k \in Nat \ {0} /\ Ahead(d, e, k) \in DOMAIN delivery[e]
          /\ delivery'[e][k] = delivery[e][Ahead(d, e, k)]
    BY RecordTaken
<1>2. 1 \in DOMAIN delivery[d] /\ Head(delivery[d]) = delivery[d][1]
    <2>1. delivery[d] \in Seq(Genuine)
        BY DEF IInv, RecordInv
    <2> QED BY <2>1
<1>3. ASSUME NEW i \in DOMAIN buffers, NEW k \in DOMAIN buffers[i], buffers[i][k].kind = "memory"
      PROVE  buffers[i][k].call # Head(delivery[d]).call
    BY <1>2, <1>3 DEF OneRecord, Same
<1>4. ASSUME NEW e \in Deliverers, NEW k \in DOMAIN delivery'[e], delivery'[e][k].kind = "memory"
      PROVE  delivery'[e][k].call # Head(delivery[d]).call
    <2>1. k \in Nat \ {0} /\ ~(e = d /\ Ahead(d, e, k) = 1)
        BY <1>1 DEF Ahead
    <2> QED BY <1>1, <1>2, <1>4, <2>1 DEF OneRecord, Same
<1> QED BY <1>3, <1>4

LEMMA NextRecordUncounted ==
    ASSUME IInv, OneRecord, NotCounted, NEW d \in Deliverers, delivery[d] # <<>>, NextRecord(d),
           buffers' = buffers,
           \A c : Settled(c)' => \/ Settled(c)
                                 \/ c = Head(delivery[d]).call /\ Head(delivery[d]).kind = "memory"
    PROVE  NotCounted'
<1>1. \A e \in Deliverers : \A k \in DOMAIN delivery'[e] :
          /\ Ahead(d, e, k) \in DOMAIN delivery[e]
          /\ delivery'[e][k] = delivery[e][Ahead(d, e, k)]
    BY RecordTaken
<1>2. ASSUME NEW i \in DOMAIN buffers, NEW k \in DOMAIN buffers[i], buffers[i][k].kind = "memory"
      PROVE  ~Settled(buffers[i][k].call)'
    <2>1. ~Settled(buffers[i][k].call)
        BY <1>2 DEF NotCounted, Uncounted
    <2> QED BY <1>2, <2>1, TakenOnce
<1>3. ASSUME NEW e \in Deliverers, NEW k \in DOMAIN delivery'[e], delivery'[e][k].kind = "memory"
      PROVE  ~Settled(delivery[e][k].call)'
    <2>1. ~Settled(delivery'[e][k].call)
        BY <1>1, <1>3 DEF NotCounted, Uncounted
    <2> QED BY <1>3, <2>1, TakenOnce DEF Settled
<1> QED BY <1>2, <1>3 DEF NotCounted, Uncounted, Settled

\* A buffer that is delivered takes its records along.
LEMMA BufferCompletedRecords ==
    ASSUME IInv, NEW d \in Deliverers, NEW i \in DOMAIN buffers, BufferCompleted(d, i),
           OneRecord, NotCounted
    PROVE  OneRecord' /\ NotCounted'
<1>1. /\ delivery[d] = <<>> /\ delivery' = [delivery EXCEPT ![d] = buffers[i]]
      /\ UNCHANGED <<applied, merged>>
      /\ buffers' = SubSeq(buffers, 1, i - 1) \o SubSeq(buffers, i + 1, Len(buffers))
    BY DEF BufferCompleted, history
<1>2. /\ \A j \in DOMAIN buffers' :
             Moved(i, j) \in DOMAIN buffers \ {i} /\ buffers'[j] = buffers[Moved(i, j)]
      /\ \A j, x \in DOMAIN buffers' : Moved(i, j) = Moved(i, x) => j = x
    BY <1>1, BufferRemoved
<1>3. delivery'[d] = buffers[i] /\ \A e \in Deliverers \ {d} : delivery'[e] = delivery[e]
    BY <1>1 DEF IInv, RecordInv
<1>4. OneRecord'
    <2>1. ASSUME NEW j \in DOMAIN buffers', NEW x \in DOMAIN buffers',
                 NEW k \in DOMAIN buffers'[j], NEW l \in DOMAIN buffers'[x],
                 Same(buffers'[j], k, buffers'[x], l)
          PROVE  j = x /\ k = l
        BY <1>2, <2>1 DEF OneRecord
    <2>2. ASSUME NEW e \in Deliverers, NEW f \in Deliverers,
                 NEW k \in DOMAIN delivery'[e], NEW l \in DOMAIN delivery'[f],
                 Same(delivery'[e], k, delivery'[f], l)
          PROVE  e = f /\ k = l
        <3>1. CASE e # d /\ f # d
            BY <1>3, <2>2, <3>1 DEF OneRecord
        <3>2. CASE e = d /\ f = d
            BY <1>3, <2>2, <3>2 DEF OneRecord
        <3>3. CASE e = d /\ f # d
            BY <1>3, <2>2, <3>3 DEF OneRecord
        <3>4. CASE e # d /\ f = d
            BY <1>3, <2>2, <3>4 DEF OneRecord, Same
        <3> QED BY <3>1, <3>2, <3>3, <3>4
    <2>3. ASSUME NEW j \in DOMAIN buffers', NEW e \in Deliverers, NEW k \in DOMAIN buffers'[j],
                 NEW l \in DOMAIN delivery'[e], Same(buffers'[j], k, delivery'[e], l)
          PROVE  FALSE
        <3>1. CASE e = d
            BY <1>2, <1>3, <2>3, <3>1 DEF OneRecord
        <3>2. CASE e # d
            BY <1>2, <1>3, <2>3, <3>2 DEF OneRecord
        <3> QED BY <3>1, <3>2
    <2> QED BY <2>1, <2>2, <2>3 DEF OneRecord, Same
<1>5. NotCounted'
    <2>1. \A c : Settled(c)' <=> Settled(c)
        BY <1>1 DEF Settled
    <2>2. \A j \in DOMAIN buffers' : Uncounted(buffers'[j])
        BY <1>2 DEF NotCounted
    <2>3. \A e \in Deliverers : Uncounted(delivery'[e])
        BY <1>3 DEF NotCounted
    <2> QED BY <2>1, <2>2, <2>3 DEF NotCounted, Uncounted
<1> QED BY <1>4, <1>5
-----------------------------------------------------------------------------
LEMMA BeginCallCount ==
    ASSUME IInv, TypeInv, CountInv, NEW t \in Threads, NEW op \in Ops, BeginCall(t, op)
    PROVE  CountInv'
<1> DEFINE c == Len(calls) + 1
<1>1. NewRecords(c, op)
    BY BeginCallRecords
<1>2. /\ \E call : calls' = Append(calls, call)
      /\ UNCHANGED <<delivery, found, load, members, applied, merged, raced>>
    BY DEF BeginCall
<1>3. /\ c \notin DOMAIN calls /\ DOMAIN calls \subseteq DOMAIN calls'
      /\ \A k \in DOMAIN calls : calls'[k] = calls[k]
    BY <1>2 DEF IInv, RecordInv
<1>4. /\ \A i \in DOMAIN buffers : \A k \in DOMAIN buffers[i] : buffers[i][k].call \in DOMAIN calls
      /\ \A d \in Deliverers : \A k \in DOMAIN delivery[d] : delivery[d][k].call \in DOMAIN calls
    <2>1. \A q \in Seq(Genuine) : \A k \in DOMAIN q : q[k].call \in DOMAIN calls
        <3> SUFFICES ASSUME NEW q \in Seq(Genuine), NEW k \in DOMAIN q PROVE q[k].call \in DOMAIN calls
            OBVIOUS
        <3>1. q[k] \in Genuine
            OBVIOUS
        <3> QED BY <3>1 DEF Genuine
    <2>2. \A i \in DOMAIN buffers : buffers[i] \in Seq(Genuine)
        BY DEF IInv, RecordInv
    <2> QED BY <2>1, <2>2 DEF IInv, RecordInv
<1>5. /\ \A u \in Usages : applied[u] \cup merged[u] \subseteq DOMAIN calls
      /\ \A x : Settled(x)' <=> Settled(x)
    BY <1>2, CountingCalls DEF Settled
<1> HIDE DEF c
<1>6. /\ \A i \in DOMAIN buffers' : \A k \in DOMAIN buffers'[i] :
             \/ buffers'[i][k].call = c /\ ~IsOld(i, k)
             \/ IsOld(i, k) /\ buffers'[i][k] = buffers[i][k] /\ buffers'[i][k].call # c
    BY <1>1, <1>3, <1>4 DEF NewRecords, OldRecordsKept, NewAreOf, IsOld
<1>7. OneRecord'
    <2>1. ASSUME NEW i \in DOMAIN buffers', NEW j \in DOMAIN buffers',
                 NEW k \in DOMAIN buffers'[i], NEW l \in DOMAIN buffers'[j],
                 Same(buffers'[i], k, buffers'[j], l)
          PROVE  i = j /\ k = l
        <3>1. CASE buffers'[i][k].call = c
            <4>1. MemoryAt(buffers'[i], k, c) /\ MemoryAt(buffers'[j], l, c)
                BY <2>1, <3>1 DEF Same, MemoryAt
            <4> QED BY <1>1, <4>1 DEF NewRecords, OneMemory
        <3>2. CASE buffers'[i][k].call # c
            <4>1. buffers'[j][l].call # c
                BY <2>1, <3>2 DEF Same
            <4>2. /\ i \in DOMAIN buffers /\ k \in DOMAIN buffers[i] /\ buffers'[i][k] = buffers[i][k]
                  /\ j \in DOMAIN buffers /\ l \in DOMAIN buffers[j] /\ buffers'[j][l] = buffers[j][l]
                BY <1>6, <3>2, <4>1 DEF IsOld
            <4>3. Same(buffers[i], k, buffers[j], l)
                BY <2>1, <4>2 DEF Same
            <4> QED BY <4>2, <4>3 DEF CountInv, OneRecord
        <3> QED BY <3>1, <3>2
    <2>2. ASSUME NEW i \in DOMAIN buffers', NEW d \in Deliverers,
                 NEW k \in DOMAIN buffers'[i], NEW l \in DOMAIN delivery[d],
                 Same(buffers'[i], k, delivery[d], l)
          PROVE  FALSE
        <3>1. buffers'[i][k].call # c
            BY <1>3, <1>4, <2>2 DEF Same
        <3>2. i \in DOMAIN buffers /\ k \in DOMAIN buffers[i] /\ Same(buffers[i], k, delivery[d], l)
            BY <1>6, <2>2, <3>1 DEF IsOld, Same
        <3> QED BY <3>2 DEF CountInv, OneRecord
    <2>3. delivery' = delivery
        BY <1>2
    <2> QED BY <2>1, <2>2, <2>3 DEF CountInv, OneRecord, Same
<1>8. NotCounted'
    <2>1. ASSUME NEW i \in DOMAIN buffers', NEW k \in DOMAIN buffers'[i], buffers'[i][k].kind = "memory"
          PROVE  ~Settled(buffers'[i][k].call)
        <3>1. CASE buffers'[i][k].call = c
            BY <1>3, <1>5, <3>1 DEF Settled
        <3>2. CASE buffers'[i][k].call # c
            BY <1>6, <2>1, <3>2 DEF IsOld, CountInv, NotCounted, Uncounted
        <3> QED BY <3>1, <3>2
    <2>2. \A d \in Deliverers : \A k \in DOMAIN delivery[d] :
              delivery[d][k].kind = "memory" => ~Settled(delivery[d][k].call)
        BY DEF CountInv, NotCounted, Uncounted
    <2> QED BY <1>2, <1>5, <2>1, <2>2 DEF NotCounted, Uncounted, Settled
<1>9. AtMemory'
    BY <1>2 DEF CountInv, AtMemory, At
<1>10. LoadInv'
    <2>1. ASSUME NEW d \in Deliverers, load[d] # <<>> PROVE OpOf(d)' = OpOf(d)
        <3>1. Head(delivery[d]).call \in DOMAIN calls
            BY <2>1 DEF IInv, FoundInv, UnderOf
        <3>2. Head(delivery[d])' = Head(delivery[d])
            BY <1>2
        <3> QED BY <1>3, <3>1, <3>2 DEF OpOf
    <2> QED BY <1>2, <2>1 DEF CountInv, LoadInv, members
<1>11. Counted'
    BY <1>2, <1>3, TotalKept DEF CountInv, Counted, members
<1> QED BY <1>7, <1>8, <1>9, <1>10, <1>11 DEF CountInv

\* Steps that do not count, and move no record.
LEMMA CountKept ==
    ASSUME IInv, TypeInv, CountInv,
           UNCHANGED <<buffers, delivery, found, load, calls, bytes, valid, applied, merged, raced>>
    PROVE  CountInv'
<1>1. \A c : Settled(c)' <=> Settled(c)
    BY DEF Settled
<1>2. OneRecord' /\ NotCounted'
    BY <1>1 DEF CountInv, OneRecord, NotCounted, Same, Uncounted
<1>3. AtMemory'
    BY DEF CountInv, AtMemory, At
<1>4. LoadInv'
    <2>1. \A d : OpOf(d)' = OpOf(d)
        BY DEF OpOf
    <2> QED BY <2>1 DEF CountInv, LoadInv
<1>5. Counted'
    BY TotalKept DEF CountInv, Counted
<1> QED BY <1>2, <1>3, <1>4, <1>5 DEF CountInv

LEMMA BufferCompletedCount ==
    ASSUME IInv, TypeInv, CountInv, NEW d \in Deliverers, NEW i \in DOMAIN buffers,
           BufferCompleted(d, i)
    PROVE  CountInv'
<1>1. /\ delivery[d] = <<>> /\ delivery' = [delivery EXCEPT ![d] = buffers[i]]
      /\ UNCHANGED <<calls, found, load, bytes, valid, applied, merged, raced>>
    BY DEF BufferCompleted, history, members
<1>2. OneRecord' /\ NotCounted'
    BY BufferCompletedRecords DEF CountInv
<1>3. found[d] = None /\ load[d] = <<>> /\ \A e \in Deliverers \ {d} : delivery'[e] = delivery[e]
    BY <1>1 DEF IInv, FoundInv, RecordInv
<1>4. AtMemory'
    BY <1>1, <1>3 DEF CountInv, AtMemory, At
<1>5. LoadInv'
    <2>1. \A e \in Deliverers \ {d} : OpOf(e)' = OpOf(e)
        BY <1>1, <1>3 DEF OpOf
    <2> QED BY <1>1, <1>3, <2>1 DEF CountInv, LoadInv
<1>6. Counted'
    BY <1>1, TotalKept DEF CountInv, Counted
<1> QED BY <1>2, <1>4, <1>5, <1>6 DEF CountInv
-----------------------------------------------------------------------------
\* What stays when d goes on to its next record.
LEMMA NextRecordCount ==
    ASSUME IInv, CountInv, NEW d \in Deliverers, delivery[d] # <<>>, NextRecord(d),
           buffers' = buffers, calls' = calls,
           \A c : Settled(c)' => \/ Settled(c)
                                 \/ c = Head(delivery[d]).call /\ Head(delivery[d]).kind = "memory"
    PROVE  /\ OneRecord' /\ NotCounted' /\ AtMemory'
           /\ found'[d] = None /\ load'[d] = <<>>
           /\ \A e \in Deliverers \ {d} :
                  found'[e] = found[e] /\ load'[e] = load[e] /\ OpOf(e)' = OpOf(e)
<1>1. OneRecord' /\ NotCounted'
    BY NextRecordOne, NextRecordUncounted DEF CountInv
<1>2. /\ delivery' = [delivery EXCEPT ![d] = Tail(delivery[d])]
      /\ found' = [found EXCEPT ![d] = None]
      /\ load' = [load EXCEPT ![d] = <<>>]
    BY DEF NextRecord
<1>3. found'[d] = None /\ load'[d] = <<>>
    BY <1>2 DEF IInv, FoundInv
<1>4. ASSUME NEW e \in Deliverers \ {d}
      PROVE  delivery'[e] = delivery[e] /\ found'[e] = found[e] /\ load'[e] = load[e]
    BY <1>2 DEF IInv, FoundInv, RecordInv
<1>5. \A e \in Deliverers \ {d} : OpOf(e)' = OpOf(e)
    BY <1>4 DEF OpOf
<1>6. AtMemory'
    BY <1>3, <1>4 DEF CountInv, AtMemory, At
<1> QED BY <1>1, <1>3, <1>4, <1>5, <1>6

LEMMA IgnoreCount ==
    ASSUME IInv, TypeInv, CountInv, NEW d \in Deliverers, delivery[d] # <<>>, NextRecord(d),
           UNCHANGED <<buffers, calls, bytes, valid, applied, merged, raced>>
    PROVE  CountInv'
<1>1. \A c : Settled(c)' <=> Settled(c)
    BY DEF Settled
<1>2. /\ OneRecord' /\ NotCounted' /\ AtMemory'
      /\ found'[d] = None /\ load'[d] = <<>>
      /\ \A e \in Deliverers \ {d} :
             found'[e] = found[e] /\ load'[e] = load[e] /\ OpOf(e)' = OpOf(e)
    BY <1>1, NextRecordCount
<1>3. LoadInv'
    BY <1>2 DEF CountInv, LoadInv
<1>4. Counted'
    BY TotalKept DEF CountInv, Counted
<1> QED BY <1>2, <1>3, <1>4 DEF CountInv

LEMMA LookUpCount ==
    ASSUME IInv, TypeInv, CountInv, NEW d \in Deliverers, LookUpUsage(d) PROVE CountInv'
<1>1. /\ At(d, "memory") /\ found[d] = None
      /\ UNCHANGED <<buffers, calls, bytes, valid, applied, merged, raced>>
      /\ NextRecord(d) \/ (UNCHANGED <<delivery, load>> /\ \E u : found' = [found EXCEPT ![d] = u])
    BY DEF LookUpUsage, cupti, members
<1>2. CASE NextRecord(d)
    BY <1>1, <1>2, IgnoreCount DEF At
<1>3. CASE UNCHANGED <<delivery, load>> /\ \E u : found' = [found EXCEPT ![d] = u]
    <2>1. load[d] = <<>> /\ \A e \in Deliverers \ {d} : found'[e] = found[e]
        BY <1>1, <1>3 DEF IInv, FoundInv
    <2>2. \A c : Settled(c)' <=> Settled(c)
        BY <1>1 DEF Settled
    <2>3. OneRecord' /\ NotCounted'
        BY <1>1, <1>3, <2>2 DEF CountInv, OneRecord, NotCounted, Same, Uncounted
    <2>4. AtMemory'
        BY <1>1, <1>3, <2>1 DEF CountInv, AtMemory, At
    <2>5. LoadInv'
        <3>1. \A e : OpOf(e)' = OpOf(e)
            BY <1>1, <1>3 DEF OpOf
        <3> QED BY <1>1, <1>3, <2>1, <3>1 DEF CountInv, LoadInv
    <2>6. Counted'
        BY <1>1, TotalKept DEF CountInv, Counted
    <2> QED BY <2>3, <2>4, <2>5, <2>6 DEF CountInv
<1> QED BY <1>1, <1>2, <1>3

LEMMA InvalidateCount ==
    ASSUME IInv, TypeInv, CountInv, NEW d \in Deliverers, Invalidate(d) PROVE CountInv'
<1> DEFINE u == found[d]
<1>1. /\ u # None /\ NextRecord(d) /\ valid' = [valid EXCEPT ![u] = FALSE]
      /\ raced' = IF Others(d) = {} THEN raced ELSE raced \cup {u}
      /\ UNCHANGED <<buffers, calls, bytes, applied, merged>>
    BY DEF Invalidate, Race, cupti
<1>2. delivery[d] # <<>> /\ u \in Usages
    BY <1>1 DEF IInv, FoundInv, UsageOrNone
<1>3. \A c : Settled(c)' <=> Settled(c)
    BY <1>1 DEF Settled
<1>4. /\ OneRecord' /\ NotCounted' /\ AtMemory'
      /\ found'[d] = None /\ load'[d] = <<>>
      /\ \A e \in Deliverers \ {d} :
             found'[e] = found[e] /\ load'[e] = load[e] /\ OpOf(e)' = OpOf(e)
    BY <1>1, <1>2, <1>3, NextRecordCount
<1>5. ASSUME NEW e \in Deliverers, load'[e] # <<>>, found'[e] \notin raced'
      PROVE  valid'[found'[e]] /\ load'[e] = <<bytes'[found'[e]][SlotOf(OpOf(e)')]>>
    <2>1. e # d /\ found'[e] = found[e] /\ load'[e] = load[e] /\ OpOf(e)' = OpOf(e)
        BY <1>4, <1>5
    <2>2. found[e] # u
        BY <1>1, <1>5, <2>1 DEF Others
    <2>3. found[e] \notin raced
        BY <1>1, <1>5, <2>1
    <2>4. valid[found[e]] /\ load[e] = <<bytes[found[e]][SlotOf(OpOf(e))]>>
        BY <1>5, <2>1, <2>3 DEF CountInv, LoadInv
    <2>5. valid'[found[e]] = valid[found[e]]
        BY <1>1, <2>2 DEF TypeInv, UsageType
    <2> QED BY <1>1, <2>1, <2>4, <2>5
<1>6. LoadInv'
    BY <1>5 DEF LoadInv
<1>7. Counted'
    BY <1>1, TotalKept DEF CountInv, Counted
<1> QED BY <1>4, <1>6, <1>7 DEF CountInv

LEMMA ReadCount ==
    ASSUME IInv, TypeInv, CountInv, NEW d \in Deliverers, ReadSum(d) PROVE CountInv'
<1>1. /\ found[d] # None /\ valid[found[d]]
      /\ load' = [load EXCEPT ![d] = <<bytes[found[d]][SlotOf(OpOf(d))]>>]
      /\ UNCHANGED <<buffers, delivery, found, calls, bytes, valid, applied, merged, raced>>
    BY DEF ReadSum, cupti, members
<1>2. \A e : OpOf(e)' = OpOf(e)
    BY <1>1 DEF OpOf
<1>3. /\ load'[d] = <<bytes[found[d]][SlotOf(OpOf(d))]>>
      /\ \A e \in Deliverers \ {d} : load'[e] = load[e]
    BY <1>1 DEF IInv, FoundInv
<1>4. LoadInv'
    BY <1>1, <1>2, <1>3 DEF CountInv, LoadInv
<1>5. OneRecord' /\ NotCounted' /\ AtMemory'
    <2>1. \A c : Settled(c)' <=> Settled(c)
        BY <1>1 DEF Settled
    <2> QED BY <1>1, <2>1 DEF CountInv, OneRecord, NotCounted, Same, Uncounted, AtMemory, At
<1>6. Counted'
    BY <1>1, TotalKept DEF CountInv, Counted
<1> QED BY <1>4, <1>5, <1>6 DEF CountInv

\* A total in the next state, of calls that are the same.
LEMMA TotalNow ==
    ASSUME calls' = calls PROVE \A u, s : Total(u, s)' = SumOf(Counting(u, s)')
BY TotalIsSum DEF SumOf

LEMMA WriteCount ==
    ASSUME IInv, TypeInv, CountInv, NEW d \in Deliverers, WriteSum(d) PROVE CountInv'
<1> DEFINE u == found[d]
           c == Head(delivery[d]).call
           op == OpOf(d)
           slot == SlotOf(op)
           sum == load[d][1]
<1>1. /\ load[d] # <<>> /\ NextRecord(d) /\ valid' = [valid EXCEPT ![u] = TRUE]
      /\ raced' = IF Others(d) = {} THEN raced ELSE raced \cup {u}
      /\ bytes' = [bytes EXCEPT ![u][slot] = Updated(sum, op)]
      /\ applied' = [applied EXCEPT ![u] = applied[u] \cup {c}]
      /\ UNCHANGED <<buffers, calls, merged>>
    BY DEF WriteSum, Race, cupti
<1>2. /\ delivery[d] # <<>> /\ u \in Usages /\ c \in DOMAIN calls /\ slot \in Slots
      /\ Head(delivery[d]).kind = "memory"
    <2>1. u # None
        BY <1>1 DEF IInv, FoundInv
    <2>2. At(d, "memory")
        BY <2>1 DEF CountInv, AtMemory
    <2> QED BY <1>1, <2>1, <2>2 DEF IInv, FoundInv, UsageOrNone, UnderOf, At, TypeInv, LoadType
<1>3. op = calls[c].op /\ op \in CallOps
    <2>1. calls[c] \in CallSet
        BY <1>2 DEF IInv, RecordInv
    <2>2. calls[c].op \in Ops
        BY <2>1 DEF CallSet
    <2> QED BY <2>2, OpsAssumption DEF OpOf
<1>4. ~Settled(c)
    <2>1. 1 \in DOMAIN delivery[d] /\ Head(delivery[d]) = delivery[d][1]
        <3>1. delivery[d] \in Seq(Genuine)
            BY DEF IInv, RecordInv
        <3> QED BY <1>2, <3>1
    <2>2. Uncounted(delivery[d])
        BY DEF CountInv, NotCounted
    <2> QED BY <1>2, <2>1, <2>2 DEF Uncounted
<1>5. \A x : Settled(x)' => Settled(x) \/ x = c
    BY <1>1, <1>2 DEF Settled, IInv, AppliedInv
<1>6. /\ OneRecord' /\ NotCounted' /\ AtMemory'
      /\ found'[d] = None /\ load'[d] = <<>>
      /\ \A e \in Deliverers \ {d} :
             found'[e] = found[e] /\ load'[e] = load[e] /\ OpOf(e)' = OpOf(e)
    BY <1>1, <1>2, <1>5, NextRecordCount
<1> HIDE DEF c, op, slot, sum
<1>7. ASSUME NEW e \in Deliverers, load'[e] # <<>>, found'[e] \notin raced'
      PROVE  valid'[found'[e]] /\ load'[e] = <<bytes'[found'[e]][SlotOf(OpOf(e)')]>>
    <2>1. e # d /\ found'[e] = found[e] /\ load'[e] = load[e] /\ OpOf(e)' = OpOf(e)
        BY <1>6, <1>7
    <2>2. found[e] # u
        BY <1>1, <1>7, <2>1 DEF Others
    <2>3. found[e] \notin raced
        BY <1>1, <1>7, <2>1
    <2>4. valid[found[e]] /\ load[e] = <<bytes[found[e]][SlotOf(OpOf(e))]>>
        BY <1>7, <2>1, <2>3 DEF CountInv, LoadInv
    <2>5. valid'[found[e]] = valid[found[e]] /\ bytes'[found[e]] = bytes[found[e]]
        BY <1>1, <2>2 DEF TypeInv, UsageType
    <2> QED BY <2>1, <2>4, <2>5
<1>8. LoadInv'
    BY <1>7 DEF LoadInv
<1>9. ASSUME NEW v \in Usages \ raced', NEW s \in Slots PROVE bytes'[v][s] = Total(v, s)'
    <2>0. v \notin raced
        BY <1>1, <1>9
    <2>1. bytes[v][s] = Total(v, s)
        BY <2>0 DEF CountInv, Counted
    <2>2. CASE v # u
        <3>1. applied'[v] = applied[v] /\ bytes'[v] = bytes[v]
            BY <1>1, <2>2 DEF IInv, AppliedInv, TypeInv, UsageType
        <3>2. Total(v, s)' = Total(v, s)
            BY <1>1, <3>1, TotalKept
        <3> QED BY <2>1, <3>1, <3>2
    <2>3. CASE v = u
        <3>1. /\ applied'[v] \cup merged'[v] = (applied[v] \cup merged[v]) \cup {c}
              /\ SlotOf(calls[c].op) = slot
            BY <1>1, <1>3, <2>3 DEF IInv, AppliedInv, slot
        <3>2. Counting(v, s)' = Counting(v, s) \cup (IF s = slot THEN {c} ELSE {})
            BY <1>1, <3>1 DEF Counting
        <3>3. Counting(v, s) \in SUBSET (DOMAIN calls) /\ c \notin Counting(v, s)
            BY <1>2, <1>4, CountingCalls DEF Counting, Settled
        <3>4. CASE s # slot
            <4>1. bytes'[v][s] = bytes[v][s]
                BY <1>1, <1>2, <2>3, <3>4 DEF TypeInv, UsageType
            <4>2. Counting(v, s)' = Counting(v, s)
                BY <3>2, <3>4
            <4>3. Total(v, s)' = Total(v, s)
                BY <1>1, <4>2, TotalNow, TotalIsSum
            <4> QED BY <2>1, <4>1, <4>3
        <3>5. CASE s = slot
            <4>1. sum = bytes[v][s]
                <5>1. load[d] = <<bytes[u][slot]>>
                    BY <1>1, <2>0, <2>3 DEF CountInv, LoadInv, slot, op
                <5> QED BY <2>3, <3>5, <5>1 DEF sum
            <4>2. bytes'[v][s] = Updated(sum, op)
                BY <1>1, <1>2, <2>3, <3>5 DEF TypeInv, UsageType
            <4>3. bytes[v][s] \in Int
                BY <1>2 DEF TypeInv, UsageType
            <4>4. Updated(sum, op) = bytes[v][s] + Signed(op)
                BY <1>3, <4>1, <4>3 DEF Updated, Signed, CallOps
            <4>5. Counting(v, s)' = Counting(v, s) \cup {c}
                BY <3>2, <3>5
            <4>6. SumOf(Counting(v, s) \cup {c}) = SumOf(Counting(v, s)) + Signed(op)
                BY <1>2, <1>3, <3>3, SumWithCall
            <4>7. Total(v, s)' = SumOf(Counting(v, s) \cup {c}) /\ Total(v, s) = SumOf(Counting(v, s))
                BY <1>1, <4>5, TotalNow, TotalIsSum
            <4> QED BY <2>1, <4>2, <4>4, <4>6, <4>7
        <3> QED BY <3>4, <3>5
    <2> QED BY <2>2, <2>3
<1>10. Counted'
    BY <1>9 DEF Counted
<1> QED BY <1>6, <1>8, <1>10 DEF CountInv

LEMMA MergeCount ==
    ASSUME IInv, TypeInv, CountInv, NEW u \in Usages, NEW v \in Usages, Merge(u, v) PROVE CountInv'
<1>1. /\ (applied[v] \cup merged[v]) \cap (applied[u] \cup merged[u]) = {} /\ u # v
      /\ bytes' = [bytes EXCEPT ![u] = [s \in Slots |-> bytes[u][s] + bytes[v][s]]]
      /\ merged' = [merged EXCEPT ![u] = merged[u] \cup applied[v] \cup merged[v]]
      /\ raced' = IF v \in raced \/ \E d \in Deliverers : found[d] = u /\ load[d] # <<>>
                  THEN raced \cup {u} ELSE raced
      /\ UNCHANGED <<buffers, calls, valid, delivery, found, load, applied>>
    BY DEF Merge, cupti
<1>2. /\ merged'[u] = merged[u] \cup applied[v] \cup merged[v]
      /\ \A w \in Usages \ {u} : merged'[w] = merged[w] /\ bytes'[w] = bytes[w]
      /\ \A s \in Slots : bytes'[u][s] = bytes[u][s] + bytes[v][s]
    BY <1>1 DEF TypeInv, UsageType
<1>3. \A c : Settled(c)' <=> Settled(c)
    <2>1. \A c : Settled(c) => Settled(c)'
        BY <1>1, <1>2 DEF Settled
    <2>2. \A c : Settled(c)' => Settled(c)
        BY <1>1, <1>2 DEF Settled
    <2> QED BY <2>1, <2>2
<1>4. OneRecord' /\ NotCounted' /\ AtMemory'
    BY <1>1, <1>3 DEF CountInv, OneRecord, NotCounted, Same, Uncounted, AtMemory, At
<1>5. LoadInv'
    <2>1. \A d : OpOf(d)' = OpOf(d)
        BY <1>1 DEF OpOf
    <2>2. ASSUME NEW d \in Deliverers, load[d] # <<>>, found[d] \notin raced'
          PROVE  valid[found[d]] /\ load[d] = <<bytes'[found[d]][SlotOf(OpOf(d))]>>
        <3>1. found[d] # u /\ found[d] \notin raced /\ found[d] \in Usages
            BY <1>1, <2>2 DEF IInv, FoundInv, UsageOrNone
        <3>2. valid[found[d]] /\ load[d] = <<bytes[found[d]][SlotOf(OpOf(d))]>>
            BY <2>2, <3>1 DEF CountInv, LoadInv
        <3> QED BY <1>2, <3>1, <3>2
    <2> QED BY <1>1, <2>1, <2>2 DEF LoadInv
<1>6. ASSUME NEW w \in Usages \ raced', NEW s \in Slots PROVE bytes'[w][s] = Total(w, s)'
    <2>1. CASE w # u
        <3>1. merged'[w] = merged[w] /\ bytes'[w] = bytes[w] /\ w \notin raced
            BY <1>1, <1>2, <1>6, <2>1
        <3>2. Total(w, s)' = Total(w, s)
            BY <1>1, <3>1, TotalKept
        <3> QED BY <3>1, <3>2 DEF CountInv, Counted
    <2>2. CASE w = u
        <3>1. u \notin raced /\ v \notin raced
            BY <1>1, <1>6, <2>2
        <3>2. bytes[u][s] = SumOf(Counting(u, s)) /\ bytes[v][s] = SumOf(Counting(v, s))
            BY <3>1, TotalIsSum DEF CountInv, Counted
        <3>3. Counting(u, s)' = Counting(u, s) \cup Counting(v, s)
            BY <1>1, <1>2 DEF Counting
        <3>4. Counting(u, s) \cap Counting(v, s) = {}
            BY <1>1 DEF Counting
        <3>5. SumOf(Counting(u, s) \cup Counting(v, s)) = SumOf(Counting(u, s)) + SumOf(Counting(v, s))
            BY <3>4, CountingCalls, SumOfUnion
        <3>6. Total(u, s)' = SumOf(Counting(u, s) \cup Counting(v, s))
            BY <1>1, <3>3, TotalNow
        <3> QED BY <1>2, <2>2, <3>2, <3>5, <3>6
    <2> QED BY <2>1, <2>2
<1>7. Counted'
    BY <1>6 DEF Counted
<1> QED BY <1>4, <1>5, <1>7 DEF CountInv
-----------------------------------------------------------------------------
LEMMA CountInit == Init => CountInv
<1> SUFFICES ASSUME Init PROVE CountInv
    OBVIOUS
<1>1. /\ buffers = <<>> /\ \A d \in Deliverers : delivery[d] = <<>> /\ found[d] = None /\ load[d] = <<>>
      /\ \A u \in Usages : applied[u] = {} /\ merged[u] = {} /\ \A s \in Slots : bytes[u][s] = 0
    BY DEF Init
<1>2. OneRecord /\ NotCounted /\ AtMemory /\ LoadInv
    BY <1>1 DEF OneRecord, NotCounted, Uncounted, AtMemory, LoadInv
<1>3. Counted
    <2>1. \A u \in Usages : \A s \in Slots : Counting(u, s) = {}
        BY <1>1 DEF Counting
    <2> QED BY <1>1, <2>1, TotalIsSum, SumEmpty DEF Counted
<1> QED BY <1>2, <1>3 DEF CountInv

LEMMA CountStep == IInv /\ TypeInv /\ CountInv /\ [Next]_vars => CountInv'
<1> SUFFICES ASSUME IInv, TypeInv, CountInv, [Next]_vars PROVE CountInv'
    OBVIOUS
<1>1. CASE InitTracker \/ FiniTracker
    BY <1>1, CountKept DEF InitTracker, FiniTracker, cupti, members
<1>2. ASSUME NEW t \in Threads,
             \/ \E u \in Usages : TrackThreadMemoryUsage(t, u)
             \/ \E op \in Ops : BeginCall(t, op)
             \/ EndCall(t) \/ Untrack(t) \/ Flush(t) \/ Pop(t)
      PROVE  CountInv'
    <2>1. CASE \E op \in Ops : BeginCall(t, op)
        BY <2>1, BeginCallCount
    <2>2. CASE Flush(t)
        BY <2>2, BufferCompletedCount DEF Flush, Deliverers
    <2>3. CASE (\E u \in Usages : TrackThreadMemoryUsage(t, u)) \/ EndCall(t) \/ Untrack(t) \/ Pop(t)
        BY <2>3, CountKept DEF TrackThreadMemoryUsage, EndCall, Untrack, Pop, history, cupti, members
    <2> QED BY <1>2, <2>1, <2>2, <2>3
<1>3. ASSUME NEW i \in DOMAIN buffers, BufferCompleted(Worker, i) PROVE CountInv'
    BY <1>3, BufferCompletedCount DEF Deliverers
<1>4. ASSUME NEW d \in Deliverers, TrackActivity(d) PROVE CountInv'
    <2>1. CASE TrackCorrelation(d) \/ IgnoreRecord(d)
        <3>1. delivery[d] # <<>>
            BY <2>1 DEF TrackCorrelation, IgnoreRecord, At, IInv, FoundInv
        <3> QED BY <2>1, <3>1, IgnoreCount DEF TrackCorrelation, IgnoreRecord, cupti, members
    <2> QED BY <1>4, <2>1, LookUpCount, InvalidateCount, ReadCount, WriteCount DEF TrackActivity
<1>5. ASSUME NEW u \in Usages, Destroy(u) \/ SerializeToBufferAttributes(u) PROVE CountInv'
    BY <1>5, CountKept DEF Destroy, SerializeToBufferAttributes, cupti, members
<1>6. ASSUME NEW u \in Usages, NEW v \in Usages, Merge(u, v) PROVE CountInv'
    BY <1>6, MergeCount
<1>7. CASE UNCHANGED vars
    BY <1>7, CountKept DEF vars, history, cupti, members
<1> QED BY <1>1, <1>2, <1>3, <1>4, <1>5, <1>6, <1>7 DEF Next

\* The sums of a usage are what its calls allocated less what they released, each
\* call counted once, unless two deliverers updated the usage at the same time.
THEOREM SumsCounted == Spec => []Counted
<1>1. Init => IInv /\ TypeInv /\ CountInv
    BY InitInv, TypeInit, CountInit
<1>2. IInv /\ TypeInv /\ CountInv /\ [Next]_vars => IInv' /\ TypeInv' /\ CountInv'
    BY NextInv, TypeStep, CountStep
<1>3. CountInv => Counted
    BY DEF CountInv
<1> QED BY <1>1, <1>2, <1>3, PTL DEF Spec

LEMMA TypesOK == IInv /\ TypeInv => TypeOK
<1> SUFFICES ASSUME IInv, TypeInv PROVE TypeOK
    OBVIOUS
<1>1. Len(calls) \in Nat /\ DOMAIN calls = 1 .. Len(calls) /\ DOMAIN calls \subseteq 1 .. MaxCalls
    BY BoundsAssumption DEF IInv, RecordInv, TypeInv, ControlType
<1>2. Genuine \subseteq RecordSet
    BY <1>1 DEF Genuine, RecordSet, UsageOrNone
<1>3. /\ buffers \in Seq(Seq(RecordSet)) /\ delivery \in [Deliverers -> Seq(RecordSet)]
    <2>1. Seq(Genuine) \subseteq Seq(RecordSet)
        BY <1>2
    <2>2. Seq(Seq(Genuine)) \subseteq Seq(Seq(RecordSet))
        BY <2>1
    <2> QED BY <2>1, <2>2 DEF IInv, RecordInv
<1>4. DOMAIN map \subseteq 1 .. MaxCalls /\ \A c \in DOMAIN map : map[c] \in Usages
    BY <1>1 DEF IInv, MapInv, UnderOf
<1>5. load \in [Deliverers -> Seq(Int)]
    <2>1. ASSUME NEW x \in {<<>>} \cup {<<sum>> : sum \in Int} PROVE x \in Seq(Int)
        <3>1. CASE x = <<>>
            BY <3>1
        <3>2. CASE x # <<>>
            <4>1. PICK sum \in Int : x = <<sum>>
                BY <3>2
            <4>2. <<sum>> \in Seq(Int)
                OBVIOUS
            <4> QED BY <4>1, <4>2
        <3> QED BY <3>1, <3>2
    <2>2. {<<>>} \cup {<<sum>> : sum \in Int} \subseteq Seq(Int)
        BY <2>1
    <2> QED BY <2>2 DEF TypeInv, LoadType
<1>6. running \in [Threads -> 0 .. MaxCalls]
    BY <1>1, BoundsAssumption DEF TypeInv, ControlType
<1>7. applied \in [Usages -> SUBSET (1 .. MaxCalls)] /\ merged \in [Usages -> SUBSET (1 .. MaxCalls)]
    BY <1>1 DEF IInv, AppliedInv, TypeInv, UsageType
<1> QED BY <1>3, <1>4, <1>5, <1>6, <1>7
        DEF TypeOK, IInv, FoundInv, StackInv, TypeInv, ControlType, UsageType, ReportType, UsageOrNone

\* Every variable of DeviceMemoryTracker has its type, and the map holds pointers to usages only.
THEOREM TypeCorrect == Spec => []TypeOK
<1>1. Init => IInv /\ TypeInv
    BY InitInv, TypeInit
<1>2. IInv /\ TypeInv /\ [Next]_vars => IInv' /\ TypeInv'
    BY NextInv, TypeStep
<1> QED BY <1>1, <1>2, TypesOK, PTL DEF Spec
-----------------------------------------------------------------------------
(***************************************************************************)
(* Reports.                                                                *)
(***************************************************************************)
\* The attributes of u after a report.
LEMMA ReportedEntries ==
    ASSUME TypeInv, NEW u \in Usages, SerializeToBufferAttributes(u)
    PROVE  /\ Len(Used(u)) \in Nat /\ reported'[u] = Len(Used(u))
           /\ \A i \in 1 .. Len(Used(u)) : attributes'[u][i] = Entry(u, i)
<1> DEFINE n == Len(Used(u))
           new == [i \in 1 .. n |-> Entry(u, i)]
           old == SubSeq(attributes[u], n + 1, Len(attributes[u]))
           S == AttributeSet \cup {Entry(u, i) : i \in 1 .. n}
<1>1. /\ reported' = [reported EXCEPT ![u] = n]
      /\ attributes' = [attributes EXCEPT ![u] = new \o old]
    BY DEF SerializeToBufferAttributes
<1>2. n \in Nat
    BY UsedOfSums DEF Lists, TypeInv, UsageType
<1>3. reported'[u] = n /\ attributes'[u] = new \o old
    BY <1>1 DEF TypeInv, ReportType
<1>4. old \in Seq(S)
    <2>1. attributes[u] \in Seq(AttributeSet)
        BY DEF TypeInv, ReportType
    <2> HIDE DEF n
    <2>2. Len(attributes[u]) \in Nat /\ \A i \in n + 1 .. Len(attributes[u]) : attributes[u][i] \in AttributeSet
        BY <1>2, <2>1
    <2>3. old \in Seq(AttributeSet)
        BY <1>2, <2>1, <2>2, SubSeqProperties
    <2>4. Seq(AttributeSet) \subseteq Seq(S)
        OBVIOUS
    <2> QED BY <2>3, <2>4
<1>5. new \in Seq(S) /\ Len(new) = n /\ \A i \in 1 .. n : new[i] = Entry(u, i)
    <2> HIDE DEF n
    <2>1. \A i \in 1 .. n : Entry(u, i) \in S
        OBVIOUS
    <2> HIDE DEF S
    <2>2. new \in [1 .. n -> S]
        BY <2>1
    <2>3. new \in Seq(S)
        BY <1>2, <2>2
    <2> QED BY <1>2, <2>2, <2>3
<1> HIDE DEF n, new, old, S
<1>6. \A i \in 1 .. n : (new \o old)[i] = new[i]
    <2>1. \A i \in 1 .. Len(new) + Len(old) : (new \o old)[i] = IF i <= Len(new) THEN new[i] ELSE old[i - Len(new)]
        BY <1>4, <1>5, ConcatProperties
    <2>2. Len(old) \in Nat
        BY <1>4
    <2>3. \A i \in 1 .. n : i \in 1 .. n + Len(old) /\ i <= n
        BY <1>2, <2>2
    <2> QED BY <1>5, <2>1, <2>3
<1>7. n \in Nat /\ reported'[u] = n /\ \A i \in 1 .. n : attributes'[u][i] = Entry(u, i)
    BY <1>2, <1>3, <1>5, <1>6
<1> QED BY <1>7 DEF n

LEMMA ReportOfCounted ==
    ASSUME IInv, TypeInv, CountInv, NEW u \in Usages \ raced, SerializeToBufferAttributes(u)
    PROVE  Report(u)'
<1> DEFINE n == Len(Used(u))
<1>1. /\ n \in Nat /\ reported'[u] = n
      /\ \A i \in 1 .. n : attributes'[u][i] = Entry(u, i)
    BY ReportedEntries
<1>2. UNCHANGED <<calls, applied, merged>>
    BY DEF SerializeToBufferAttributes, cupti
<1>3. \A s \in Slots : Total(u, s)' = bytes[u][s]
    BY <1>2, TotalKept DEF CountInv, Counted
<1>4. Lists(Used(u), DeviceCount + 2, Sums(u))
    BY UsedOfSums DEF TypeInv, UsageType
<1>5. ASSUME NEW i \in 1 .. n
      PROVE  /\ Used(u)[i] \in SlotSums /\ Used(u)[i].bytes # 0
             /\ Used(u)[i].bytes = bytes[u][Used(u)[i].slot]
             /\ attributes'[u][i].slot = Used(u)[i].slot
             /\ attributes'[u][i].bytes = Used(u)[i].bytes % SizeModulus
    <2> DEFINE e == Used(u)[i]
    <2>1. e \in SlotSums /\ e.bytes # 0
        BY <1>4 DEF Lists
    <2>2. PICK j \in 1 .. DeviceCount + 2 : e = Sums(u)[j]
        BY <1>4 DEF Lists
    <2>3. Sums(u)[j] = [slot |-> SlotOrder[j], bytes |-> bytes[u][SlotOrder[j]]]
        BY SlotOrderFacts DEF Sums
    <2>4. e.bytes = bytes[u][e.slot]
        BY <2>2, <2>3
    <2>5. attributes'[u][i] = [e EXCEPT !.bytes = @ % SizeModulus]
        BY <1>1 DEF Entry
    <2> HIDE DEF e
    <2>6. attributes'[u][i].slot = e.slot /\ attributes'[u][i].bytes = e.bytes % SizeModulus
        BY <2>1, <2>5 DEF SlotSums
    <2> QED BY <2>1, <2>4, <2>6 DEF e
<1>6. ASSUME NEW s \in Slots, bytes[u][s] # 0
      PROVE  \E i \in 1 .. n : Used(u)[i].slot = s
    <2>1. PICK j \in 1 .. DeviceCount + 2 : s = SlotOrder[j]
        BY SlotOrderFacts DEF Slots
    <2>2. Sums(u)[j] = [slot |-> s, bytes |-> bytes[u][s]]
        BY <2>1, SlotOrderFacts DEF Sums
    <2>3. Sums(u)[j].bytes # 0 /\ Sums(u)[j].slot = s
        BY <1>6, <2>2
    <2> QED BY <1>4, <2>3 DEF Lists
<1>7. \A i, l \in 1 .. n : Used(u)[i].slot = Used(u)[l].slot => i = l
    BY <1>4 DEF Lists
<1> DEFINE entries(s) == {i \in 1 .. n : attributes'[u][i].slot = s}
<1>8. ASSUME NEW s \in Slots
      PROVE  IF bytes[u][s] = 0 THEN entries(s) = {}
             ELSE /\ Cardinality(entries(s)) = 1
                  /\ bytes[u][s] \in 0 .. SizeModulus - 1 =>
                         \A i \in entries(s) : attributes'[u][i].bytes = bytes[u][s]
    <2> HIDE DEF n
    <2>1. CASE bytes[u][s] = 0
        BY <1>5, <2>1
    <2>2. CASE bytes[u][s] # 0
        <3>1. PICK i \in 1 .. n : Used(u)[i].slot = s
            BY <1>6, <2>2
        <3>2. entries(s) = {i}
            BY <1>5, <1>7, <3>1
        <3>3. Cardinality(entries(s)) = 1
            BY <3>2, FS_Singleton
        <3>4. attributes'[u][i].bytes = bytes[u][s] % SizeModulus
            BY <1>5, <3>1
        <3>5. ASSUME bytes[u][s] \in 0 .. SizeModulus - 1 PROVE bytes[u][s] % SizeModulus = bytes[u][s]
            <4>1. \A m \in Nat \ {0} : \A x \in 0 .. m - 1 : x % m = x
                OBVIOUS
            <4> QED BY <3>5, <4>1, BoundsAssumption
        <3> QED BY <2>2, <3>2, <3>3, <3>4, <3>5
    <2> QED BY <2>1, <2>2
<1> QED BY <1>1, <1>3, <1>8, ZenonT(40) DEF Report

\* What SerializeToBufferAttributes reports of a usage is what the calls counted in it
\* allocated less what they released: every sum that is not 0 once, and nothing else.
THEOREM ReportsSums == Spec => ReportedAsCounted
<1>1. Init => IInv /\ TypeInv /\ CountInv
    BY InitInv, TypeInit, CountInit
<1>2. IInv /\ TypeInv /\ CountInv /\ [Next]_vars => IInv' /\ TypeInv' /\ CountInv'
    BY NextInv, TypeStep, CountStep
<1>3. IInv /\ TypeInv /\ CountInv /\ [Next]_vars =>
          [\A u \in Usages \ raced : SerializeToBufferAttributes(u) => Report(u)']_vars
    BY ReportOfCounted
<1> QED BY <1>1, <1>2, <1>3, PTL DEF Spec, ReportedAsCounted
-----------------------------------------------------------------------------
(***************************************************************************)
(* Both records of a call that are in one buffer stay in order until they  *)
(* are handed over, one after the other.                                   *)
(***************************************************************************)
MemoryAfter(q, j, c) == \E k \in DOMAIN q : j < k /\ MemoryAt(q, k, c)
CorrelationBefore(q, k, c) == \E j \in DOMAIN q : j < k /\ CorrelationAt(q, j, c)
InPairs(q) ==
    \A k \in DOMAIN q : Paired(q[k].call) =>
        /\ q[k].kind = "correlation" => MemoryAfter(q, k, q[k].call)
        /\ q[k].kind = "memory" => CorrelationBefore(q, k, q[k].call)

\* The usage of the memory record at place k is there when it is looked up.
Expected(d, k, c) ==
    \/ calls[c].under \in gone
    \/ CorrelationBefore(delivery[d], k, c)
    \/ c \in DOMAIN map
    \/ k = 1 /\ found[d] # None
HandedOver(d) ==
    \A k \in DOMAIN delivery[d] : Paired(delivery[d][k].call) =>
        /\ delivery[d][k].kind = "correlation" => MemoryAfter(delivery[d], k, delivery[d][k].call)
        /\ delivery[d][k].kind = "memory" => Expected(d, k, delivery[d][k].call)

\* An entry of the map will be looked up.
Awaited(c) ==
    \E d \in Deliverers : \E k \in DOMAIN delivery[d] :
        MemoryAt(delivery[d], k, c) /\ (k = 1 => found[d] = None)
MapAwaited == \A c \in DOMAIN map : Paired(c) => Awaited(c)

\* Without a tracker there is no map, and no call of a usage that is still there.
TrackerOff ==
    ~tracker => map = <<>> /\ \A c \in DOMAIN calls : calls[c].under \in gone \cup {None}

PairInv ==
    /\ \A i \in DOMAIN buffers : InPairs(buffers[i])
    /\ \A d \in Deliverers : HandedOver(d)
    /\ MapAwaited /\ TrackerOff /\ NoneLost
-----------------------------------------------------------------------------
\* The place of a record after d went on to its next one.
Behind(d, e, k) == IF e = d THEN k - 1 ELSE k
LEMMA RecordLeft ==
    ASSUME IInv, NEW d \in Deliverers, delivery[d] # <<>>, NextRecord(d)
    PROVE  \A e \in Deliverers : \A k \in DOMAIN delivery[e] :
               /\ k \in Nat \ {0}
               /\ ~(e = d /\ k = 1) =>
                      /\ Behind(d, e, k) \in DOMAIN delivery'[e]
                      /\ delivery'[e][Behind(d, e, k)] = delivery[e][k]
<1>1. delivery' = [delivery EXCEPT ![d] = Tail(delivery[d])]
    BY DEF NextRecord
<1>2. ASSUME NEW e \in Deliverers PROVE delivery[e] \in Seq(Genuine)
    BY DEF IInv, RecordInv
<1> DEFINE q == delivery[d]
<1>3. /\ Tail(q) \in Seq(Genuine) /\ Len(Tail(q)) = Len(q) - 1 /\ Len(q) \in Nat
      /\ \A k \in 1 .. Len(Tail(q)) : Tail(q)[k] = q[k + 1]
    BY <1>2, HeadTailProperties
<1>4. ASSUME NEW k \in DOMAIN q
      PROVE  /\ k \in Nat \ {0}
             /\ k # 1 => k - 1 \in DOMAIN delivery'[d] /\ delivery'[d][k - 1] = q[k]
    <2>1. delivery'[d] = Tail(q)
        BY <1>1 DEF IInv, RecordInv
    <2>2. k \in 1 .. Len(q) /\ DOMAIN Tail(q) = 1 .. Len(q) - 1
        BY <1>2, <1>3
    <2> HIDE DEF q
    <2>3. k # 1 => k - 1 \in 1 .. Len(q) - 1 /\ (k - 1) + 1 = k
        BY <1>3, <2>2
    <2> QED BY <1>3, <2>1, <2>2, <2>3
<1>5. ASSUME NEW e \in Deliverers \ {d}, NEW k \in DOMAIN delivery[e]
      PROVE  k \in Nat \ {0} /\ k \in DOMAIN delivery'[e] /\ delivery'[e][k] = delivery[e][k]
    <2>1. delivery'[e] = delivery[e]
        BY <1>1 DEF IInv, RecordInv
    <2>2. DOMAIN delivery[e] = 1 .. Len(delivery[e]) /\ Len(delivery[e]) \in Nat
        BY <1>2
    <2> QED BY <2>1, <2>2
<1> QED BY <1>4, <1>5 DEF Behind

\* Every other record is still to come.
LEMMA PendingLeft ==
    ASSUME IInv, NEW d \in Deliverers, delivery[d] # <<>>, NextRecord(d), buffers' = buffers,
           NEW c, Pending(c)
    PROVE  Pending(c)' \/ (c = Head(delivery[d]).call /\ Head(delivery[d]).kind = "memory")
<1>1. CASE \E i \in DOMAIN buffers : \E k \in DOMAIN buffers[i] :
               buffers[i][k].kind = "memory" /\ buffers[i][k].call = c
    BY <1>1 DEF Pending
<1>2. ASSUME NEW e \in Deliverers, NEW k \in DOMAIN delivery[e],
             delivery[e][k].kind = "memory", delivery[e][k].call = c
      PROVE  Pending(c)' \/ (c = Head(delivery[d]).call /\ Head(delivery[d]).kind = "memory")
    <2>1. CASE e = d /\ k = 1
        <3>1. delivery[d] \in Seq(Genuine)
            BY DEF IInv, RecordInv
        <3>2. Head(delivery[d]) = delivery[d][1]
            BY <3>1
        <3> QED BY <1>2, <2>1, <3>2
    <2>2. CASE ~(e = d /\ k = 1)
        <3>1. /\ Behind(d, e, k) \in DOMAIN delivery'[e]
              /\ delivery'[e][Behind(d, e, k)] = delivery[e][k]
            BY <2>2, RecordLeft
        <3> QED BY <1>2, <3>1 DEF Pending
    <2> QED BY <2>1, <2>2
<1> QED BY <1>1, <1>2 DEF Pending

LEMMA AwaitedLeft ==
    ASSUME IInv, NEW d \in Deliverers, delivery[d] # <<>>, NextRecord(d), NEW c, Awaited(c),
           \/ Head(delivery[d]).call # c
           \/ Head(delivery[d]).kind # "memory"
           \/ found[d] # None
    PROVE  Awaited(c)'
<1>0. PICK e \in Deliverers : \E k \in DOMAIN delivery[e] :
          MemoryAt(delivery[e], k, c) /\ (k = 1 => found[e] = None)
    BY DEF Awaited
<1>1. PICK k \in DOMAIN delivery[e] : MemoryAt(delivery[e], k, c) /\ (k = 1 => found[e] = None)
    BY <1>0
<1>2. ~(e = d /\ k = 1)
    <2>1. delivery[d] \in Seq(Genuine)
        BY DEF IInv, RecordInv
    <2>2. Head(delivery[d]) = delivery[d][1]
        BY <2>1
    <2> QED BY <1>1, <2>2 DEF MemoryAt
<1>3. /\ Behind(d, e, k) \in DOMAIN delivery'[e]
      /\ delivery'[e][Behind(d, e, k)] = delivery[e][k]
    BY <1>2, RecordLeft
<1>4. found'[d] = None /\ (e # d => found'[e] = found[e])
    BY DEF NextRecord, IInv, FoundInv
<1>5. Behind(d, e, k) = 1 => found'[e] = None
    BY <1>1, <1>4 DEF Behind
<1>6. MemoryAt(delivery'[e], Behind(d, e, k), c)
    BY <1>1, <1>3 DEF MemoryAt
<1> QED BY <1>3, <1>5, <1>6 DEF Awaited, MemoryAt

\* What is handed over stays in order when d goes on to its next record, as long as the map
\* has got the usage of a correlation record, and lost at most that of a memory record.
LEMMA HandedOverLeft ==
    ASSUME IInv, OneRecord, NEW d \in Deliverers, delivery[d] # <<>>, NextRecord(d),
           \A e \in Deliverers : HandedOver(e),
           calls' = calls, gone' = gone,
           \A c \in DOMAIN map :
               c \in DOMAIN map' \/ (c = Head(delivery[d]).call /\ Head(delivery[d]).kind = "memory"),
           \A c : /\ c = Head(delivery[d]).call /\ Paired(c) /\ Head(delivery[d]).kind = "correlation"
                  => c \in DOMAIN map' \/ calls[c].under \in gone
    PROVE  \A e \in Deliverers : HandedOver(e)'
<1>1. \A e \in Deliverers : \A k \in DOMAIN delivery'[e] :
          /\ k \in Nat \ {0} /\ Ahead(d, e, k) \in DOMAIN delivery[e]
          /\ delivery'[e][k] = delivery[e][Ahead(d, e, k)]
    BY RecordTaken
<1>2. \A e \in Deliverers : \A k \in DOMAIN delivery[e] :
          /\ k \in Nat \ {0}
          /\ ~(e = d /\ k = 1) =>
                 /\ Behind(d, e, k) \in DOMAIN delivery'[e]
                 /\ delivery'[e][Behind(d, e, k)] = delivery[e][k]
    BY RecordLeft
<1>3. Head(delivery[d]) = delivery[d][1] /\ 1 \in DOMAIN delivery[d]
    <2>1. delivery[d] \in Seq(Genuine)
        BY DEF IInv, RecordInv
    <2> QED BY <2>1
<1>4. ASSUME NEW e \in Deliverers, NEW k \in DOMAIN delivery'[e], NEW c,
             c = delivery'[e][k].call, Paired(c)
      PROVE  /\ delivery'[e][k].kind = "correlation" => MemoryAfter(delivery'[e], k, c)
             /\ delivery'[e][k].kind = "memory" => Expected(e, k, c)'
    <2> DEFINE a == Ahead(d, e, k)
    <2>1. /\ k \in Nat \ {0} /\ a \in DOMAIN delivery[e] /\ delivery'[e][k] = delivery[e][a]
          /\ e = d => a = k + 1
          /\ e # d => a = k
        BY <1>1 DEF Ahead
    <2> HIDE DEF a
    <2>2. ASSUME delivery'[e][k].kind = "correlation" PROVE MemoryAfter(delivery'[e], k, c)
        <3>1. MemoryAfter(delivery[e], a, c)
            BY <1>4, <2>1, <2>2 DEF HandedOver
        <3>2. PICK l \in DOMAIN delivery[e] : a < l /\ MemoryAt(delivery[e], l, c)
            BY <3>1 DEF MemoryAfter
        <3>3. l \in Nat \ {0} /\ l # 1
            BY <1>2, <2>1, <3>2
        <3>4. Behind(d, e, l) \in DOMAIN delivery'[e] /\ delivery'[e][Behind(d, e, l)] = delivery[e][l]
            BY <1>2, <3>3
        <3>5. k < Behind(d, e, l)
            BY <2>1, <3>2, <3>3 DEF Behind
        <3> QED BY <3>2, <3>4, <3>5 DEF MemoryAfter, MemoryAt
    <2>3. ASSUME delivery'[e][k].kind = "memory" PROVE Expected(e, k, c)'
        <3>1. Expected(e, a, c)
            BY <1>4, <2>1, <2>3 DEF HandedOver
        <3>2. CASE calls[c].under \in gone
            BY <3>2 DEF Expected
        <3>3. ASSUME NEW j \in DOMAIN delivery[e], j < a, CorrelationAt(delivery[e], j, c)
              PROVE  Expected(e, k, c)'
            <4>1. CASE e = d /\ j = 1
                <5>1. c = Head(delivery[d]).call /\ Head(delivery[d]).kind = "correlation"
                    BY <1>3, <3>3, <4>1 DEF CorrelationAt
                <5>2. c \in DOMAIN map' \/ calls[c].under \in gone
                    BY <1>4, <5>1
                <5> QED BY <5>2 DEF Expected
            <4>2. CASE ~(e = d /\ j = 1)
                <5>1. Behind(d, e, j) \in DOMAIN delivery'[e] /\ delivery'[e][Behind(d, e, j)] = delivery[e][j]
                    BY <1>2, <4>2
                <5>2. Behind(d, e, j) < k
                    BY <1>2, <2>1, <3>3 DEF Behind
                <5>3. CorrelationBefore(delivery'[e], k, c)
                    BY <3>3, <5>1, <5>2 DEF CorrelationBefore, CorrelationAt
                <5> QED BY <5>3 DEF Expected, CorrelationBefore
            <4> QED BY <4>1, <4>2
        <3>4. CASE c \in DOMAIN map
            <4>1. CASE c = Head(delivery[d]).call /\ Head(delivery[d]).kind = "memory"
                <5>1. Same(delivery[e], a, delivery[d], 1)
                    BY <1>3, <1>4, <2>1, <2>3, <4>1 DEF Same
                <5>2. e = d /\ a = 1
                    BY <1>3, <2>1, <5>1 DEF OneRecord
                <5> QED BY <2>1, <5>2
            <4>2. CASE c \in DOMAIN map'
                BY <4>2 DEF Expected
            <4> QED BY <3>4, <4>1, <4>2
        <3>5. CASE a = 1 /\ found[e] # None
            <4>1. e # d /\ k = 1
                BY <2>1, <3>5
            <4>2. found'[e] = found[e]
                BY <4>1 DEF NextRecord, IInv, FoundInv
            <4> QED BY <3>5, <4>1, <4>2 DEF Expected
        <3> QED BY <3>1, <3>2, <3>3, <3>4, <3>5 DEF Expected, CorrelationBefore
    <2> QED BY <2>2, <2>3
<1>5. \A c : Paired(c)' <=> Paired(c)
    BY DEF Paired
<1>6. ASSUME NEW e \in Deliverers PROVE HandedOver(e)'
    <2>1. ASSUME NEW k \in DOMAIN delivery'[e], NEW c, c = delivery'[e][k].call, Paired(c)'
          PROVE  /\ delivery'[e][k].kind = "correlation" => MemoryAfter(delivery'[e], k, c)
                 /\ delivery'[e][k].kind = "memory" =>
                        \/ calls'[c].under \in gone'
                        \/ CorrelationBefore(delivery'[e], k, c)
                        \/ c \in DOMAIN map'
                        \/ k = 1 /\ found'[e] # None
        BY <1>4, <1>5, <2>1 DEF Expected, CorrelationBefore
    <2> QED BY <2>1 DEF HandedOver, Paired, Expected, MemoryAfter, CorrelationBefore
<1> QED BY <1>6
-----------------------------------------------------------------------------
\* Steps that move no record.
LEMMA PairKept ==
    ASSUME IInv, PairInv,
           UNCHANGED <<buffers, delivery, found, calls, map, valid, applied>>,
           gone \subseteq gone', raced \subseteq raced', tracker => tracker'
    PROVE  PairInv'
<1>1. /\ \A c : (Paired(c)' <=> Paired(c)) /\ (Pending(c)' <=> Pending(c)) /\ (Awaited(c)' <=> Awaited(c))
      /\ \A u : Due(u)' = Due(u)
    BY DEF Paired, Pending, Awaited, Due, MemoryAt
<1>2. \A i \in DOMAIN buffers' : InPairs(buffers[i])'
    BY <1>1 DEF PairInv, InPairs, MemoryAfter, CorrelationBefore, Paired
<1>3. ASSUME NEW d \in Deliverers PROVE HandedOver(d)'
    <2>1. \A k, c : Expected(d, k, c) => Expected(d, k, c)'
        BY DEF Expected, CorrelationBefore
    <2>2. \A k \in DOMAIN delivery[d] : Paired(delivery[d][k].call) =>
              /\ delivery[d][k].kind = "correlation" => MemoryAfter(delivery[d], k, delivery[d][k].call)
              /\ delivery[d][k].kind = "memory" => Expected(d, k, delivery[d][k].call)
        BY DEF PairInv, HandedOver
    <2> QED BY <2>1, <2>2 DEF HandedOver, Paired, MemoryAfter, Expected, CorrelationBefore
<1>4. MapAwaited' /\ TrackerOff'
    BY <1>1 DEF PairInv, MapAwaited, TrackerOff
<1>5. NoneLost'
    BY <1>1 DEF PairInv, NoneLost
<1> QED BY <1>2, <1>3, <1>4, <1>5 DEF PairInv

LEMMA FiniTrackerPairs ==
    ASSUME IInv, PairInv, FiniTracker PROVE PairInv'
<1>1. /\ \A d \in Deliverers : delivery[d] = <<>>
      /\ gone = Usages /\ map' = <<>>
      /\ UNCHANGED <<buffers, delivery, calls, gone>>
    BY DEF FiniTracker, cupti, members
<1>2. \A i \in DOMAIN buffers' : InPairs(buffers[i])'
    BY <1>1 DEF PairInv, InPairs, MemoryAfter, CorrelationBefore, Paired
<1>3. \A d \in Deliverers : HandedOver(d)'
    BY <1>1 DEF HandedOver
<1>4. MapAwaited' /\ NoneLost'
    BY <1>1 DEF MapAwaited, NoneLost
<1>5. TrackerOff'
    <2>1. ASSUME NEW c \in DOMAIN calls PROVE calls[c].under \in Usages \cup {None}
        <3>1. calls[c] \in CallSet
            BY DEF IInv, RecordInv
        <3> QED BY <3>1 DEF CallSet, UsageOrNone
    <2> QED BY <1>1, <2>1 DEF TrackerOff
<1> QED BY <1>2, <1>3, <1>4, <1>5 DEF PairInv

LEMMA RecordCalls ==
    ASSUME IInv
    PROVE  /\ \A i \in DOMAIN buffers : \A k \in DOMAIN buffers[i] : buffers[i][k].call \in DOMAIN calls
           /\ \A d \in Deliverers : \A k \in DOMAIN delivery[d] : delivery[d][k].call \in DOMAIN calls
<1>1. \A q \in Seq(Genuine) : \A k \in DOMAIN q : q[k].call \in DOMAIN calls
    <2> SUFFICES ASSUME NEW q \in Seq(Genuine), NEW k \in DOMAIN q PROVE q[k].call \in DOMAIN calls
        OBVIOUS
    <2>1. q[k] \in Genuine
        OBVIOUS
    <2> QED BY <2>1 DEF Genuine
<1>2. \A i \in DOMAIN buffers : buffers[i] \in Seq(Genuine)
    BY DEF IInv, RecordInv
<1> QED BY <1>1, <1>2 DEF IInv, RecordInv

LEMMA BeginCallPairs ==
    ASSUME IInv, PairInv, NEW t \in Threads, NEW op \in Ops, BeginCall(t, op) PROVE PairInv'
<1> DEFINE n == Len(calls) + 1
<1>1. NewRecords(n, op)
    BY BeginCallRecords
<1>2. /\ \E under, together : calls' = Append(calls, [op |-> op, under |-> under, together |-> together])
      /\ tracker /\ tracker' = tracker
      /\ UNCHANGED <<map, delivery, found, valid, gone, applied, raced>>
    BY DEF BeginCall, members
<1>3. /\ n \notin DOMAIN calls /\ DOMAIN calls' = DOMAIN calls \cup {n} /\ calls'[n].op = op
      /\ \A c \in DOMAIN calls : calls'[c] = calls[c]
    BY <1>2 DEF IInv, RecordInv
<1>4. \A c \in DOMAIN calls : Paired(c)' <=> Paired(c)
    BY <1>3 DEF Paired
<1> HIDE DEF n
<1>5. ASSUME NEW x \in DOMAIN buffers', NEW y \in DOMAIN buffers'[x], NEW c, c = buffers'[x][y].call, Paired(c)'
      PROVE  /\ buffers'[x][y].kind = "correlation" => MemoryAfter(buffers'[x], y, c)
             /\ buffers'[x][y].kind = "memory" => CorrelationBefore(buffers'[x], y, c)
    <2>1. CASE IsOld(x, y)
        <3>1. x \in DOMAIN buffers /\ y \in DOMAIN buffers[x] /\ buffers'[x][y] = buffers[x][y]
            BY <1>1, <2>1 DEF NewRecords, OldRecordsKept, IsOld
        <3>2. Paired(c)
            BY <1>4, <1>5, <3>1, RecordCalls
        <3>3. /\ buffers[x][y].kind = "correlation" => MemoryAfter(buffers[x], y, c)
              /\ buffers[x][y].kind = "memory" => CorrelationBefore(buffers[x], y, c)
            BY <1>5, <3>1, <3>2 DEF PairInv, InPairs
        <3>4. \A l \in DOMAIN buffers[x] : l \in DOMAIN buffers'[x] /\ buffers'[x][l] = buffers[x][l]
            BY <1>1, <3>1 DEF NewRecords, OldRecordsKept
        <3> QED BY <3>1, <3>3, <3>4 DEF MemoryAfter, CorrelationBefore, MemoryAt, CorrelationAt
    <2>2. CASE ~IsOld(x, y)
        <3>1. c = n
            BY <1>1, <1>5, <2>2 DEF NewRecords, NewAreOf
        <3>2. HasPair(n)
            BY <1>1, <1>3, <1>5, <3>1 DEF NewRecords, Paired
        <3>3. PICK i, j, k : PairAt(n, i, j, k)
            BY <3>2 DEF HasPair
        <3>4. x = i /\ (y = j \/ y = k) /\ j < k /\ j \in DOMAIN buffers'[i] /\ k \in DOMAIN buffers'[i]
              /\ CorrelationAt(buffers'[i], j, n) /\ MemoryAt(buffers'[i], k, n)
            BY <2>2, <3>3 DEF PairAt
        <3>5. CASE y = j
            BY <3>1, <3>4, <3>5 DEF MemoryAfter, CorrelationAt
        <3>6. CASE y = k
            BY <3>1, <3>4, <3>6 DEF CorrelationBefore, MemoryAt
        <3> QED BY <3>4, <3>5, <3>6
    <2> QED BY <2>1, <2>2
<1>6. \A i \in DOMAIN buffers' : InPairs(buffers[i])'
    BY <1>5 DEF InPairs, Paired, MemoryAfter, CorrelationBefore
<1>7. ASSUME NEW d \in Deliverers PROVE HandedOver(d)'
    <2>1. ASSUME NEW k \in DOMAIN delivery[d], NEW c, c = delivery[d][k].call, Paired(c)'
          PROVE  /\ delivery[d][k].kind = "correlation" => MemoryAfter(delivery[d], k, c)
                 /\ delivery[d][k].kind = "memory" =>
                        \/ calls'[c].under \in gone
                        \/ CorrelationBefore(delivery[d], k, c)
                        \/ c \in DOMAIN map
                        \/ k = 1 /\ found[d] # None
        <3>1. c \in DOMAIN calls /\ Paired(c) /\ calls'[c] = calls[c]
            BY <1>3, <1>4, <2>1, RecordCalls
        <3>2. HandedOver(d)
            BY DEF PairInv
        <3> QED BY <2>1, <3>1, <3>2 DEF HandedOver, Expected
    <2> QED BY <1>2, <2>1 DEF HandedOver, Paired, Expected, MemoryAfter, CorrelationBefore
<1>8. MapAwaited'
    <2>1. \A c : Awaited(c)' <=> Awaited(c)
        BY <1>2 DEF Awaited, MemoryAt
    <2>2. DOMAIN map \subseteq DOMAIN calls
        BY DEF IInv, MapInv, UnderOf
    <2> QED BY <1>2, <1>4, <2>1, <2>2 DEF PairInv, MapAwaited
<1>9. TrackerOff'
    BY <1>2 DEF TrackerOff
<1>10. ASSUME NEW u \in Usages \ (gone \cup raced), valid[u], NEW c \in Due(u)', c \notin applied[u]
       PROVE  Pending(c)'
    <2>1. c \in DOMAIN calls' /\ calls'[c].under = u /\ calls'[c].together /\ Counts(calls'[c].op)
        BY <1>10 DEF Due
    <2>2. CASE c \in DOMAIN calls
        <3>1. c \in Due(u)
            BY <1>3, <2>1, <2>2 DEF Due
        <3>2. Pending(c)
            BY <1>10, <3>1 DEF PairInv, NoneLost
        <3>3. CASE \E i \in DOMAIN buffers : \E k \in DOMAIN buffers[i] :
                       buffers[i][k].kind = "memory" /\ buffers[i][k].call = c
            <4>1. PICK i \in DOMAIN buffers : \E k \in DOMAIN buffers[i] :
                      buffers[i][k].kind = "memory" /\ buffers[i][k].call = c
                BY <3>3
            <4>2. PICK k \in DOMAIN buffers[i] : buffers[i][k].kind = "memory" /\ buffers[i][k].call = c
                BY <4>1
            <4>3. i \in DOMAIN buffers' /\ k \in DOMAIN buffers'[i] /\ buffers'[i][k] = buffers[i][k]
                BY <1>1 DEF NewRecords, OldRecordsKept
            <4> QED BY <4>2, <4>3 DEF Pending
        <3>4. CASE \E d \in Deliverers : \E k \in DOMAIN delivery[d] :
                       delivery[d][k].kind = "memory" /\ delivery[d][k].call = c
            BY <1>2, <3>4 DEF Pending
        <3> QED BY <3>2, <3>3, <3>4 DEF Pending
    <2>3. CASE c = n
        <3>1. HasMemory(n)
            BY <1>1, <1>3, <2>1, <2>3 DEF NewRecords, Counts
        <3>2. PICK i, k : MemoryOf(n, i, k)
            BY <3>1 DEF HasMemory
        <3> QED BY <2>3, <3>2 DEF MemoryOf, MemoryAt, Pending
    <2> QED BY <1>3, <2>1, <2>2, <2>3
<1>11. NoneLost'
    BY <1>2, <1>10 DEF NoneLost
<1> QED BY <1>6, <1>7, <1>8, <1>9, <1>11 DEF PairInv
-----------------------------------------------------------------------------
LEMMA BufferCompletedPairs ==
    ASSUME IInv, PairInv, NEW d \in Deliverers, NEW i \in DOMAIN buffers, BufferCompleted(d, i)
    PROVE  PairInv'
<1>1. /\ delivery[d] = <<>> /\ delivery' = [delivery EXCEPT ![d] = buffers[i]]
      /\ buffers' = SubSeq(buffers, 1, i - 1) \o SubSeq(buffers, i + 1, Len(buffers))
      /\ UNCHANGED <<tracker, calls, found, map, valid, gone, applied, raced>>
    BY DEF BufferCompleted, history, members
<1>2. /\ \A j \in DOMAIN buffers' :
             Moved(i, j) \in DOMAIN buffers \ {i} /\ buffers'[j] = buffers[Moved(i, j)]
      /\ \A x \in DOMAIN buffers \ {i} : \E j \in DOMAIN buffers' : Moved(i, j) = x
    BY <1>1, BufferRemoved
<1>3. /\ delivery'[d] = buffers[i] /\ \A e \in Deliverers \ {d} : delivery'[e] = delivery[e]
      /\ found[d] = None
    BY <1>1 DEF IInv, RecordInv, FoundInv
<1>4. \A c : Paired(c)' <=> Paired(c)
    BY <1>1 DEF Paired
<1>5. ASSUME NEW j \in DOMAIN buffers' PROVE InPairs(buffers[j])'
    <2>1. InPairs(buffers'[j])
        BY <1>2 DEF PairInv
    <2> QED BY <1>1, <2>1 DEF InPairs, MemoryAfter, CorrelationBefore, Paired
<1>6. ASSUME NEW e \in Deliverers PROVE HandedOver(e)'
    <2>1. CASE e = d
        <3>1. InPairs(delivery'[d])
            BY <1>3 DEF PairInv
        <3>2. \A k \in DOMAIN delivery'[d] : Paired(delivery'[d][k].call) =>
                  /\ delivery'[d][k].kind = "correlation" => MemoryAfter(delivery'[d], k, delivery'[d][k].call)
                  /\ delivery'[d][k].kind = "memory" => CorrelationBefore(delivery'[d], k, delivery'[d][k].call)
            BY <3>1 DEF InPairs
        <3> QED BY <1>1, <2>1, <3>2 DEF HandedOver, Paired, MemoryAfter, Expected, CorrelationBefore
    <2>2. CASE e # d
        <3>1. HandedOver(e) /\ delivery'[e] = delivery[e]
            BY <1>3, <2>2 DEF PairInv
        <3>2. \A k \in DOMAIN delivery'[e] : Paired(delivery'[e][k].call) =>
                  /\ delivery'[e][k].kind = "correlation" => MemoryAfter(delivery'[e], k, delivery'[e][k].call)
                  /\ delivery'[e][k].kind = "memory" =>
                         \/ calls[delivery'[e][k].call].under \in gone
                         \/ CorrelationBefore(delivery'[e], k, delivery'[e][k].call)
                         \/ delivery'[e][k].call \in DOMAIN map
                         \/ k = 1 /\ found[e] # None
            BY <3>1 DEF HandedOver, Expected
        <3> QED BY <1>1, <3>2 DEF HandedOver, Paired, MemoryAfter, Expected, CorrelationBefore
    <2> QED BY <2>1, <2>2
<1>7. MapAwaited'
    <2>1. ASSUME NEW c, Awaited(c) PROVE Awaited(c)'
        <3>1. PICK e \in Deliverers : \E k \in DOMAIN delivery[e] :
                  MemoryAt(delivery[e], k, c) /\ (k = 1 => found[e] = None)
            BY <2>1 DEF Awaited
        <3>2. PICK k \in DOMAIN delivery[e] : MemoryAt(delivery[e], k, c) /\ (k = 1 => found[e] = None)
            BY <3>1
        <3>3. delivery'[e] = delivery[e]
            BY <1>1, <1>3, <3>2
        <3> QED BY <1>1, <3>2, <3>3 DEF Awaited, MemoryAt
    <2> QED BY <1>1, <1>4, <2>1 DEF PairInv, MapAwaited
<1>8. TrackerOff'
    BY <1>1 DEF PairInv, TrackerOff
<1>9. ASSUME NEW c, Pending(c) PROVE Pending(c)'
    <2>1. ASSUME NEW x \in DOMAIN buffers, NEW k \in DOMAIN buffers[x],
                 buffers[x][k].kind = "memory", buffers[x][k].call = c
          PROVE  Pending(c)'
        <3>1. CASE x = i
            BY <1>3, <2>1, <3>1 DEF Pending
        <3>2. CASE x # i
            <4>1. PICK j \in DOMAIN buffers' : Moved(i, j) = x
                BY <1>2, <3>2
            <4>2. buffers'[j] = buffers[x]
                BY <1>2, <4>1
            <4> QED BY <2>1, <4>2 DEF Pending
        <3> QED BY <3>1, <3>2
    <2>2. ASSUME NEW e \in Deliverers, NEW k \in DOMAIN delivery[e],
                 delivery[e][k].kind = "memory", delivery[e][k].call = c
          PROVE  Pending(c)'
        <3>1. delivery'[e] = delivery[e]
            BY <1>1, <1>3, <2>2
        <3> QED BY <2>2, <3>1 DEF Pending
    <2> QED BY <1>9, <2>1, <2>2 DEF Pending
<1>10. NoneLost'
    BY <1>1, <1>9 DEF PairInv, NoneLost, Due
<1> QED BY <1>5, <1>6, <1>7, <1>8, <1>10 DEF PairInv

LEMMA HeadFirst ==
    ASSUME IInv, NEW d \in Deliverers, delivery[d] # <<>>
    PROVE  /\ Head(delivery[d]) = delivery[d][1] /\ 1 \in DOMAIN delivery[d]
           /\ DOMAIN delivery[d] \subseteq Nat \ {0}
           /\ Head(delivery[d]) \in Genuine
<1>1. delivery[d] \in Seq(Genuine)
    BY DEF IInv, RecordInv
<1> QED BY <1>1

\* Buffers are not touched by a deliverer.
LEMMA BufferPairsKept ==
    ASSUME PairInv, UNCHANGED <<buffers, calls>> PROVE \A i \in DOMAIN buffers' : InPairs(buffers[i])'
BY DEF PairInv, InPairs, MemoryAfter, CorrelationBefore, Paired

LEMMA CorrelationPairs ==
    ASSUME IInv, OneRecord, PairInv, NEW d \in Deliverers, TrackCorrelation(d) PROVE PairInv'
<1> DEFINE r == Head(delivery[d])
<1>1. /\ delivery[d] # <<>> /\ r.kind = "correlation" /\ NextRecord(d)
      /\ map' = IF tracker THEN Stored(map, r.call, r.usage) ELSE map
      /\ UNCHANGED <<tracker, calls, buffers, valid, gone, applied, raced>>
    BY DEF TrackCorrelation, At, cupti, members
<1>2. r.call \in DOMAIN calls /\ calls[r.call].under \in Usages
    <2>1. r \in Genuine
        BY <1>1, HeadFirst
    <2> QED BY <1>1, <2>1 DEF Genuine
<1>3. IF tracker THEN DOMAIN map' = DOMAIN map \cup {r.call} ELSE map' = map /\ calls[r.call].under \in gone
    BY <1>1, <1>2, UsagesAssumption DEF Stored, PairInv, TrackerOff
<1>4. \A e \in Deliverers : HandedOver(e)'
    <2>1. \A c \in DOMAIN map : c \in DOMAIN map'
        BY <1>3
    <2>2. r.call \in DOMAIN map' \/ calls[r.call].under \in gone
        BY <1>3
    <2> QED BY <1>1, <2>1, <2>2, HandedOverLeft DEF PairInv
<1>5. \A c : Paired(c)' <=> Paired(c)
    BY <1>1 DEF Paired
<1>6. ASSUME NEW c \in DOMAIN map', Paired(c) PROVE Awaited(c)'
    <2>1. CASE c \in DOMAIN map
        <3>1. Awaited(c)
            BY <1>6, <2>1 DEF PairInv, MapAwaited
        <3> QED BY <1>1, <3>1, AwaitedLeft
    <2>2. CASE c = r.call
        <3>1. HandedOver(d) /\ delivery[d][1] = r /\ 1 \in DOMAIN delivery[d]
            BY <1>1, HeadFirst DEF PairInv
        <3>2. MemoryAfter(delivery[d], 1, c)
            BY <1>1, <1>6, <2>2, <3>1 DEF HandedOver
        <3>3. PICK l \in DOMAIN delivery[d] : 1 < l /\ MemoryAt(delivery[d], l, c)
            BY <3>2 DEF MemoryAfter
        <3>4. l # 1
            BY <1>1, <3>3, HeadFirst
        <3>5. /\ Behind(d, d, l) \in DOMAIN delivery'[d]
              /\ delivery'[d][Behind(d, d, l)] = delivery[d][l]
            BY <1>1, <3>4, RecordLeft
        <3>6. found'[d] = None
            BY <1>1 DEF NextRecord, IInv, FoundInv
        <3> QED BY <3>3, <3>5, <3>6 DEF Awaited, MemoryAt
    <2> QED BY <1>3, <1>6, <2>1, <2>2
<1>7. MapAwaited' /\ TrackerOff'
    BY <1>1, <1>3, <1>5, <1>6 DEF MapAwaited, TrackerOff, PairInv
<1>8. NoneLost'
    <2>1. \A c : Pending(c) => Pending(c)'
        BY <1>1, PendingLeft
    <2> QED BY <1>1, <2>1 DEF PairInv, NoneLost, Due
<1> QED BY <1>1, <1>4, <1>7, <1>8, BufferPairsKept DEF PairInv

LEMMA LookUpPairs ==
    ASSUME IInv, OneRecord, PairInv, NEW d \in Deliverers, LookUpUsage(d) PROVE PairInv'
<1> DEFINE c == Head(delivery[d]).call
           u == IF tracker THEN FoundUsage(c) ELSE None
<1>1. /\ delivery[d] # <<>> /\ Head(delivery[d]).kind = "memory" /\ found[d] = None
      /\ map' = IF tracker THEN Erased(map, c) ELSE map
      /\ IF u = None THEN NextRecord(d)
         ELSE found' = [found EXCEPT ![d] = u] /\ UNCHANGED <<delivery, load>>
      /\ UNCHANGED <<tracker, calls, buffers, valid, gone, applied, raced>>
    BY DEF LookUpUsage, At, cupti, members
<1>2. DOMAIN map' = DOMAIN map \ {c}
    <2>1. ~tracker => map = <<>> /\ DOMAIN map = {}
        BY DEF PairInv, TrackerOff
    <2> QED BY <1>1, <2>1 DEF Erased
<1>3. \A x : Paired(x)' <=> Paired(x)
    BY <1>1 DEF Paired
<1>4. TrackerOff'
    BY <1>1 DEF TrackerOff, PairInv
<1>5. delivery[d][1] = Head(delivery[d]) /\ 1 \in DOMAIN delivery[d] /\ DOMAIN delivery[d] \subseteq Nat \ {0}
    BY <1>1, HeadFirst
<1>6. CASE u = None
    <2>1. NextRecord(d)
        BY <1>1, <1>6
    <2> HIDE DEF u
    <2>2. \A e \in Deliverers : HandedOver(e)'
        BY <1>1, <1>2, <2>1, HandedOverLeft DEF PairInv
    <2>3. \A x \in DOMAIN map' : Paired(x) => Awaited(x)'
        BY <1>1, <1>2, <2>1, AwaitedLeft DEF PairInv, MapAwaited
    <2>4. MapAwaited'
        BY <1>3, <2>3 DEF MapAwaited
    <2>5. ASSUME NEW w \in Usages \ (gone \cup raced), NEW x \in Due(w), Pending(x) PROVE Pending(x)'
        <3>1. CASE x = c
            <4>1. Paired(c) /\ calls[c].under \notin gone
                BY <2>5, <3>1, UsagesAssumption DEF Due, Paired, Counts
            <4>2. Expected(d, 1, c)
                BY <1>1, <1>5, <4>1 DEF PairInv, HandedOver
            <4>3. ~CorrelationBefore(delivery[d], 1, c)
                BY <1>5 DEF CorrelationBefore
            <4>4. c \in DOMAIN map
                BY <1>1, <4>1, <4>2, <4>3 DEF Expected
            <4>5. tracker
                BY <4>4 DEF PairInv, TrackerOff
            <4>6. u = map[c] /\ map[c] \in Usages
                BY <4>4, <4>5 DEF FoundUsage, IInv, MapInv, u
            <4> QED BY <1>6, <4>6, UsagesAssumption
        <3>2. CASE x # c
            BY <1>1, <2>1, <2>5, <3>2, PendingLeft
        <3> QED BY <3>1, <3>2
    <2>6. NoneLost'
        BY <1>1, <2>5 DEF PairInv, NoneLost, Due
    <2> QED BY <1>1, <1>4, <2>2, <2>4, <2>6, BufferPairsKept DEF PairInv
<1>7. CASE u # None
    <2>1. found' = [found EXCEPT ![d] = u] /\ UNCHANGED <<delivery, load>>
        BY <1>1, <1>7
    <2> HIDE DEF u, c
    <2>2. found'[d] # None /\ \A e \in Deliverers \ {d} : found'[e] = found[e]
        BY <1>7, <2>1 DEF IInv, FoundInv
    <2>3. ASSUME NEW e \in Deliverers, NEW k \in DOMAIN delivery[e], NEW x, x = delivery[e][k].call, Paired(x)
          PROVE  /\ delivery[e][k].kind = "correlation" => MemoryAfter(delivery[e], k, x)
                 /\ delivery[e][k].kind = "memory" =>
                        \/ calls[x].under \in gone
                        \/ CorrelationBefore(delivery[e], k, x)
                        \/ x \in DOMAIN map'
                        \/ k = 1 /\ found'[e] # None
        <3>1. HandedOver(e)
            BY DEF PairInv
        <3>2. ASSUME delivery[e][k].kind = "memory", x \in DOMAIN map, x \notin DOMAIN map'
              PROVE  k = 1 /\ found'[e] # None
            <4>1. x = c
                BY <1>2, <3>2
            <4>2. Same(delivery[e], k, delivery[d], 1)
                BY <1>1, <1>5, <2>3, <3>2, <4>1 DEF Same, c
            <4> QED BY <1>5, <2>2, <4>2 DEF OneRecord
        <3>3. found[e] # None => found'[e] # None
            BY <1>1, <2>2
        <3> QED BY <2>3, <3>1, <3>2, <3>3 DEF HandedOver, Expected
    <2>4. \A e \in Deliverers : HandedOver(e)'
        BY <1>1, <2>1, <2>3 DEF HandedOver, Paired, Expected, MemoryAfter, CorrelationBefore
    <2>5. ASSUME NEW x \in DOMAIN map', Paired(x) PROVE Awaited(x)'
        <3>1. x \in DOMAIN map /\ x # c /\ Awaited(x)
            BY <1>2, <2>5 DEF PairInv, MapAwaited
        <3>2. PICK e \in Deliverers : \E k \in DOMAIN delivery[e] :
                  MemoryAt(delivery[e], k, x) /\ (k = 1 => found[e] = None)
            BY <3>1 DEF Awaited
        <3>3. PICK k \in DOMAIN delivery[e] : MemoryAt(delivery[e], k, x) /\ (k = 1 => found[e] = None)
            BY <3>2
        <3>4. ~(e = d /\ k = 1)
            BY <1>5, <3>1, <3>3 DEF MemoryAt, c
        <3>5. k = 1 => found'[e] = None
            BY <2>2, <3>3, <3>4
        <3> QED BY <2>1, <3>3, <3>5 DEF Awaited, MemoryAt
    <2>6. MapAwaited'
        BY <1>3, <2>5 DEF MapAwaited
    <2>7. NoneLost'
        BY <1>1, <2>1 DEF PairInv, NoneLost, Due, Pending
    <2> QED BY <1>1, <1>4, <2>4, <2>6, <2>7, BufferPairsKept DEF PairInv
<1> QED BY <1>6, <1>7

\* A record whose usage was found: it is counted unless it need not be.
LEMMA UsedPairs ==
    ASSUME IInv, TypeInv, CountInv, PairInv, NEW d \in Deliverers,
           IgnoreRecord(d) \/ Invalidate(d) \/ WriteSum(d)
    PROVE  PairInv'
<1> DEFINE c == Head(delivery[d]).call
           u == found[d]
<1>1. /\ u # None /\ NextRecord(d)
      /\ UNCHANGED <<tracker, calls, buffers, map, gone>>
    BY DEF IgnoreRecord, Invalidate, WriteSum, cupti, members, IInv, FoundInv
<1>2. /\ delivery[d] # <<>> /\ Head(delivery[d]).kind = "memory"
      /\ u \in Usages /\ UnderOf(c, u)
    BY <1>1 DEF CountInv, AtMemory, At, IInv, FoundInv, UsageOrNone
<1>3. \A e \in Deliverers : HandedOver(e)'
    BY <1>1, <1>2, HandedOverLeft DEF PairInv, CountInv
<1>4. MapAwaited'
    <2>1. \A x : Paired(x)' <=> Paired(x)
        BY <1>1 DEF Paired
    <2> QED BY <1>1, <1>2, <2>1, AwaitedLeft DEF PairInv, MapAwaited
<1>5. TrackerOff'
    BY <1>1 DEF PairInv, TrackerOff
<1>6. raced \subseteq raced' /\ \A w \in Usages : applied[w] \subseteq applied'[w]
    BY DEF IgnoreRecord, Invalidate, WriteSum, Race, IInv, AppliedInv
<1>7. ASSUME NEW w \in Usages \ (gone \cup raced'), valid'[w] PROVE valid[w]
    <2>1. CASE IgnoreRecord(d)
        BY <1>7, <2>1 DEF IgnoreRecord, members
    <2>2. CASE Invalidate(d)
        BY <1>7, <2>2 DEF Invalidate, TypeInv, UsageType
    <2>3. CASE WriteSum(d)
        <3>1. valid' = [valid EXCEPT ![u] = TRUE] /\ load[d] # <<>>
            BY <2>3 DEF WriteSum
        <3>2. u \notin raced => valid[u]
            BY <3>1 DEF CountInv, LoadInv
        <3> QED BY <1>2, <1>6, <1>7, <3>1, <3>2 DEF TypeInv, UsageType
    <2> QED BY <2>1, <2>2, <2>3
<1>8. ASSUME NEW w \in Usages \ (gone \cup raced'), valid'[w], c \in Due(w) PROVE c \in applied'[w]
    <2>1. w = u /\ Counts(OpOf(d)) /\ valid[u]
        BY <1>2, <1>7, <1>8 DEF UnderOf, Due, OpOf
    <2>2. ~IgnoreRecord(d)
        BY <2>1 DEF IgnoreRecord
    <2>3. ~Invalidate(d)
        BY <1>2, <1>8, <2>1 DEF Invalidate, TypeInv, UsageType
    <2>4. WriteSum(d)
        BY <2>2, <2>3
    <2> QED BY <1>2, <2>1, <2>4 DEF WriteSum, IInv, AppliedInv
<1>9. ASSUME NEW w \in Usages \ (gone \cup raced'), valid'[w], NEW x \in Due(w)
      PROVE  x \in applied'[w] \/ Pending(x)'
    <2>1. CASE x = c
        BY <1>8, <1>9, <2>1
    <2>2. CASE x # c
        <3>1. x \in applied[w] \/ Pending(x)
            BY <1>6, <1>7, <1>9 DEF PairInv, NoneLost
        <3> QED BY <1>1, <1>2, <1>6, <2>2, <3>1, PendingLeft
    <2> QED BY <2>1, <2>2
<1>10. NoneLost'
    BY <1>1, <1>9 DEF NoneLost, Due
<1> QED BY <1>1, <1>3, <1>4, <1>5, <1>10, BufferPairsKept DEF PairInv
-----------------------------------------------------------------------------
LEMMA PairInit == Init => PairInv
<1> SUFFICES ASSUME Init PROVE PairInv
    OBVIOUS
<1>1. /\ buffers = <<>> /\ calls = <<>> /\ map = <<>> /\ \A d \in Deliverers : delivery[d] = <<>>
    BY DEF Init
<1> QED BY <1>1 DEF PairInv, HandedOver, MapAwaited, TrackerOff, NoneLost, Due

LEMMA PairStep == IInv /\ TypeInv /\ CountInv /\ PairInv /\ [Next]_vars => PairInv'
<1> SUFFICES ASSUME IInv, TypeInv, CountInv, PairInv, [Next]_vars PROVE PairInv'
    OBVIOUS
<1>1. CASE InitTracker
    <2>1. map' = map
        BY <1>1 DEF InitTracker, PairInv, TrackerOff
    <2> QED BY <1>1, <2>1, PairKept DEF InitTracker, cupti, members
<1>2. CASE FiniTracker
    BY <1>2, FiniTrackerPairs
<1>3. ASSUME NEW t \in Threads,
             \/ \E u \in Usages : TrackThreadMemoryUsage(t, u)
             \/ \E op \in Ops : BeginCall(t, op)
             \/ EndCall(t) \/ Untrack(t) \/ Flush(t) \/ Pop(t)
      PROVE  PairInv'
    <2>1. CASE \E op \in Ops : BeginCall(t, op)
        BY <2>1, BeginCallPairs
    <2>2. CASE Flush(t)
        BY <2>2, BufferCompletedPairs DEF Flush, Deliverers
    <2>3. CASE (\E u \in Usages : TrackThreadMemoryUsage(t, u)) \/ EndCall(t) \/ Untrack(t) \/ Pop(t)
        BY <2>3, PairKept DEF TrackThreadMemoryUsage, EndCall, Untrack, Pop, history, cupti, members
    <2> QED BY <1>3, <2>1, <2>2, <2>3
<1>4. ASSUME NEW i \in DOMAIN buffers, BufferCompleted(Worker, i) PROVE PairInv'
    BY <1>4, BufferCompletedPairs DEF Deliverers
<1>5. ASSUME NEW d \in Deliverers, TrackActivity(d) PROVE PairInv'
    <2>1. CASE ReadSum(d)
        BY <2>1, PairKept DEF ReadSum, cupti, members
    <2> QED BY <1>5, <2>1, CorrelationPairs, LookUpPairs, UsedPairs DEF TrackActivity, CountInv
<1>6. ASSUME NEW u \in Usages, Destroy(u) \/ SerializeToBufferAttributes(u) PROVE PairInv'
    BY <1>6, PairKept DEF Destroy, SerializeToBufferAttributes, cupti, members
<1>7. ASSUME NEW u \in Usages, NEW v \in Usages, Merge(u, v) PROVE PairInv'
    <2>1. raced \subseteq raced'
        BY <1>7 DEF Merge
    <2> QED BY <1>7, <2>1, PairKept DEF Merge, cupti
<1>8. CASE UNCHANGED vars
    BY <1>8, PairKept DEF vars, history, cupti, members
<1> QED BY <1>1, <1>2, <1>3, <1>4, <1>5, <1>6, <1>7, <1>8 DEF Next

\* An entry of the map that is in pair is owed to a record that is being handed over.
LEMMA PairsAccounted == IInv /\ PairInv => RecordsAccounted
<1> SUFFICES ASSUME IInv, PairInv PROVE RecordsAccounted
    OBVIOUS
<1>1. ASSUME NEW c \in DOMAIN map, calls[c].op.kind # "none", calls[c].together PROVE Pending(c)
    <2>1. Paired(c)
        BY <1>1, UsagesAssumption DEF IInv, MapInv, UnderOf, Paired
    <2>2. Awaited(c)
        BY <2>1 DEF PairInv, MapAwaited
    <2> QED BY <2>2 DEF Awaited, MemoryAt, Pending
<1> QED BY <1>1 DEF RecordsAccounted, DanglingForCause, PairInv

\* What CUPTI records for a usage ends up in its sums, or is still to be handed over, as long as
\* the usage is there, valid and not updated by two deliverers at once; and what the map keeps
\* of a usage that is gone is awaited, or comes from a call without a second record in its buffer.
THEOREM NothingLost == Spec => []RecordsAccounted
<1>1. Init => IInv /\ TypeInv /\ CountInv /\ PairInv
    BY InitInv, TypeInit, CountInit, PairInit
<1>2. /\ IInv /\ TypeInv /\ CountInv /\ PairInv /\ [Next]_vars
      => IInv' /\ TypeInv' /\ CountInv' /\ PairInv'
    BY NextInv, TypeStep, CountStep, PairStep
<1>3. IInv /\ PairInv => RecordsAccounted
    BY PairsAccounted
<1> QED BY <1>1, <1>2, <1>3, PTL DEF Spec
-----------------------------------------------------------------------------
(***************************************************************************)
(* What is tracked.                                                        *)
(***************************************************************************)
\* The usages on the stacks are tracked, each on one place, and those that are tracked exist.
TrackedInv ==
    /\ \A t \in Threads : \A k \in DOMAIN stack[t] : tracked[stack[t][k]]
    /\ \A t, x \in Threads : \A k \in DOMAIN stack[t], l \in DOMAIN stack[x] :
           stack[t][k] = stack[x][l] => t = x /\ k = l
    /\ \A u \in Usages : tracked[u] => u \notin gone

LEMMA TrackedInit == Init => TrackedInv
BY DEF Init, TrackedInv

LEMMA TrackedStep == IInv /\ TypeInv /\ TrackedInv /\ [Next]_vars => TrackedInv'
<1> SUFFICES ASSUME IInv, TypeInv, TrackedInv, [Next]_vars PROVE TrackedInv'
    OBVIOUS
<1>1. ASSUME NEW t \in Threads, NEW u \in Usages, TrackThreadMemoryUsage(t, u) PROVE TrackedInv'
    <2>1. /\ u \notin gone /\ ~tracked[u] /\ gone' = gone
          /\ stack' = [stack EXCEPT ![t] = Append(stack[t], u)]
          /\ tracked' = [tracked EXCEPT ![u] = TRUE]
        BY <1>1 DEF TrackThreadMemoryUsage
    <2> DEFINE n == Len(stack[t]) + 1
    <2>2. /\ \A x \in Threads \ {t} : stack'[x] = stack[x]
          /\ n \notin DOMAIN stack[t] /\ DOMAIN stack'[t] = DOMAIN stack[t] \cup {n}
          /\ stack'[t][n] = u /\ \A k \in DOMAIN stack[t] : stack'[t][k] = stack[t][k]
        <3>1. stack[t] \in Seq(Usages) /\ stack'[t] = Append(stack[t], u)
              /\ \A x \in Threads \ {t} : stack'[x] = stack[x]
            BY <2>1 DEF IInv, StackInv
        <3> QED BY <3>1
    <2> HIDE DEF n
    <2>3. \A x \in Threads : \A k \in DOMAIN stack[x] : stack[x][k] # u /\ stack[x][k] \in Usages
        BY <2>1 DEF TrackedInv, IInv, StackInv
    <2>4. /\ tracked'[u] /\ \A v \in Usages \ {u} : tracked'[v] = tracked[v]
        BY <2>1 DEF TypeInv, UsageType
    <2>5. ASSUME NEW x \in Threads, NEW k \in DOMAIN stack'[x]
          PROVE  \/ x = t /\ k = n /\ stack'[x][k] = u
                 \/ k \in DOMAIN stack[x] /\ stack'[x][k] = stack[x][k] /\ ~(x = t /\ k = n)
        BY <2>2
    <2>6. \A x \in Threads : \A k \in DOMAIN stack'[x] : tracked'[stack'[x][k]]
        BY <2>3, <2>4, <2>5 DEF TrackedInv
    <2>7. \A x, y \in Threads : \A k \in DOMAIN stack'[x], l \in DOMAIN stack'[y] :
              stack'[x][k] = stack'[y][l] => x = y /\ k = l
        BY <2>3, <2>5 DEF TrackedInv
    <2>8. \A v \in Usages : tracked'[v] => v \notin gone'
        BY <2>1, <2>4 DEF TrackedInv
    <2> QED BY <2>6, <2>7, <2>8 DEF TrackedInv
<1>2. ASSUME NEW t \in Threads, Pop(t) PROVE TrackedInv'
    <2> DEFINE u == Top(stack[t])
               n == Len(stack[t])
    <2>1. /\ gone' = gone
          /\ stack' = [stack EXCEPT ![t] = SubSeq(stack[t], 1, Len(stack[t]) - 1)]
          /\ tracked' = [tracked EXCEPT ![u] = FALSE]
        BY <1>2 DEF Pop
    <2>2. stack[t] \in Seq(Usages)
        BY DEF IInv, StackInv
    <2>3. /\ \A x \in Threads \ {t} : stack'[x] = stack[x]
          /\ \A k \in DOMAIN stack'[t] : k \in DOMAIN stack[t] /\ k # n /\ stack'[t][k] = stack[t][k]
        <3>1. stack'[t] = SubSeq(stack[t], 1, n - 1) /\ \A x \in Threads \ {t} : stack'[x] = stack[x]
            BY <2>1 DEF IInv, StackInv
        <3>2. n \in Nat
            BY <2>2
        <3>3. CASE n = 0
            <4>1. DOMAIN SubSeq(stack[t], 1, n - 1) = {}
                BY <2>2, <3>3
            <4> QED BY <3>1, <4>1
        <3>4. CASE n # 0
            <4> DEFINE s == stack[t]
            <4> HIDE DEF s
            <4>1. s \in Seq(Usages) /\ n = Len(s)
                BY <2>2 DEF s
            <4> HIDE DEF n
            <4>2. DOMAIN SubSeq(s, 1, n - 1) = 1 .. n - 1
                BY <3>2, <3>4, <4>1
            <4>3. \A k \in 1 .. n - 1 : k \in DOMAIN s /\ k # n /\ SubSeq(s, 1, n - 1)[k] = s[k]
                BY <3>2, <3>4, <4>1
            <4> QED BY <3>1, <4>2, <4>3 DEF s
        <3> QED BY <3>1, <3>3, <3>4
    <2>4. stack[t] # <<>> => n \in DOMAIN stack[t] /\ u = stack[t][n]
        BY <2>2 DEF Top
    <2> HIDE DEF n
    <2>5. ASSUME NEW x \in Threads, NEW k \in DOMAIN stack'[x]
          PROVE  /\ k \in DOMAIN stack[x] /\ stack'[x][k] = stack[x][k] /\ stack[x][k] # u
                 /\ stack[x][k] \in Usages
        <3>1. k \in DOMAIN stack[x] /\ stack'[x][k] = stack[x][k] /\ (x = t => k # n)
            BY <2>3
        <3>2. stack[x][k] \in Usages
            BY <3>1 DEF IInv, StackInv
        <3>3. CASE stack[t] = <<>>
            BY <3>1, <3>2, <3>3, UsagesAssumption DEF Top
        <3>4. CASE stack[t] # <<>>
            <4>1. n \in DOMAIN stack[t] /\ u = stack[t][n]
                BY <2>4, <3>4
            <4> HIDE DEF u
            <4> QED BY <3>1, <3>2, <4>1 DEF TrackedInv
        <3> QED BY <3>1, <3>2, <3>3, <3>4
    <2> HIDE DEF u
    <2>6. /\ \A v \in Usages \ {u} : tracked'[v] = tracked[v]
          /\ \A v \in Usages : tracked'[v] => tracked[v]
        BY <2>1 DEF TypeInv, UsageType
    <2>7. \A x \in Threads : \A k \in DOMAIN stack'[x] : tracked'[stack'[x][k]]
        BY <2>5, <2>6 DEF TrackedInv
    <2>8. \A x, y \in Threads : \A k \in DOMAIN stack'[x], l \in DOMAIN stack'[y] :
              stack'[x][k] = stack'[y][l] => x = y /\ k = l
        BY <2>5 DEF TrackedInv
    <2>9. \A v \in Usages : tracked'[v] => v \notin gone'
        BY <2>1, <2>6 DEF TrackedInv
    <2> QED BY <2>7, <2>8, <2>9 DEF TrackedInv
<1>3. ASSUME NEW u \in Usages, Destroy(u) PROVE TrackedInv'
    BY <1>3 DEF Destroy, TrackedInv, cupti
<1>4. CASE UNCHANGED <<stack, tracked, gone>>
    BY <1>4 DEF TrackedInv
<1>5. CASE \/ InitTracker \/ FiniTracker
           \/ \E d \in Deliverers : TrackActivity(d) \/ \E i \in DOMAIN buffers : BufferCompleted(d, i)
           \/ \E t \in Threads : EndCall(t) \/ Untrack(t) \/ \E op \in Ops : BeginCall(t, op)
           \/ \E u \in Usages : SerializeToBufferAttributes(u) \/ \E v \in Usages : Merge(v, u)
           \/ UNCHANGED vars
    <2>1. UNCHANGED <<stack, tracked, gone>>
        BY <1>5 DEF InitTracker, FiniTracker, TrackActivity, TrackCorrelation, LookUpUsage, IgnoreRecord,
                    Invalidate, ReadSum, WriteSum, BufferCompleted, EndCall, Untrack, BeginCall,
                    SerializeToBufferAttributes, Merge, cupti, members, vars
    <2> QED BY <1>4, <2>1
<1> QED BY <1>1, <1>2, <1>3, <1>5 DEF Next, Flush, Deliverers

\* With no call running and nothing being handed over, a usage that is untracked has counted
\* all its calls.
LEMMA AllCounted ==
    ASSUME IInv, PairInv, TrackedInv, NEW t \in Threads, NEW u \in Usages,
           Pop(t), u = Top(stack[t]), valid[u], u \notin raced,
           \A x \in Threads : running[x] = 0, \A d \in Deliverers : delivery[d] = <<>>
    PROVE  Due(u) \subseteq applied[u]
<1>1. u \notin gone
    <2>1. stack[t] # <<>> /\ u = stack[t][Len(stack[t])]
        BY UsagesAssumption DEF Top
    <2>2. Len(stack[t]) \in DOMAIN stack[t]
        BY <2>1 DEF IInv, StackInv
    <2> QED BY <2>1, <2>2 DEF TrackedInv
<1>2. \A i \in DOMAIN buffers : ~Complete(i)
    BY DEF Pop, Flushed
<1>3. ASSUME NEW c, Pending(c) PROVE FALSE
    <2>1. PICK i \in DOMAIN buffers : TRUE
        BY <1>3 DEF Pending
    <2>2. PICK k \in DOMAIN buffers[i] : buffers[i][k].call = 0
        BY <1>2, <2>1 DEF Complete
    <2>3. 0 \in DOMAIN calls
        BY <2>2, RecordCalls
    <2> QED BY <2>3 DEF IInv, RecordInv
<1> QED BY <1>1, <1>3 DEF PairInv, NoneLost

\* Untracking a usage is enough to have all its calls counted when no thread is in a call or
\* hands over records at that moment.
THEOREM UntrackedCounted == Spec => CountedWhenUntracked
<1>1. Init => IInv /\ TypeInv /\ CountInv /\ PairInv /\ TrackedInv
    BY InitInv, TypeInit, CountInit, PairInit, TrackedInit
<1>2. /\ IInv /\ TypeInv /\ CountInv /\ PairInv /\ TrackedInv /\ [Next]_vars
      => IInv' /\ TypeInv' /\ CountInv' /\ PairInv' /\ TrackedInv'
    BY NextInv, TypeStep, CountStep, PairStep, TrackedStep
<1>3. IInv /\ PairInv /\ TrackedInv /\ [Next]_vars =>
      [\A t \in Threads : \A u \in Usages :
          /\ Pop(t) /\ u = Top(stack[t]) /\ valid[u] /\ u \notin raced
          /\ \A x \in Threads : running[x] = 0
          /\ \A d \in Deliverers : delivery[d] = <<>>
          => Due(u) \subseteq applied[u]]_vars
    BY AllCounted
<1> QED BY <1>1, <1>2, <1>3, PTL DEF Spec, CountedWhenUntracked
=============================================================================
