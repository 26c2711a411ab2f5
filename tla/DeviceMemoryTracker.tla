------------------------ MODULE DeviceMemoryTracker ------------------------
(***************************************************************************)
(* DeviceMemoryTracker: the memory a thread allocates between Track and    *)
(* Untrack is added up in a MemoryUsage.  CUPTI writes records of the CUDA *)
(* calls into activity buffers and delivers these later, on any thread:    *)
(* one record says which MemoryUsage a call was made for, a second one     *)
(* what it allocated or released, and TrackActivity brings them together   *)
(* through a map from the call's correlation id.                           *)
(*                                                                         *)
(* External (CUPTI): the stack of correlation ids of each thread, the      *)
(* buffers, and that a buffer is delivered once no call recorded in it is  *)
(* still running.  RUNTIME records, which are ignored, and the kinds of    *)
(* correlation other than UNKNOWN are left out.  Ids do not wrap around:   *)
(* a behaviour has at most MaxCalls calls.                                 *)
(***************************************************************************)
EXTENDS Integers, SequencesExt

CONSTANTS
    Threads,       \* threads of the backend that track
    Worker,        \* CUPTI's own thread
    Usages,        \* MemoryUsage objects
    DeviceCount,   \* device_cnt_
    Ops,           \* what a CUDA call may do: see CallOps
    BufferRecords, \* records that fit into an activity buffer
    SizeModulus,   \* 2^w for a size_t of w bits
    MaxCalls       \* bound: CUDA calls

None == "none"
\* The elements of the three arrays of a usage, in the order they are serialized.
SlotOrder == << <<"system", 0>>, <<"pinned", 0>> >>
                 \o [d \in 1 .. DeviceCount |-> <<"cuda", d - 1>>]
Slots == {SlotOrder[i] : i \in DOMAIN SlotOrder}
\* kind "none": the call makes no memory record; "other": neither of the two.
CallOps == [kind : {"allocation", "release", "other", "none"},
            memory : {"system", "pinned", "cuda", "unknown"},
            device : Nat, bytes : Nat]

ASSUME WorkerAssumption == Worker \notin Threads
ASSUME UsagesAssumption == None \notin Usages
ASSUME DevicesAssumption == DeviceCount \in Nat
ASSUME OpsAssumption == Ops \subseteq CallOps
ASSUME BoundsAssumption ==
    BufferRecords \in Nat \ {0} /\ SizeModulus \in Nat \ {0} /\ MaxCalls \in Nat

Deliverers == Threads \cup {Worker}

VARIABLES
    tracker,     \* tracker_ is set
    pc,          \* of each thread: "idle", "call" or "flush"
    stack,       \* CUPTI's external correlation ids of each thread
    buffers,     \* CUPTI's buffers that were not delivered
    map,         \* activity_to_memory_usage_
    bytes, valid, tracked,  \* the members of each usage
    gone,        \* usages that were destroyed
    delivery,    \* the records each deliverer has still to hand over
    found,       \* the usage it found for the first one of them
    load,        \* the sum it read from that usage and will add to
    attributes,  \* buffer_attributes_ of each usage
    reported,    \* usage_size as SerializeToBufferAttributes last set it
    calls,       \* history: the calls made
    running,     \* history: the call each thread is in, or 0
    applied,     \* history: the calls counted in each usage
    merged,      \* history: the calls added to it with +=
    raced        \* history: usages updated by two deliverers at once

history == <<calls, running, applied, merged, raced>>
cupti == <<stack, buffers, calls, running>>
members == <<bytes, valid, tracked, gone>>
vars == <<tracker, pc, stack, buffers, map, members, delivery, found, load,
          attributes, reported, history>>

Init ==
    /\ tracker = FALSE
    /\ pc = [t \in Threads |-> "idle"]
    /\ stack = [t \in Threads |-> <<>>]
    /\ buffers = <<>>
    /\ map = <<>>
    /\ bytes = [u \in Usages |-> [s \in Slots |-> 0]]
    /\ valid = [u \in Usages |-> TRUE]
    /\ tracked = [u \in Usages |-> FALSE]
    /\ gone = {}
    /\ delivery = [d \in Deliverers |-> <<>>]
    /\ found = [d \in Deliverers |-> None]
    /\ load = [d \in Deliverers |-> <<>>]
    /\ attributes = [u \in Usages |-> <<>>]
    /\ reported = [u \in Usages |-> 0]
    /\ calls = <<>>
    /\ running = [t \in Threads |-> 0]
    /\ applied = [u \in Usages |-> {}]
    /\ merged = [u \in Usages |-> {}]
    /\ raced = {}
-----------------------------------------------------------------------------
(* The tracker is made when the backend is initialized, if CUPTI allows it, *)
(* and deleted when it is finalized and its models are gone.                *)
InitTracker ==
    /\ ~tracker
    /\ tracker' = TRUE
    /\ map' = <<>>
    /\ UNCHANGED <<pc, cupti, members, delivery, found, load, attributes,
                   reported, applied, merged, raced>>

FiniTracker ==
    /\ tracker
    /\ \A t \in Threads : stack[t] = <<>> /\ pc[t] = "idle"
    /\ \A d \in Deliverers : delivery[d] = <<>>
    /\ gone = Usages
    /\ tracker' = FALSE
    /\ map' = <<>>
    /\ UNCHANGED <<pc, cupti, members, delivery, found, load, attributes,
                   reported, applied, merged, raced>>

TrackThreadMemoryUsage(t, u) ==
    /\ tracker /\ pc[t] = "idle"
    /\ u \notin gone /\ ~tracked[u]
    /\ stack' = [stack EXCEPT ![t] = Append(@, u)]
    /\ tracked' = [tracked EXCEPT ![u] = TRUE]
    /\ UNCHANGED <<tracker, pc, buffers, map, bytes, valid, gone, delivery, found,
                   load, attributes, reported, history>>
-----------------------------------------------------------------------------
Top(s) == IF s = <<>> THEN None ELSE s[Len(s)]

\* The records of call c made under usage u.
Records(c, op, u) ==
    (IF u = None THEN <<>> ELSE <<[kind |-> "correlation", call |-> c, usage |-> u]>>)
    \o (IF op.kind = "none" THEN <<>> ELSE <<[kind |-> "memory", call |-> c, usage |-> None]>>)

\* Buffers with a record more, in a new one when the last is full.
Write(bs, rec) ==
    IF bs # <<>> /\ Len(bs[Len(bs)]) < BufferRecords
    THEN [bs EXCEPT ![Len(bs)] = Append(@, rec)]
    ELSE Append(bs, <<rec>>)

WriteAll(bs, recs) ==
    CASE Len(recs) = 0 -> bs
      [] Len(recs) = 1 -> Write(bs, recs[1])
      [] OTHER -> Write(Write(bs, recs[1]), recs[2])

BeginCall(t, op) ==
    LET c == Len(calls) + 1
        u == Top(stack[t])
        recs == Records(c, op, u)
        after == WriteAll(buffers, recs)
    IN  /\ tracker /\ pc[t] = "idle" /\ c <= MaxCalls
        /\ pc' = [pc EXCEPT ![t] = "call"]
        /\ running' = [running EXCEPT ![t] = c]
        /\ buffers' = after
        /\ calls' = Append(calls,
               [op |-> op, under |-> u,
                together |-> \E i \in DOMAIN after :
                    {recs[k] : k \in DOMAIN recs} \subseteq {after[i][k] : k \in DOMAIN after[i]}])
        /\ UNCHANGED <<tracker, stack, map, members, delivery, found, load,
                       attributes, reported, applied, merged, raced>>

EndCall(t) ==
    /\ pc[t] = "call"
    /\ pc' = [pc EXCEPT ![t] = "idle"]
    /\ running' = [running EXCEPT ![t] = 0]
    /\ UNCHANGED <<tracker, stack, buffers, map, members, delivery, found, load,
                   attributes, reported, calls, applied, merged, raced>>

\* Buffer i has no record of a call that is still running.
Complete(i) ==
    \A k \in DOMAIN buffers[i] : \A t \in Threads : buffers[i][k].call # running[t]

\* bufferCompleted is called with buffer i on the thread d.
BufferCompleted(d, i) ==
    /\ delivery[d] = <<>>
    /\ Complete(i)
    /\ delivery' = [delivery EXCEPT ![d] = buffers[i]]
    /\ buffers' = SubSeq(buffers, 1, i - 1) \o SubSeq(buffers, i + 1, Len(buffers))
    /\ UNCHANGED <<tracker, pc, stack, map, members, found, load, attributes,
                   reported, history>>
-----------------------------------------------------------------------------
\* d is about to hand a record of this kind to TrackActivity.
At(d, kind) == delivery[d] # <<>> /\ Head(delivery[d]).kind = kind
NextRecord(d) ==
    /\ delivery' = [delivery EXCEPT ![d] = Tail(@)]
    /\ found' = [found EXCEPT ![d] = None]
    /\ load' = [load EXCEPT ![d] = <<>>]

\* mutant: no erase.
ErasedNothing(m, c) == m
Erased(m, c) == [x \in DOMAIN m \ {c} |-> m[x]]

\* mutant: the usage is found under the latest id of all.
FoundLatest(c) == IF map = <<>> THEN None ELSE map[Max(DOMAIN map)]
FoundUsage(c) == IF c \in DOMAIN map THEN map[c] ELSE None

Stored(m, c, u) == [x \in DOMAIN m \cup {c} |-> IF x = c THEN u ELSE m[x]]

TrackCorrelation(d) ==
    /\ At(d, "correlation")
    /\ map' = IF tracker THEN Stored(map, Head(delivery[d]).call, Head(delivery[d]).usage) ELSE map
    /\ NextRecord(d)
    /\ UNCHANGED <<tracker, pc, cupti, members, attributes, reported, applied,
                   merged, raced>>

\* A memory record: its usage is looked up, and the entry erased, with mtx_ held.
LookUpUsage(d) ==
    /\ At(d, "memory") /\ found[d] = None
    /\ LET c == Head(delivery[d]).call
           u == IF tracker THEN FoundUsage(c) ELSE None
       IN  /\ map' = IF tracker THEN Erased(map, c) ELSE map
           /\ IF u = None THEN NextRecord(d)
              ELSE /\ found' = [found EXCEPT ![d] = u]
                   /\ UNCHANGED <<delivery, load>>
    /\ UNCHANGED <<tracker, pc, cupti, members, attributes, reported, applied,
                   merged, raced>>

OpOf(d) == calls[Head(delivery[d]).call].op
SlotOf(op) == <<op.memory, op.device>>
Counts(op) == op.kind \in {"allocation", "release"}
Others(d) == {e \in Deliverers \ {d} : found[e] = found[d] /\ load[e] # <<>>}
Race(d) == raced' = IF Others(d) = {} THEN raced ELSE raced \cup {found[d]}

\* Without mtx_: records of no use are dropped.
IgnoreRecord(d) ==
    /\ found[d] # None /\ load[d] = <<>>
    /\ ~valid[found[d]] \/ ~Counts(OpOf(d))
    /\ NextRecord(d)
    /\ UNCHANGED <<tracker, pc, cupti, map, members, attributes, reported,
                   applied, merged, raced>>

\* An unknown kind of memory, or a device beyond the array.
Invalidate(d) ==
    /\ found[d] # None /\ load[d] = <<>>
    /\ valid[found[d]] /\ Counts(OpOf(d)) /\ SlotOf(OpOf(d)) \notin Slots
    /\ valid' = [valid EXCEPT ![found[d]] = FALSE]
    /\ Race(d)
    /\ NextRecord(d)
    /\ UNCHANGED <<tracker, pc, cupti, map, bytes, tracked, gone, attributes,
                   reported, applied, merged>>

\* UpdateMemoryTypeUsage reads the sum ...
ReadSum(d) ==
    /\ found[d] # None /\ load[d] = <<>>
    /\ valid[found[d]] /\ Counts(OpOf(d)) /\ SlotOf(OpOf(d)) \in Slots
    /\ load' = [load EXCEPT ![d] = <<bytes[found[d]][SlotOf(OpOf(d))]>>]
    /\ UNCHANGED <<tracker, pc, cupti, map, members, delivery, found, attributes,
                   reported, applied, merged, raced>>

\* mutant
UpdatedWithoutSign(sum, op) == sum + op.bytes
Updated(sum, op) == IF op.kind = "allocation" THEN sum + op.bytes ELSE sum - op.bytes

\* ... and writes it back, and valid_ with it.
WriteSum(d) ==
    /\ load[d] # <<>>
    /\ LET u == found[d]
           op == OpOf(d)
       IN  /\ bytes' = [bytes EXCEPT ![u][SlotOf(op)] = Updated(load[d][1], op)]
           /\ valid' = [valid EXCEPT ![u] = TRUE]
           /\ applied' = [applied EXCEPT ![u] = @ \cup {Head(delivery[d]).call}]
    /\ Race(d)
    /\ NextRecord(d)
    /\ UNCHANGED <<tracker, pc, cupti, map, tracked, gone, attributes, reported, merged>>

TrackActivity(d) ==
    \/ TrackCorrelation(d) \/ LookUpUsage(d) \/ IgnoreRecord(d)
    \/ Invalidate(d) \/ ReadSum(d) \/ WriteSum(d)
-----------------------------------------------------------------------------
(* UntrackThreadMemoryUsage: cuptiActivityFlushAll(0) delivers the buffers   *)
(* that are complete, then the id is popped.  Also what a ScopeGuard and the *)
(* destructor of a tracked usage do.                                         *)
Untrack(t) ==
    /\ tracker /\ pc[t] = "idle" /\ stack[t] # <<>>
    /\ pc' = [pc EXCEPT ![t] = "flush"]
    /\ UNCHANGED <<tracker, cupti, map, members, delivery, found, load, attributes,
                   reported, applied, merged, raced>>

Flush(t) ==
    /\ pc[t] = "flush"
    /\ \E i \in DOMAIN buffers : BufferCompleted(t, i)

\* mutant
NothingToFlush(t) == TRUE
Flushed(t) == delivery[t] = <<>> /\ \A i \in DOMAIN buffers : ~Complete(i)

\* CUPTI pops the top of the stack; usages are untracked in the reverse order,
\* as the header asks for, so that it is the one that was passed.
Pop(t) ==
    /\ pc[t] = "flush" /\ Flushed(t)
    /\ tracked' = [tracked EXCEPT ![Top(stack[t])] = FALSE]
    /\ stack' = [stack EXCEPT ![t] = SubSeq(@, 1, Len(@) - 1)]
    /\ pc' = [pc EXCEPT ![t] = "idle"]
    /\ UNCHANGED <<tracker, buffers, map, bytes, valid, gone, delivery, found,
                   load, attributes, reported, history>>

\* The destructor of a usage that is not tracked (any more).
Destroy(u) ==
    /\ u \notin gone /\ ~tracked[u]
    /\ gone' = gone \cup {u}
    /\ attributes' = [attributes EXCEPT ![u] = <<>>]
    /\ UNCHANGED <<tracker, pc, cupti, map, bytes, valid, tracked, delivery,
                   found, load, reported, applied, merged, raced>>

\* operator+=: the sums are added, valid_ is not looked at.
Merge(u, v) ==
    /\ u # v /\ {u, v} \cap gone = {} /\ ~tracked[u] /\ ~tracked[v]
    /\ (applied[v] \cup merged[v]) \cap (applied[u] \cup merged[u]) = {}
    /\ applied[v] # {}
    /\ bytes' = [bytes EXCEPT ![u] = [s \in Slots |-> @[s] + bytes[v][s]]]
    /\ merged' = [merged EXCEPT ![u] = @ \cup applied[v] \cup merged[v]]
    /\ raced' = IF v \in raced \/ \E d \in Deliverers : found[d] = u /\ load[d] # <<>>
                THEN raced \cup {u} ELSE raced
    /\ UNCHANGED <<tracker, pc, cupti, map, valid, tracked, gone, delivery, found,
                   load, attributes, reported, applied>>
-----------------------------------------------------------------------------
(* SerializeToBufferAttributes of a valid usage; otherwise it is an error.  *)
(* The attribute objects are made as needed and used again by later calls.  *)
Sums(u) == [i \in DOMAIN SlotOrder |->
                [slot |-> SlotOrder[i], bytes |-> bytes[u][SlotOrder[i]]]]
AddUsed(used, sum) == IF sum.bytes # 0 THEN Append(used, sum) ELSE used
Used(u) == FoldLeft(AddUsed, <<>>, Sums(u))

\* mutant: no conversion to size_t.
EntrySigned(u, i) == Used(u)[i]
\* mutant: attributes that exist already are not set again.
EntryIfNew(u, i) ==
    IF i <= Len(attributes[u]) THEN attributes[u][i]
    ELSE [Used(u)[i] EXCEPT !.bytes = @ % SizeModulus]
Entry(u, i) == [Used(u)[i] EXCEPT !.bytes = @ % SizeModulus]

SerializeToBufferAttributes(u) ==
    /\ u \notin gone /\ ~tracked[u] /\ valid[u]
    /\ LET n == Len(Used(u)) IN
       /\ reported' = [reported EXCEPT ![u] = n]
       /\ attributes' = [attributes EXCEPT ![u] =
              [i \in 1 .. n |-> Entry(u, i)] \o SubSeq(@, n + 1, Len(@))]
    /\ UNCHANGED <<tracker, pc, cupti, map, members, delivery, found, load,
                   applied, merged, raced>>

Next ==
    \/ InitTracker \/ FiniTracker
    \/ \E t \in Threads :
        \/ \E u \in Usages : TrackThreadMemoryUsage(t, u)
        \/ \E op \in Ops : BeginCall(t, op)
        \/ EndCall(t) \/ Untrack(t) \/ Flush(t) \/ Pop(t)
    \/ \E i \in DOMAIN buffers : BufferCompleted(Worker, i)
    \/ \E d \in Deliverers : TrackActivity(d)
    \/ \E u \in Usages : Destroy(u) \/ SerializeToBufferAttributes(u)
    \/ \E u, v \in Usages : Merge(u, v)

Spec == Init /\ [][Next]_vars
-----------------------------------------------------------------------------
RecordSet == [kind : {"correlation", "memory"}, call : 1 .. MaxCalls,
              usage : Usages \cup {None}]
AttributeSet == [slot : Slots, bytes : 0 .. SizeModulus - 1]

\* Every variable has its type; the map holds pointers to usages only.
TypeOK ==
    /\ tracker \in BOOLEAN
    /\ pc \in [Threads -> {"idle", "call", "flush"}]
    /\ stack \in [Threads -> Seq(Usages)]
    /\ buffers \in Seq(Seq(RecordSet))
    /\ DOMAIN map \subseteq 1 .. MaxCalls /\ \A c \in DOMAIN map : map[c] \in Usages
    /\ bytes \in [Usages -> [Slots -> Int]]
    /\ valid \in [Usages -> BOOLEAN] /\ tracked \in [Usages -> BOOLEAN]
    /\ gone \subseteq Usages
    /\ delivery \in [Deliverers -> Seq(RecordSet)]
    /\ found \in [Deliverers -> Usages \cup {None}]
    /\ load \in [Deliverers -> Seq(Int)]
    /\ attributes \in [Usages -> Seq(AttributeSet)]
    /\ reported \in [Usages -> Nat]
    /\ running \in [Threads -> 0 .. MaxCalls]
    /\ applied \in [Usages -> SUBSET (1 .. MaxCalls)]
    /\ merged \in [Usages -> SUBSET (1 .. MaxCalls)]
    /\ raced \subseteq Usages

\* A record counts for the usage that was on top of the calling thread's stack
\* when the call was made, whatever thread delivers it and whatever it tracks.
Attributed ==
    \A u \in Usages : \A c \in applied[u] : calls[c].under = u

Signed(op) == IF op.kind = "allocation" THEN op.bytes ELSE 0 - op.bytes
Total(u, s) ==
    LET SignedCall(c) == Signed(calls[c].op)
    IN  MapThenSumSet(SignedCall,
            {c \in applied[u] \cup merged[u] : SlotOf(calls[c].op) = s})

\* The sums of a usage are what its calls allocated less what they released, each
\* call counted once, unless two deliverers updated it at the same time.
Counted ==
    \A u \in Usages \ raced : \A s \in Slots : bytes[u][s] = Total(u, s)

\* The record of call c is still with CUPTI, or being handed over.
Pending(c) ==
    \/ \E i \in DOMAIN buffers : \E k \in DOMAIN buffers[i] :
           buffers[i][k].kind = "memory" /\ buffers[i][k].call = c
    \/ \E d \in Deliverers : \E k \in DOMAIN delivery[d] :
           delivery[d][k].kind = "memory" /\ delivery[d][k].call = c

\* The calls that usage u should count: those with both records in one buffer.
Due(u) ==
    {c \in DOMAIN calls : calls[c].under = u /\ calls[c].together /\ Counts(calls[c].op)}

\* No record of an allocation or a release in a tracked region is lost: it is
\* counted, or will be delivered, as long as the usage is there and valid.
NoneLost ==
    \A u \in Usages \ (gone \cup raced) :
        valid[u] => \A c \in Due(u) : c \in applied[u] \/ Pending(c)

\* What the map still has of a usage that is gone is owed to a record that is still to come, or
\* to a call that leaves its entry for good: one without a memory record, or one whose
\* records came in the wrong order, in two buffers.
DanglingForCause ==
    \A c \in DOMAIN map : map[c] \in gone =>
        calls[c].op.kind = "none" \/ Pending(c) \/ ~calls[c].together

\* What CUPTI records for a usage ends up in its sums, or is still awaited; and only what
\* is awaited, or what the code has no way of knowing, keeps a destroyed usage in the map.
RecordsAccounted == NoneLost /\ DanglingForCause

\* Untracking is enough to have everything counted when no other thread is in a
\* call or delivers records at that moment.
CountedWhenUntracked ==
    [][\A t \in Threads : \A u \in Usages :
          /\ Pop(t) /\ u = Top(stack[t]) /\ valid[u] /\ u \notin raced
          /\ \A x \in Threads : running[x] = 0
          /\ \A d \in Deliverers : delivery[d] = <<>>
          => Due(u) \subseteq applied[u]]_vars

\* The attributes handed out for u list every sum that is not 0 once, and
\* nothing else.
Report(u) ==
    \A s \in Slots :
        LET entries == {i \in 1 .. reported[u] : attributes[u][i].slot = s}
        IN  IF Total(u, s) = 0 THEN entries = {}
            ELSE /\ Cardinality(entries) = 1
                 /\ Total(u, s) \in 0 .. SizeModulus - 1 =>
                        \A i \in entries : attributes[u][i].bytes = Total(u, s)

\* What SerializeToBufferAttributes reports is what the calls counted in the
\* usage allocated, also when it reuses the attributes of an earlier report.
ReportedAsCounted ==
    [][\A u \in Usages \ raced :
          SerializeToBufferAttributes(u) => Report(u)']_vars
=============================================================================
