----------------------- MODULE AsyncPinnedCopyProofs -----------------------
(***************************************************************************)
(* Safety of the segmented staging, for every number of workers, groups    *)
(* and buffers.                                                            *)
(***************************************************************************)
EXTENDS AsyncPinnedCopy, FiniteSetTheorems, SequenceTheorems, TLAPS

(***************************************************************************)
(* The strengthening.  Segments are submitted in order and each submitted  *)
(* segment is non-empty, so at most IncompleteCount(g) of them exist; the  *)
(* count is the number of decrements still missing; and a segment has been *)
(* staged completely before it is counted.                                 *)
(***************************************************************************)
Flushed(g) == g < grp \/ (g = grp /\ pc = "submit")

FreshInv ==
    /\ pc \in {"begin", "submit"} => grp \in Groups
    /\ pc \notin {"begin", "submit"} => grp = Len(GroupSize) + 1
    /\ \A g \in Groups : \A k \in 1 .. GroupSize[g] :
          (~Flushed(g) \/ (g = grp /\ k >= seg)) => status[<<g, k>>] = "new"

SegmentInv ==
    \A g \in Groups : \A k \in 1 .. GroupSize[g] :
        status[<<g, k>>] # "new" => (k - 1) * Stride(g) < GroupSize[g]

CountInv ==
    \A g \in Groups : 
        Flushed(g) => count[g] = IncompleteCount(g) - Cardinality(Finished(g))

CloserInv ==
    \A g \in Groups :
        /\ Closers(g) # {} => Flushed(g) /\ count[g] = 0
        /\ \A j, k \in Closers(g) : j = k

PosInv ==
    \A g \in Groups : \A k \in 1 .. GroupSize[g] :
        /\ status[<<g, k>>] = "running" =>
              pos[<<g, k>>] >= SegmentFirst(<<g, k>>)
        /\ k \in Finished(g) => pos[<<g, k>>] > SegmentLast(<<g, k>>)

CoreInv == FreshInv /\ SegmentInv /\ CountInv /\ CloserInv /\ PosInv

IInv == TypeOK /\ CoreInv
-----------------------------------------------------------------------------
\* What the assumptions on the constants say about one group.
LEMMA GroupFacts ==
    ASSUME NEW g \in Groups
    PROVE  /\ GroupSize[g] \in Nat \ {0}
           /\ g \in Nat \ {0}
           /\ IncompleteCount(g) \in Nat \ {0}
           /\ Stride(g) \in Nat \ {0}
<1>1. GroupSize[g] \in Nat \ {0} /\ g \in Nat \ {0}
  BY GroupAssumption DEF Groups
<1>2. IncompleteCount(g) \in Nat \ {0}
  BY <1>1, WorkerAssumption DEF IncompleteCount
<1>3. Stride(g) \in Nat \ {0}
  BY <1>1, WorkerAssumption DEF Stride
<1> QED BY <1>1, <1>2, <1>3

\* A task is a group and a segment number no larger than the group.
LEMMA TaskFacts ==
    /\ \A t \in Tasks : \E g \in Groups : \E k \in 1 .. GroupSize[g] : t = <<g, k>>
    /\ \A g \in Groups : \A k \in 1 .. GroupSize[g] : <<g, k>> \in Tasks
    /\ Tasks \subseteq Threads
    /\ Main \in Threads
BY DEF Tasks, Threads

\* W strides cover the group.
LEMMA StrideCovers ==
    ASSUME NEW g \in Groups
    PROVE  GroupSize[g] <= WorkerCount * Stride(g)
<1> DEFINE n == GroupSize[g]  w == WorkerCount  a == n + w - 1
<1>1. n \in Nat \ {0} /\ w \in Nat \ {0}
  BY GroupFacts, WorkerAssumption
<1> HIDE DEF n, w
<1>2. a = w * (a \div w) + (a % w) /\ a % w \in 0 .. w - 1
  BY <1>1
<1>3. a \div w \in Nat /\ w * (a \div w) \in Nat
  BY <1>1
<1>4. n <= w * (a \div w)
  BY <1>1, <1>2, <1>3
<1> QED BY <1>4 DEF n, w, Stride

\* A non-empty segment has a number within the count: there are never more
\* tasks than incomplete_count expects.
LEMMA SegmentBound ==
    ASSUME NEW g \in Groups, NEW k \in Nat \ {0},
           (k - 1) * Stride(g) < GroupSize[g]
    PROVE  k \in 1 .. IncompleteCount(g) /\ k \in 1 .. GroupSize[g]
<1> DEFINE n == GroupSize[g]  w == WorkerCount  s == Stride(g)  j == k - 1
<1>1. n \in Nat \ {0} /\ w \in Nat \ {0} /\ s \in Nat \ {0} /\ j \in Nat
  BY GroupFacts, WorkerAssumption
<1>2. j * s < n /\ n <= w * s
  BY StrideCovers
<1> HIDE DEF n, w, s, j
<1>3. j < w
  <2> SUFFICES ASSUME j >= w PROVE FALSE
    BY <1>1
  <2>1. j * s >= w * s
    <3>1. (j - w) * s >= 0
      BY <1>1
    <3>2. (j - w) * s = j * s - w * s
      BY <1>1
    <3>3. j * s \in Nat /\ w * s \in Nat
      BY <1>1
    <3> QED BY <3>1, <3>2, <3>3
  <2>2. j * s \in Nat /\ w * s \in Nat
    BY <1>1
  <2> QED BY <1>1, <1>2, <2>1, <2>2
<1>4. j < n
  <2>1. j <= j * s
    BY <1>1
  <2>2. j * s \in Nat
    BY <1>1
  <2> QED BY <1>1, <1>2, <2>1, <2>2
<1> QED BY <1>3, <1>4, <1>1 DEF n, w, j, IncompleteCount

\* Every buffer lies in a non-empty segment.
LEMMA SegmentOfBuffer ==
    ASSUME NEW g \in Groups, NEW i \in 1 .. GroupSize[g]
    PROVE  \E k \in 1 .. IncompleteCount(g) :
              /\ (k - 1) * Stride(g) < GroupSize[g]
              /\ i \in SegmentFirst(<<g, k>>) .. SegmentLast(<<g, k>>)
<1> DEFINE n == GroupSize[g]  s == Stride(g)  j == (i - 1) \div s  k == j + 1
<1>1. n \in Nat \ {0} /\ s \in Nat \ {0}
  BY GroupFacts
<1> HIDE DEF n, s
<1>2. i \in Nat \ {0} /\ i <= n
  BY <1>1 DEF n
<1>3. /\ j \in Nat /\ i - 1 = s * j + ((i - 1) % s)
      /\ (i - 1) % s \in 0 .. s - 1
  BY <1>1, <1>2
<1> HIDE DEF j
<1>4. s * j = j * s /\ j * s \in Nat /\ (j + 1) * s = j * s + s
  BY <1>1, <1>3
<1>5. j * s < i /\ i <= (j + 1) * s
  BY <1>1, <1>2, <1>3, <1>4
<1>6. k - 1 = j /\ k \in Nat \ {0}
  BY <1>3
<1>7. (k - 1) * s < n
  <2>1. (k - 1) * s = j * s
    BY <1>6
  <2> QED BY <2>1, <1>1, <1>2, <1>4, <1>5
<1>8. k \in 1 .. IncompleteCount(g)
  BY <1>6, <1>7, SegmentBound DEF n, s
<1>9. i \in SegmentFirst(<<g, k>>) .. SegmentLast(<<g, k>>)
  <2>1. SegmentFirst(<<g, k>>) = j * s + 1
    BY <1>6 DEF SegmentFirst, s
  <2>2. SegmentLast(<<g, k>>) = IF (j + 1) * s < n THEN (j + 1) * s ELSE n
    BY DEF SegmentLast, s, n
  <2> QED BY <2>1, <2>2, <1>1, <1>2, <1>3, <1>4, <1>5
<1> QED BY <1>7, <1>8, <1>9 DEF n, s

\* The requests of a segment are requests.
LEMMA SegmentRequests ==
    /\ \A g \in Groups : \A i \in 1 .. GroupSize[g] :
          BufferRequests(g, i) \subseteq Requests
    /\ \A g \in Groups : RequestsOf(g, 1 .. GroupSize[g]) \subseteq Requests
    /\ \A g \in Groups : \A k \in 1 .. GroupSize[g] :
          /\ SegmentFirst(<<g, k>>) \in Nat \ {0}
          /\ SegmentLast(<<g, k>>) \in 0 .. GroupSize[g]
          /\ RequestsOf(g, SegmentFirst(<<g, k>>) .. SegmentLast(<<g, k>>))
                \subseteq Requests
<1>1. \A g \in Groups : \A i \in 1 .. GroupSize[g] :
          BufferRequests(g, i) \subseteq Requests
  BY SpanAssumption DEF BufferRequests
<1>2. \A g \in Groups : \A I \in SUBSET (1 .. GroupSize[g]) :
          RequestsOf(g, I) \subseteq Requests
  BY <1>1 DEF RequestsOf
<1>3. ASSUME NEW g \in Groups, NEW k \in 1 .. GroupSize[g]
      PROVE  /\ SegmentFirst(<<g, k>>) \in Nat \ {0}
             /\ SegmentLast(<<g, k>>) \in 0 .. GroupSize[g]
  <2> DEFINE s == Stride(g)
  <2>1. s \in Nat \ {0} /\ GroupSize[g] \in Nat \ {0}
    BY GroupFacts
  <2>2. k \in Nat \ {0}
    BY <2>1
  <2> HIDE DEF s
  <2>3. (k - 1) * s \in Nat /\ k * s \in Nat
    BY <2>1, <2>2
  <2> QED BY <2>1, <2>3 DEF s, SegmentFirst, SegmentLast
<1> QED BY <1>1, <1>2, <1>3, GroupFacts

\* The finished segments of a group are among the first IncompleteCount(g).
LEMMA FinishedBound ==
    ASSUME SegmentInv, NEW g \in Groups
    PROVE  /\ Finished(g) \subseteq 1 .. IncompleteCount(g)
           /\ IsFiniteSet(Finished(g))
           /\ Cardinality(Finished(g)) \in 0 .. IncompleteCount(g)
           /\ Cardinality(Finished(g)) = IncompleteCount(g)
                 => Finished(g) = 1 .. IncompleteCount(g)
<1> DEFINE M == IncompleteCount(g)
<1>1. M \in Nat
  BY GroupFacts
<1>2. Finished(g) \subseteq 1 .. M
  BY SegmentBound, GroupFacts DEF SegmentInv, Finished
<1>3. IsFiniteSet(1 .. M) /\ Cardinality(1 .. M) = M
  BY <1>1, FS_Interval
<1> QED BY <1>1, <1>2, <1>3, FS_Subset, FS_CardinalityType

\* While a segment is running, its own decrement is still missing.
LEMMA CountPositive ==
    ASSUME IInv, NEW g \in Groups, NEW k \in 1 .. GroupSize[g],
           status[<<g, k>>] = "running"
    PROVE  /\ Flushed(g) /\ k \notin Finished(g)
           /\ count[g] \in Nat \ {0}
<1>1. Flushed(g)
  BY DEF IInv, CoreInv, FreshInv
<1>2. k \notin Finished(g)
  BY DEF Finished
<1>3. k \in 1 .. IncompleteCount(g)
  BY SegmentBound, GroupFacts DEF IInv, CoreInv, SegmentInv
<1>4. Cardinality(Finished(g)) \in 0 .. IncompleteCount(g) - 1
  BY <1>2, <1>3, FinishedBound, GroupFacts DEF IInv, CoreInv
<1> QED BY <1>1, <1>2, <1>4, GroupFacts DEF IInv, CoreInv, CountInv

\* A step that finishes no segment leaves the sets derived from status alone.
LEMMA SameFinished ==
    ASSUME NEW g \in Groups,
           \A k \in 1 .. GroupSize[g] :
               \/ status'[<<g, k>>] = status[<<g, k>>]
               \/ /\ status[<<g, k>>] \notin {"last", "copied", "put", "done"}
                  /\ status'[<<g, k>>] \notin {"last", "copied", "put", "done"}
               \/ /\ status[<<g, k>>] \in {"last", "copied", "put"}
                  /\ status'[<<g, k>>] \in {"last", "copied", "put"}
    PROVE  Finished(g)' = Finished(g) /\ Closers(g)' = Closers(g)
BY DEF Finished, Closers
-----------------------------------------------------------------------------
\* The initial state satisfies the strengthening.
LEMMA InitInv == Init => IInv
<1> SUFFICES ASSUME Init PROVE IInv
  OBVIOUS
<1>0. Len(GroupSize) \in Nat \ {0} /\ 1 \in Groups
  BY GroupAssumption DEF Groups
<1>1. TypeOK
  <2>1. /\ pc = "begin" /\ grp \in 1 .. Len(GroupSize) + 1 /\ seg \in Nat \ {0}
        /\ gets \in Nat /\ rejects \in Nat
        /\ failed \subseteq Groups \X Nat
    BY <1>0 DEF Init
  <2>6. stream \in Seq(Groups \X Nat) /\ completion \in Seq(BOOLEAN)
    BY DEF Init
  <2>7. needSync \in BOOLEAN
    BY DEF Init
  <2>2. /\ count \in [Groups -> Nat] /\ pos \in [Tasks -> Nat]
        /\ pinned \in [Groups -> SUBSET Nat] /\ tensor \in [Groups -> SUBSET Nat]
        /\ todo \in [Threads -> SUBSET Requests] /\ sent \in [Requests -> Nat]
    BY DEF Init
  <2>3. /\ cudaUsed \in [Groups -> BOOLEAN] /\ checked \in [Threads -> BOOLEAN]
        /\ response \in [Requests -> BOOLEAN]
    BY DEF Init
  <2>4. eventSet \in BOOLEAN /\ bufferReady \in BOOLEAN
    BY TypeAssumption DEF Init
  <2>5. status \in [Tasks -> {"new"}]
    BY DEF Init
  <2> QED BY <2>1, <2>2, <2>3, <2>4, <2>5, <2>6, <2>7
         DEF TypeOK, MainType, TaskType, DataType, RespType, EventType
<1>2. \A g \in Groups : Finished(g) = {} /\ Closers(g) = {}
  BY TaskFacts DEF Init, Finished, Closers
<1>3. \A g \in Groups : ~Flushed(g)
  BY GroupFacts DEF Init, Flushed
<1>4. FreshInv /\ SegmentInv
  <2>1. \A g \in Groups : \A k \in 1 .. GroupSize[g] : status[<<g, k>>] = "new"
    BY TaskFacts DEF Init
  <2>2. grp = 1 /\ pc = "begin"
    BY DEF Init
  <2> QED BY <1>0, <2>1, <2>2 DEF FreshInv, SegmentInv
<1>5. PosInv
  BY <1>2, TaskFacts DEF Init, PosInv
<1> QED BY <1>1, <1>2, <1>3, <1>4, <1>5 DEF IInv, CoreInv, CountInv, CloserInv

\* Changing one value of a function keeps its range.
LEMMA ExceptType ==
    ASSUME NEW S, NEW V, NEW f \in [S -> V], NEW x, NEW v, x \in S => v \in V
    PROVE  [f EXCEPT ![x] = v] \in [S -> V]
OBVIOUS

\* Every step keeps the types; the count cannot go below zero because a
\* running segment is one of the IncompleteCount(g) still missing.
LEMMA TypeStep == IInv /\ [Next]_vars => TypeOK'
<1> SUFFICES ASSUME IInv, [Next]_vars PROVE TypeOK'
  OBVIOUS
<1> USE DEF mainVars, taskVars, dataVars, respVars, eventVars
<1>0. MainType /\ TaskType /\ DataType /\ RespType /\ EventType
  BY DEF IInv, CoreInv, TypeOK
<1>u. /\ UNCHANGED <<mainVars, rejects>> => MainType'
      /\ UNCHANGED taskVars => TaskType'
      /\ UNCHANGED dataVars => DataType'
      /\ UNCHANGED respVars => RespType'
      /\ UNCHANGED eventVars => EventType'
  BY <1>0 DEF MainType, TaskType, DataType, RespType, EventType
<1>1. ASSUME BeginFlush PROVE TypeOK'
  <2>1. MainType'
    BY <1>0, <1>1 DEF BeginFlush, MainType
  <2>2. TaskType'
    BY <1>0, <1>1, GroupFacts DEF BeginFlush, TaskType
  <2> QED BY <2>1, <2>2, <1>u, <1>1 DEF BeginFlush, TypeOK
<1>2. ASSUME AddTask PROVE TypeOK'
  <2>1. grp \in Groups /\ seg \in 1 .. GroupSize[grp]
    BY <1>0, <1>2, SegmentBound DEF AddTask, IInv, CoreInv, FreshInv, MainType
  <2>2. <<grp, seg>> \in Tasks /\ Main \in Threads
    BY <2>1, TaskFacts
  <2>3. RequestsOf(grp, SegmentFirst(<<grp, seg>>) .. SegmentLast(<<grp, seg>>))
           \subseteq Requests
    BY <2>1, SegmentRequests
  <2>4. MainType'
    BY <1>0, <1>2 DEF AddTask, MainType
  <2>5. TaskType'
    BY <1>0, <1>2, <2>2 DEF AddTask, TaskType
  <2>6. RespType'
    BY <1>0, <1>2, <2>2, <2>3 DEF AddTask, RespType
  <2> QED BY <2>4, <2>5, <2>6, <1>u, <1>2 DEF AddTask, TypeOK
<1>3. ASSUME EndFlush PROVE TypeOK'
  <2>1. grp \in Groups /\ Len(GroupSize) \in Nat
    BY <1>3, GroupAssumption DEF EndFlush, IInv, CoreInv, FreshInv
  <2>2. MainType'
    BY <1>0, <1>3, <2>1 DEF EndFlush, MainType, Groups
  <2> QED BY <2>2, <1>u, <1>3 DEF EndFlush, TypeOK
<1>4. ASSUME FinalizeWait PROVE TypeOK'
  <2>1. MainType' /\ EventType'
    BY <1>0, <1>4 DEF FinalizeWait, WaitBufferReady, MainType, EventType
  <2> QED BY <2>1, <1>u, <1>4 DEF FinalizeWait, TypeOK
<1>5. ASSUME GetCompletion PROVE TypeOK'
  <2>1. MainType'
    <3>1. needSync' \in BOOLEAN
      BY <1>5, Zenon DEF GetCompletion
    <3>2. gets' = gets + 1 /\ UNCHANGED <<pc, grp, seg, rejects>>
      BY <1>5, Zenon DEF GetCompletion
    <3> QED BY <1>0, <3>1, <3>2 DEF MainType
  <2>2. completion' \in Seq(BOOLEAN)
    <3>1. completion \in Seq(BOOLEAN) /\ completion # <<>>
      BY <1>0, <1>5 DEF GetCompletion, TaskType
    <3>2. Tail(completion) \in Seq(BOOLEAN)
      BY <3>1, HeadTailProperties, Zenon
    <3> QED BY <3>2, <1>5 DEF GetCompletion
  <2>3. TaskType'
    BY <1>0, <1>5, <2>2 DEF GetCompletion, TaskType
  <2> QED BY <2>1, <2>3, <1>u, <1>5 DEF GetCompletion, TypeOK
<1>6. ASSUME FinalizeReturn PROVE TypeOK'
  <2>1. MainType'
    BY <1>0, <1>6 DEF FinalizeReturn, MainType
  <2> QED BY <2>1, <1>u, <1>6 DEF FinalizeReturn, TypeOK
<1>7. ASSUME CallerSync PROVE TypeOK'
  <2>1. MainType'
    BY <1>0, <1>7 DEF CallerSync, MainType
  <2> QED BY <2>1, <1>u, <1>7 DEF CallerSync, TypeOK
<1>8. ASSUME NEW t \in Tasks, Worker(t) PROVE TypeOK'
  <2> PICK g \in Groups : \E k \in 1 .. GroupSize[g] : t = <<g, k>>
    BY TaskFacts
  <2> PICK k \in 1 .. GroupSize[g] : t = <<g, k>>
    OBVIOUS
  <2>0. /\ t[1] = g /\ t \in Threads
        /\ SegmentFirst(t) \in Nat \ {0} /\ SegmentLast(t) \in 0 .. GroupSize[g]
        /\ GroupSize[g] \in Nat /\ g \in Groups
    BY TaskFacts, SegmentRequests, GroupFacts
  <2>1. ASSUME StartTask(t) PROVE TypeOK'
    <3>1. TaskType'
      BY <1>0, <2>0, <2>1 DEF StartTask, TaskType
    <3> QED BY <3>1, <1>u, <2>1 DEF StartTask, TypeOK
  <2>2. ASSUME StageBuffer(t) PROVE TypeOK'
    <3>1. pos[t] \in 1 .. GroupSize[g]
      BY <1>0, <2>0, <2>2 DEF StageBuffer, TaskType, IInv, CoreInv, PosInv
    <3>2. TaskType'
      <4>1. /\ pos' = [pos EXCEPT ![t] = pos[t] + 1]
            /\ UNCHANGED <<count, status, cudaUsed, completion>>
        BY <2>2 DEF StageBuffer
      <4>2. pos' \in [Tasks -> Nat]
        BY <1>0, <3>1, <4>1, ExceptType DEF TaskType
      <4> QED BY <1>0, <4>1, <4>2 DEF TaskType
    <3>3. DataType'
      <4>1. Append(stream, <<g, pos[t]>>) \in Seq(Groups \X Nat)
        BY <1>0, <3>1, AppendProperties DEF DataType
      <4>2. UNCHANGED tensor
        BY <2>2 DEF StageBuffer
      <4>3. pinned' = [pinned EXCEPT ![g] = @ \cup {pos[t]}] \/ pinned' = pinned
        BY <2>0, <2>2 DEF StageBuffer
      <4>4. stream' = Append(stream, <<g, pos[t]>>) \/ stream' = stream
        BY <2>0, <2>2 DEF StageBuffer
      <4>5. failed' = failed \cup {<<g, pos[t]>>} \/ failed' = failed
        BY <2>0, <2>2 DEF StageBuffer
      <4>6. pinned' \in [Groups -> SUBSET Nat]
        BY <1>0, <3>1, <4>3 DEF DataType
      <4>7. failed' \subseteq Groups \X Nat
        <5>1. <<g, pos[t]>> \in Groups \X Nat
          BY <3>1
        <5> QED BY <1>0, <4>5, <5>1 DEF DataType
      <4> QED BY <1>0, <4>1, <4>2, <4>4, <4>6, <4>7 DEF DataType
    <3>4. BufferRequests(g, pos[t]) \subseteq Requests
      BY <3>1, SegmentRequests
    <3>5. RespType'
      BY <1>0, <2>0, <2>2, <3>4, ZenonT(40) DEF StageBuffer, RespType
    <3> QED BY <3>2, <3>3, <3>5, <1>u, <2>2 DEF StageBuffer, TypeOK
  <2>3. ASSUME FinishSegment(t) PROVE TypeOK'
    <3>1. count[g] - 1 \in Nat
      BY <2>0, <2>3, CountPositive DEF FinishSegment
    <3>2. TaskType'
      BY <1>0, <2>0, <2>3, <3>1 DEF FinishSegment, TaskType
    <3> QED BY <3>2, <1>u, <2>3 DEF FinishSegment, TypeOK
  <2>4. ASSUME FinalCopy(t) PROVE TypeOK'
    <3>1. TaskType'
      BY <1>0, <2>0, <2>4 DEF FinalCopy, TaskType
    <3>2. DataType'
      <4>1. Append(stream, <<g, 0>>) \in Seq(Groups \X Nat)
        BY <1>0, AppendProperties DEF DataType
      <4>2. UNCHANGED pinned
        BY <2>4 DEF FinalCopy
      <4>3. tensor' = [tensor EXCEPT ![g] = pinned[g]] \/ tensor' = tensor
        BY <2>0, <2>4 DEF FinalCopy
      <4>4. stream' = Append(stream, <<g, 0>>) \/ stream' = stream
        BY <2>0, <2>4 DEF FinalCopy
      <4>5. failed' = failed \cup {<<g, 0>>} \/ failed' = failed
        BY <2>0, <2>4 DEF FinalCopy
      <4>6. tensor' \in [Groups -> SUBSET Nat]
        BY <1>0, <4>3 DEF DataType
      <4>7. failed' \subseteq Groups \X Nat
        BY <1>0, <4>5 DEF DataType
      <4> QED BY <1>0, <4>1, <4>2, <4>4, <4>6, <4>7 DEF DataType
    <3>3. RespType'
      BY <1>0, <2>0, <2>4, SegmentRequests, ZenonT(40) DEF FinalCopy, RespType
    <3>4. EventType'
      BY <1>0, <2>4 DEF FinalCopy, WaitBufferReady, EventType
    <3> QED BY <3>1, <3>2, <3>3, <3>4, <1>u, <2>4 DEF FinalCopy, TypeOK
  <2>5. ASSUME PutCompletion(t) PROVE TypeOK'
    <3>1. cudaUsed[g] \in BOOLEAN /\ completion \in Seq(BOOLEAN)
      BY <1>0 DEF TaskType
    <3>2. PutFlag(completion, cudaUsed[g]) \in Seq(BOOLEAN)
      BY <3>1 DEF PutFlag
    <3>3. TaskType'
      BY <1>0, <2>0, <2>5, <3>2 DEF PutCompletion, TaskType
    <3> QED BY <3>3, <1>u, <2>5 DEF PutCompletion, TypeOK
  <2> QED BY <1>8, <2>1, <2>2, <2>3, <2>4, <2>5 DEF Worker
<1>9. ASSUME NEW th \in Threads, Answer(th) PROVE TypeOK'
  <2>1. ASSUME CheckResponse(th) PROVE TypeOK'
    <3>1. RespType'
      BY <1>0, <2>1 DEF CheckResponse, RespType
    <3> QED BY <3>1, <1>u, <2>1 DEF CheckResponse, TypeOK
  <2>2. ASSUME SendResponse(th) PROVE TypeOK'
    <3> DEFINE r == NextToAnswer(th)
    <3>2. /\ sent' = [sent EXCEPT ![r] = @ + 1]
          /\ response' = [response EXCEPT ![r] = FALSE]
          /\ todo' = [todo EXCEPT ![th] = @ \ {r}]
          /\ checked' = [checked EXCEPT ![th] = FALSE]
      BY <2>2, Zenon DEF SendResponse
    <3> HIDE DEF r
    <3>3. sent' \in [Requests -> Nat]
      <4>1. r \in Requests => sent[r] + 1 \in Nat
        BY <1>0 DEF RespType
      <4> QED BY <1>0, <3>2, <4>1, ExceptType DEF RespType
    <3>4. response' \in [Requests -> BOOLEAN] /\ checked' \in [Threads -> BOOLEAN]
      BY <1>0, <3>2 DEF RespType
    <3>5. todo' \in [Threads -> SUBSET Requests]
      BY <1>0, <3>2 DEF RespType
    <3>1. RespType'
      BY <3>3, <3>4, <3>5 DEF RespType
    <3> QED BY <3>1, <1>u, <2>2 DEF SendResponse, TypeOK
  <2> QED BY <1>9, <2>1, <2>2 DEF Answer
<1>10. ASSUME RunCopy PROVE TypeOK'
  <2> DEFINE op == Head(stream)
  <2>1. op \in Groups \X Nat /\ Tail(stream) \in Seq(Groups \X Nat)
    BY <1>0, <1>10, HeadTailProperties DEF RunCopy, DataType
  <2>2. op[1] \in Groups /\ op[2] \in Nat
    BY <2>1
  <2>3. /\ \/ pinned' = [pinned EXCEPT ![op[1]] = @ \cup {op[2]}]
           \/ pinned' = pinned
        /\ \/ tensor' = [tensor EXCEPT ![op[1]] = pinned[op[1]]]
           \/ tensor' = tensor
        /\ stream' = Tail(stream) /\ UNCHANGED failed
    BY <1>10 DEF RunCopy
  <2> HIDE DEF op
  <2>4. pinned' \in [Groups -> SUBSET Nat] /\ tensor' \in [Groups -> SUBSET Nat]
    BY <1>0, <2>2, <2>3 DEF DataType
  <2>5. DataType'
    BY <1>0, <2>1, <2>3, <2>4 DEF DataType
  <2> QED BY <2>5, <1>u, <1>10 DEF RunCopy, TypeOK
<1>11. ASSUME BufferReadyFires PROVE TypeOK'
  <2>1. EventType'
    BY <1>0, <1>11 DEF BufferReadyFires, EventType
  <2> QED BY <2>1, <1>u, <1>11 DEF BufferReadyFires, TypeOK
<1>12. ASSUME UNCHANGED vars PROVE TypeOK'
  BY <1>u, <1>12 DEF vars, TypeOK
<1> QED
  BY <1>1, <1>2, <1>3, <1>4, <1>5, <1>6, <1>7, <1>8, <1>9, <1>10, <1>11, <1>12
     DEF Next, MainThread, Consumed

\* Steps that leave the flushing loop, the count and the tasks alone.
LEMMA CoreFrame ==
    ASSUME CoreInv, UNCHANGED <<pc, grp, seg, count, status, pos>>
    PROVE  CoreInv'
<1>1. \A g \in Groups : Flushed(g)' <=> Flushed(g)
  BY DEF Flushed
<1>2. \A g \in Groups : Finished(g)' = Finished(g) /\ Closers(g)' = Closers(g)
  BY SameFinished
<1>3. FreshInv' /\ SegmentInv'
  BY <1>1 DEF CoreInv, FreshInv, SegmentInv
<1>4. CountInv' /\ CloserInv'
  BY <1>1, <1>2 DEF CoreInv, CountInv, CloserInv
<1>5. PosInv'
  BY <1>2 DEF CoreInv, PosInv
<1> QED BY <1>3, <1>4, <1>5 DEF CoreInv

\* Steps of the flushing thread.
LEMMA CoreMain ==
    ASSUME IInv, MainThread
    PROVE  CoreInv'
<1>0. /\ MainType /\ TaskType /\ FreshInv /\ SegmentInv /\ CountInv /\ CloserInv
      /\ PosInv
  BY DEF IInv, CoreInv, TypeOK
<1>1. ASSUME BeginFlush PROVE CoreInv'
  <2>1. /\ pc = "begin" /\ grp \in Groups /\ pc' = "submit" /\ seg' = 1
        /\ count' = [count EXCEPT ![grp] = IncompleteCount(grp)]
        /\ UNCHANGED <<grp, status, pos>>
    BY <1>1 DEF BeginFlush
  <2>2. \A g \in Groups : Finished(g)' = Finished(g) /\ Closers(g)' = Closers(g)
    BY <2>1, SameFinished
  <2>3. ~Flushed(grp) /\ \A g \in Groups : Flushed(g)' <=> (Flushed(g) \/ g = grp)
    BY <2>1, GroupFacts DEF Flushed
  <2>4. Finished(grp) = {} /\ Closers(grp) = {}
    BY <1>0, <2>1, <2>3 DEF FreshInv, Finished, Closers
  <2>5. FreshInv'
    BY <1>0, <2>1, <2>3 DEF FreshInv
  <2>6. SegmentInv' /\ PosInv'
    BY <1>0, <2>1, <2>2 DEF SegmentInv, PosInv
  <2>7. CountInv'
    <3> SUFFICES ASSUME NEW g \in Groups, Flushed(g)'
                 PROVE  count'[g] = IncompleteCount(g) - Cardinality(Finished(g))
      BY <2>2 DEF CountInv
    <3>1. CASE g = grp
      <4>1. Cardinality(Finished(g)) = 0
        BY <2>4, <3>1, FS_EmptySet
      <4> QED BY <1>0, <2>1, <3>1, <4>1, GroupFacts DEF TaskType
    <3>2. CASE g # grp
      BY <1>0, <2>1, <2>3, <3>2 DEF CountInv, TaskType
    <3> QED BY <3>1, <3>2
  <2>8. CloserInv'
    BY <1>0, <2>1, <2>2, <2>3, <2>4 DEF CloserInv, TaskType
  <2> QED BY <2>5, <2>6, <2>7, <2>8 DEF CoreInv
<1>2. ASSUME AddTask PROVE CoreInv'
  <2>1. /\ pc = "submit" /\ grp \in Groups /\ seg \in 1 .. GroupSize[grp]
        /\ (seg - 1) * Stride(grp) < GroupSize[grp]
    BY <1>0, <1>2, SegmentBound DEF AddTask, FreshInv, MainType
  <2>2. /\ \/ status' = [status EXCEPT ![<<grp, seg>>] = "queued"]
           \/ status' = [status EXCEPT ![<<grp, seg>>] = "refused"]
        /\ seg' = seg + 1 /\ UNCHANGED <<pc, grp, count, pos>>
    BY <1>2 DEF AddTask
  <2>3. status[<<grp, seg>>] = "new"
    BY <1>0, <2>1 DEF FreshInv, MainType
  <2>4. \A g \in Groups : \A k \in 1 .. GroupSize[g] :
           \/ /\ g = grp /\ k = seg
              /\ status'[<<g, k>>] \in {"queued", "refused"}
           \/ /\ ~(g = grp /\ k = seg)
              /\ status'[<<g, k>>] = status[<<g, k>>]
    BY <1>0, <2>1, <2>2, TaskFacts DEF TaskType
  <2>5. \A g \in Groups : Finished(g)' = Finished(g) /\ Closers(g)' = Closers(g)
    BY <2>3, <2>4, SameFinished
  <2>6. \A g \in Groups : Flushed(g)' <=> Flushed(g)
    BY <2>2 DEF Flushed
  <2>7. FreshInv'
    <3>1. ASSUME NEW g \in Groups, NEW k \in 1 .. GroupSize[g],
                 ~Flushed(g)' \/ (g = grp' /\ k >= seg')
          PROVE  status'[<<g, k>>] = "new"
      <4>1. ~Flushed(g) \/ (g = grp /\ k >= seg + 1)
        BY <2>2, <2>6, <3>1
      <4>2. ~(g = grp /\ k = seg)
        BY <2>1, <4>1 DEF Flushed
      <4>3. status[<<g, k>>] = "new"
        BY <1>0, <2>1, <4>1, GroupFacts DEF FreshInv
      <4> QED BY <2>4, <4>2, <4>3
    <3> QED BY <2>1, <2>2, <3>1 DEF FreshInv
  <2>8. SegmentInv'
    BY <1>0, <2>1, <2>4 DEF SegmentInv
  <2>9. CountInv' /\ CloserInv'
    BY <1>0, <2>2, <2>5, <2>6 DEF CountInv, CloserInv
  <2>10. PosInv'
    BY <1>0, <2>2, <2>4, <2>5 DEF PosInv
  <2> QED BY <2>7, <2>8, <2>9, <2>10 DEF CoreInv
<1>3. ASSUME EndFlush PROVE CoreInv'
  <2>1. /\ pc = "submit" /\ grp' = grp + 1
        /\ (seg - 1) * Stride(grp) >= GroupSize[grp]
        /\ pc' = (IF grp + 1 \in Groups THEN "begin" ELSE "finalize")
        /\ UNCHANGED <<seg, count, status, pos>>
    BY <1>3 DEF EndFlush, taskVars
  <2>2. grp \in Groups /\ Len(GroupSize) \in Nat
    BY <1>0, <2>1, GroupAssumption DEF FreshInv
  <2>3. \A g \in Groups : Flushed(g)' <=> Flushed(g)
    BY <2>1, <2>2, GroupFacts DEF Flushed
  <2>4. \A g \in Groups : Finished(g)' = Finished(g) /\ Closers(g)' = Closers(g)
    BY <2>1, SameFinished
  <2>5. FreshInv'
    <3>1. /\ pc' \in {"begin", "submit"} => grp' \in Groups
          /\ pc' \notin {"begin", "submit"} => grp' = Len(GroupSize) + 1
      BY <2>1, <2>2 DEF Groups
    <3>2. \A g \in Groups : ~Flushed(g) \/ g # grp'
      BY <2>1, <2>2, GroupFacts DEF Flushed
    <3> QED BY <1>0, <2>1, <2>3, <3>1, <3>2 DEF FreshInv
  <2>6. SegmentInv' /\ PosInv'
    BY <1>0, <2>1, <2>4 DEF SegmentInv, PosInv
  <2>7. CountInv' /\ CloserInv'
    BY <1>0, <2>1, <2>3, <2>4 DEF CountInv, CloserInv
  <2> QED BY <2>5, <2>6, <2>7 DEF CoreInv
<1>4. ASSUME FinalizeWait \/ FinalizeReturn \/ CallerSync PROVE CoreInv'
  <2>1. /\ pc \notin {"begin", "submit"} /\ pc' \notin {"begin", "submit"}
        /\ UNCHANGED <<grp, seg, count, status, pos>>
    BY <1>4 DEF FinalizeWait, FinalizeReturn, CallerSync, taskVars
  <2>2. \A g \in Groups : Flushed(g)' <=> Flushed(g)
    BY <2>1 DEF Flushed
  <2>3. \A g \in Groups : Finished(g)' = Finished(g) /\ Closers(g)' = Closers(g)
    BY <2>1, SameFinished
  <2> QED
    BY <1>0, <2>1, <2>2, <2>3
       DEF CoreInv, FreshInv, SegmentInv, CountInv, CloserInv, PosInv
<1>5. ASSUME GetCompletion PROVE CoreInv'
  <2>1. UNCHANGED <<pc, grp, seg, count, status, pos>>
    BY <1>5, Zenon DEF GetCompletion
  <2> QED BY <2>1, CoreFrame DEF IInv
<1> QED BY <1>1, <1>2, <1>3, <1>4, <1>5 DEF MainThread

\* A step of task t changes at most its own status, position and, when it
\* finishes its segment, the count of its group.
LEMMA CoreWorker ==
    ASSUME IInv, NEW t \in Tasks, Worker(t)
    PROVE  CoreInv'
<1>0. /\ MainType /\ TaskType /\ FreshInv /\ SegmentInv /\ CountInv /\ CloserInv
      /\ PosInv
  BY DEF IInv, CoreInv, TypeOK
<1> PICK g \in Groups : \E k \in 1 .. GroupSize[g] : t = <<g, k>>
  BY TaskFacts
<1> PICK k \in 1 .. GroupSize[g] : t = <<g, k>>
  OBVIOUS
<1> DEFINE Other(h, j) == h # g \/ j # k
<1>a. /\ UNCHANGED <<pc, grp, seg>>
      /\ status[t] \in {"queued", "running", "last", "copied"}
  BY DEF Worker, StartTask, StageBuffer, FinishSegment, FinalCopy,
         PutCompletion, mainVars
<1>b. \A h \in Groups : Flushed(h)' <=> Flushed(h)
  BY <1>a DEF Flushed
<1>c. ASSUME NEW v, status' = [status EXCEPT ![t] = v]
      PROVE  /\ status'[<<g, k>>] = v
             /\ \A h \in Groups : \A j \in 1 .. GroupSize[h] :
                   Other(h, j) => status'[<<h, j>>] = status[<<h, j>>]
  BY <1>0, <1>c, TaskFacts DEF TaskType
<1>d. ASSUME NEW v, status' = [status EXCEPT ![t] = v]
      PROVE  FreshInv' /\ SegmentInv'
  <2>1. FreshInv'
    BY <1>0, <1>a, <1>b, <1>c, <1>d DEF FreshInv
  <2>2. SegmentInv'
    BY <1>0, <1>a, <1>c, <1>d DEF SegmentInv
  <2> QED BY <2>1, <2>2
<1>1. ASSUME StartTask(t) PROVE CoreInv'
  <2>1. /\ status[t] = "queued" /\ status' = [status EXCEPT ![t] = "running"]
        /\ pos' = [pos EXCEPT ![t] = SegmentFirst(t)] /\ UNCHANGED count
    BY <1>1 DEF StartTask
  <2>2. \A h \in Groups : Finished(h)' = Finished(h) /\ Closers(h)' = Closers(h)
    BY <1>c, <2>1, SameFinished
  <2>3. CountInv' /\ CloserInv'
    BY <1>0, <1>b, <2>1, <2>2 DEF CountInv, CloserInv
  <2>4. k \notin Finished(g) /\ SegmentFirst(t) \in Nat
    BY <2>1, SegmentRequests DEF Finished
  <2>5. /\ pos'[<<g, k>>] = SegmentFirst(<<g, k>>)
        /\ \A h \in Groups : \A j \in 1 .. GroupSize[h] :
              Other(h, j) => pos'[<<h, j>>] = pos[<<h, j>>]
    BY <1>0, <2>1, TaskFacts DEF TaskType
  <2>6. PosInv'
    <3> SUFFICES ASSUME NEW h \in Groups, NEW j \in 1 .. GroupSize[h]
                 PROVE  /\ status'[<<h, j>>] = "running" =>
                              pos'[<<h, j>>] >= SegmentFirst(<<h, j>>)
                        /\ j \in Finished(h) =>
                              pos'[<<h, j>>] > SegmentLast(<<h, j>>)
      BY <2>2 DEF PosInv
    <3>1. CASE Other(h, j)
      BY <1>0, <1>c, <2>1, <2>5, <3>1 DEF PosInv
    <3>2. CASE ~Other(h, j)
      BY <2>4, <2>5, <3>2
    <3> QED BY <3>1, <3>2
  <2> QED BY <1>d, <2>1, <2>3, <2>6 DEF CoreInv
<1>2. ASSUME StageBuffer(t) PROVE CoreInv'
  <2>1. /\ status[t] = "running" /\ pos' = [pos EXCEPT ![t] = pos[t] + 1]
        /\ UNCHANGED <<status, count>>
    BY <1>2 DEF StageBuffer
  <2>2. \A h \in Groups : Finished(h)' = Finished(h) /\ Closers(h)' = Closers(h)
    BY <2>1, SameFinished
  <2>3. FreshInv' /\ SegmentInv'
    BY <1>0, <1>a, <1>b, <2>1 DEF FreshInv, SegmentInv
  <2>4. CountInv' /\ CloserInv'
    BY <1>0, <1>b, <2>1, <2>2 DEF CountInv, CloserInv
  <2>5. k \notin Finished(g) /\ SegmentFirst(t) \in Nat /\ pos[t] \in Nat
    BY <1>0, <2>1, SegmentRequests DEF Finished, TaskType
  <2>6. /\ pos'[<<g, k>>] = pos[<<g, k>>] + 1
        /\ \A h \in Groups : \A j \in 1 .. GroupSize[h] :
              Other(h, j) => pos'[<<h, j>>] = pos[<<h, j>>]
    BY <1>0, <2>1, TaskFacts DEF TaskType
  <2>7. PosInv'
    <3> SUFFICES ASSUME NEW h \in Groups, NEW j \in 1 .. GroupSize[h]
                 PROVE  /\ status[<<h, j>>] = "running" =>
                              pos'[<<h, j>>] >= SegmentFirst(<<h, j>>)
                        /\ j \in Finished(h) =>
                              pos'[<<h, j>>] > SegmentLast(<<h, j>>)
      BY <2>1, <2>2 DEF PosInv
    <3>1. CASE Other(h, j)
      BY <1>0, <2>6, <3>1 DEF PosInv
    <3>2. CASE ~Other(h, j)
      <4>1. pos[<<g, k>>] >= SegmentFirst(<<g, k>>)
        BY <1>0, <2>1 DEF PosInv
      <4> QED BY <2>5, <2>6, <3>2, <4>1
    <3> QED BY <3>1, <3>2
  <2> QED BY <2>3, <2>4, <2>7 DEF CoreInv
<1>3. ASSUME FinishSegment(t) PROVE CoreInv'
  <2> DEFINE v == IF LastDecrement(count[g]) THEN "last" ELSE "done"
  <2>1. /\ status[t] = "running" /\ status' = [status EXCEPT ![t] = v]
        /\ count' = [count EXCEPT ![g] = @ - 1] /\ UNCHANGED pos
        /\ pos[t] > SegmentLast(t)
    BY <1>3 DEF FinishSegment
  <2>2. v \in {"last", "done"} /\ (v = "last" <=> count[g] = 1)
    BY DEF LastDecrement
  <2> HIDE DEF v
  <2>3. /\ Flushed(g) /\ k \notin Finished(g) /\ count[g] \in Nat \ {0}
    BY <2>1, CountPositive
  <2>4. \A h \in Groups : h # g =>
           Finished(h)' = Finished(h) /\ Closers(h)' = Closers(h)
    BY <1>c, <2>1, SameFinished
  <2>5. /\ Finished(g)' = Finished(g) \cup {k}
        /\ Closers(g)' = IF v = "last" THEN Closers(g) \cup {k} ELSE Closers(g)
    BY <1>c, <2>1, <2>2 DEF Finished, Closers
  <2>6. Cardinality(Finished(g)') = Cardinality(Finished(g)) + 1
    BY <1>0, <2>3, <2>5, FinishedBound, FS_AddElement
  <2>7. CountInv'
    <3>1. ASSUME NEW h \in Groups, h # g, Flushed(h)
          PROVE  count'[h] = IncompleteCount(h) - Cardinality(Finished(h)')
      BY <1>0, <2>1, <2>4, <3>1 DEF CountInv, TaskType
    <3>2. count'[g] = IncompleteCount(g) - Cardinality(Finished(g)')
      <4>1. count'[g] = count[g] - 1
        BY <1>0, <2>1 DEF TaskType
      <4>2. count[g] = IncompleteCount(g) - Cardinality(Finished(g))
        BY <1>0, <2>3 DEF CountInv
      <4> QED BY <1>0, <2>6, <4>1, <4>2, FinishedBound, GroupFacts
    <3> QED BY <1>b, <3>1, <3>2 DEF CountInv
  <2>8. CloserInv'
    <3>1. Closers(g) = {}
      BY <1>0, <2>3 DEF CloserInv
    <3>2. v = "last" => count'[g] = 0
      BY <1>0, <2>1, <2>2 DEF TaskType
    <3>3. \A h \in Groups : h # g => count'[h] = count[h]
      BY <1>0, <2>1 DEF TaskType
    <3> QED BY <1>0, <1>b, <2>3, <2>4, <2>5, <3>1, <3>2, <3>3 DEF CloserInv
  <2>9. PosInv'
    <3> SUFFICES ASSUME NEW h \in Groups, NEW j \in 1 .. GroupSize[h]
                 PROVE  /\ status'[<<h, j>>] = "running" =>
                              pos[<<h, j>>] >= SegmentFirst(<<h, j>>)
                        /\ j \in Finished(h)' =>
                              pos[<<h, j>>] > SegmentLast(<<h, j>>)
      BY <2>1 DEF PosInv
    <3>1. CASE Other(h, j)
      <4>1. status'[<<h, j>>] = status[<<h, j>>]
        BY <1>c, <2>1, <3>1
      <4>2. j \in Finished(h)' => j \in Finished(h)
        BY <2>4, <2>5, <3>1
      <4> QED BY <1>0, <4>1, <4>2 DEF PosInv
    <3>2. CASE ~Other(h, j)
      <4>1. status'[<<h, j>>] # "running"
        BY <1>c, <2>1, <2>2, <3>2
      <4> QED BY <2>1, <3>2, <4>1
    <3> QED BY <3>1, <3>2
  <2> QED BY <1>d, <2>1, <2>7, <2>8, <2>9 DEF CoreInv
<1>4. ASSUME FinalCopy(t) \/ PutCompletion(t) PROVE CoreInv'
  <2>1. /\ \/ status[t] = "last" /\ status' = [status EXCEPT ![t] = "copied"]
           \/ status[t] = "copied" /\ status' = [status EXCEPT ![t] = "put"]
        /\ UNCHANGED <<count, pos>>
    BY <1>4 DEF FinalCopy, PutCompletion
  <2>2. \A h \in Groups : Finished(h)' = Finished(h) /\ Closers(h)' = Closers(h)
    BY <1>c, <2>1, SameFinished
  <2>3. CountInv' /\ CloserInv'
    BY <1>0, <1>b, <2>1, <2>2 DEF CountInv, CloserInv
  <2>4. status'[<<g, k>>] # "running"
    BY <1>c, <2>1
  <2>5. \A h \in Groups : \A j \in 1 .. GroupSize[h] :
           status'[<<h, j>>] = "running" => status[<<h, j>>] = "running"
    BY <1>c, <2>1, <2>4
  <2>6. PosInv'
    BY <1>0, <2>1, <2>2, <2>5 DEF PosInv
  <2> QED BY <1>d, <2>1, <2>3, <2>6 DEF CoreInv
<1> QED BY <1>1, <1>2, <1>3, <1>4 DEF Worker

\* The strengthening is inductive.
LEMMA NextInv == IInv /\ [Next]_vars => IInv'
<1> SUFFICES ASSUME IInv, [Next]_vars PROVE CoreInv'
  BY TypeStep DEF IInv
<1>1. CASE MainThread
  BY <1>1, CoreMain
<1>2. CASE \E t \in Tasks : Worker(t)
  BY <1>2, CoreWorker
<1>3. CASE \E th \in Threads : Answer(th)
  BY <1>3, CoreFrame
     DEF IInv, Answer, CheckResponse, SendResponse, mainVars, taskVars
<1>4. CASE RunCopy \/ BufferReadyFires \/ Consumed \/ UNCHANGED vars
  BY <1>4, CoreFrame
     DEF IInv, RunCopy, BufferReadyFires, Consumed, vars, mainVars, taskVars
<1> QED BY <1>1, <1>2, <1>3, <1>4 DEF Next

\* Once a group has a closer, its first IncompleteCount(g) segments, which
\* are all it has, are finished.
LEMMA ClosedGroup ==
    ASSUME IInv, NEW g \in Groups, Closers(g) # {}
    PROVE  Finished(g) = 1 .. IncompleteCount(g)
<1>1. count[g] = 0 /\ Flushed(g)
  BY DEF IInv, CoreInv, CloserInv
<1>2. Cardinality(Finished(g)) = IncompleteCount(g)
  BY <1>1, FinishedBound, GroupFacts DEF IInv, CoreInv, CountInv
<1> QED BY <1>2, FinishedBound DEF IInv, CoreInv

LEMMA StagingInv == IInv => FinalCopyAfterStaging /\ OneCloserPerGroup
<1> SUFFICES ASSUME IInv, NEW g \in Groups
             PROVE  /\ Closers(g) # {} =>
                          \A i \in 1 .. GroupSize[g] : \E k \in Finished(g) :
                              i \in SegmentFirst(<<g, k>>) .. pos[<<g, k>>] - 1
                    /\ \A j, k \in Closers(g) : j = k
                    /\ Closers(g) # {} => \A k \in 1 .. GroupSize[g] :
                          status[<<g, k>>] \notin {"queued", "running"}
  BY DEF FinalCopyAfterStaging, OneCloserPerGroup
<1>1. ASSUME Closers(g) # {}, NEW i \in 1 .. GroupSize[g]
      PROVE  \E k \in Finished(g) :
                 i \in SegmentFirst(<<g, k>>) .. pos[<<g, k>>] - 1
  <2>1. PICK k \in 1 .. IncompleteCount(g) :
              i \in SegmentFirst(<<g, k>>) .. SegmentLast(<<g, k>>)
    BY SegmentOfBuffer
  <2>2. k \in Finished(g) /\ k \in 1 .. GroupSize[g]
    BY <1>1, ClosedGroup DEF Finished
  <2>3. pos[<<g, k>>] > SegmentLast(<<g, k>>) /\ pos[<<g, k>>] \in Nat
    BY <2>2, TaskFacts DEF IInv, CoreInv, PosInv, TypeOK, TaskType
  <2> QED BY <2>1, <2>2, <2>3, SegmentRequests
<1>2. ASSUME Closers(g) # {}, NEW k \in 1 .. GroupSize[g],
             status[<<g, k>>] \in {"queued", "running"}
      PROVE  FALSE
  <2>1. k \in 1 .. IncompleteCount(g)
    BY <1>2, SegmentBound, GroupFacts DEF IInv, CoreInv, SegmentInv
  <2> QED BY <1>2, <2>1, ClosedGroup DEF Finished
<1> QED BY <1>1, <1>2 DEF IInv, CoreInv, CloserInv

-----------------------------------------------------------------------------
LEMMA AppendElements ==
    ASSUME NEW S, NEW s \in Seq(S), NEW e \in S
    PROVE  /\ Len(s) \in Nat /\ DOMAIN s = 1 .. Len(s)
           /\ DOMAIN Append(s, e) = 1 .. Len(s) + 1
           /\ \A j \in 1 .. Len(s) : Append(s, e)[j] = s[j]
           /\ Append(s, e)[Len(s) + 1] = e
OBVIOUS

LEMMA TailElements ==
    ASSUME NEW S, NEW s \in Seq(S), s # <<>>
    PROVE  /\ Len(s) \in Nat \ {0} /\ DOMAIN s = 1 .. Len(s)
           /\ DOMAIN Tail(s) = 1 .. Len(s) - 1
           /\ \A j \in 1 .. Len(s) - 1 : Tail(s)[j] = s[j + 1]
           /\ Head(s) = s[1]
OBVIOUS

(***************************************************************************)
(* A copy to a tensor is queued only after the wait for the event, so one  *)
(* that is in the stream finds the event fired.                            *)
(***************************************************************************)
ReadyInv ==
    /\ eventSet \/ bufferReady
    /\ \A j \in DOMAIN stream : stream[j][2] = 0 => bufferReady

LEMMA ReadyInit == Init => ReadyInv
<1> SUFFICES ASSUME Init PROVE ReadyInv
  OBVIOUS
<1>1. /\ eventSet = HasReadyEvent /\ bufferReady = ~HasReadyEvent
      /\ HasReadyEvent \in BOOLEAN
  BY TypeAssumption DEF Init
<1>2. DOMAIN stream = {}
  BY DEF Init
<1> QED BY <1>1, <1>2 DEF ReadyInv

LEMMA ReadyStep ==
    ASSUME IInv, ReadyInv, [Next]_vars
    PROVE  ReadyInv' /\ (tensor' # tensor => bufferReady)
<1> USE DEF mainVars, taskVars, dataVars, respVars, eventVars
<1>0. stream \in Seq(Groups \X Nat)
  BY DEF IInv, TypeOK, DataType
<1>1. ASSUME NEW t \in Tasks, StageBuffer(t)
      PROVE  ReadyInv' /\ tensor' = tensor
  <2>0. PICK g \in Groups : \E k \in 1 .. GroupSize[g] : t = <<g, k>>
    BY TaskFacts
  <2>1. PICK k \in 1 .. GroupSize[g] : t = <<g, k>>
    BY <2>0
  <2>2. /\ UNCHANGED <<tensor, eventSet, bufferReady>>
        /\ stream' = stream \/ stream' = Append(stream, <<g, pos[t]>>)
    BY <1>1, <2>1 DEF StageBuffer
  <2>3. pos[t] \in Nat \ {0}
    <3>1. pos[t] >= SegmentFirst(t) /\ pos[t] \in Nat
      BY <1>1, <2>1 DEF StageBuffer, IInv, CoreInv, PosInv, TypeOK, TaskType
    <3> QED BY <2>1, <3>1, SegmentRequests
  <2>4. CASE stream' = Append(stream, <<g, pos[t]>>)
    <3>1. <<g, pos[t]>> \in Groups \X Nat
      BY <2>3
    <3> QED BY <1>0, <2>2, <2>3, <2>4, <3>1, AppendElements DEF ReadyInv
  <2> QED BY <2>2, <2>4 DEF ReadyInv
<1>2. ASSUME NEW t \in Tasks, FinalCopy(t)
      PROVE  ReadyInv' /\ bufferReady
  <2>0. PICK g \in Groups : \E k \in 1 .. GroupSize[g] : t = <<g, k>>
    BY TaskFacts
  <2>1. PICK k \in 1 .. GroupSize[g] : t = <<g, k>>
    BY <2>0
  <2>2. /\ eventSet => bufferReady
        /\ bufferReady' = bufferReady
        /\ stream' = stream \/ stream' = Append(stream, <<g, 0>>)
    BY <1>2, <2>1 DEF FinalCopy, WaitBufferReady
  <2>3. <<g, 0>> \in Groups \X Nat
    OBVIOUS
  <2> QED BY <1>0, <2>2, <2>3, AppendElements DEF ReadyInv
<1>3. ASSUME RunCopy
      PROVE  ReadyInv' /\ (tensor' # tensor => bufferReady)
  <2>1. /\ stream # <<>> /\ stream' = Tail(stream)
        /\ UNCHANGED <<eventSet, bufferReady>>
        /\ tensor' # tensor => Head(stream)[2] = 0
    BY <1>3 DEF RunCopy
  <2>2. ReadyInv'
    BY <1>0, <2>1, TailElements DEF ReadyInv
  <2>3. tensor' # tensor => bufferReady
    BY <1>0, <2>1, TailElements DEF ReadyInv
  <2> QED BY <2>2, <2>3
<1>4. CASE \/ MainThread \/ \E th \in Threads : Answer(th)
           \/ \E t \in Tasks : StartTask(t) \/ FinishSegment(t) \/ PutCompletion(t)
           \/ BufferReadyFires \/ Consumed \/ UNCHANGED vars
  <2>1. /\ UNCHANGED <<stream, tensor>> /\ (bufferReady => bufferReady')
        /\ eventSet' \/ bufferReady'
    BY <1>4 DEF MainThread, BeginFlush, AddTask, EndFlush, FinalizeWait, GetCompletion,
                FinalizeReturn, CallerSync, Answer, CheckResponse, SendResponse, StartTask,
                FinishSegment, PutCompletion, BufferReadyFires, Consumed, vars,
                WaitBufferReady, ReadyInv, IInv, TypeOK, EventType
  <2> QED BY <2>1 DEF ReadyInv
<1> QED BY <1>1, <1>2, <1>3, <1>4 DEF Next, Worker

(***************************************************************************)
(* The ledger of Finalize(): one flag for each group with a task that has  *)
(* put it, taken or still in the queue; no flag is lost on the way to      *)
(* need_sync_; and a copy to a tensor is in the stream only if the flag of *)
(* its group says so.                                                      *)
(***************************************************************************)
Putters == {g \in Groups : \E k \in 1 .. GroupSize[g] : status[<<g, k>>] = "put"}

FlagInv ==
    /\ gets + Len(completion) = Cardinality(Putters)
    /\ \A g \in Putters :
          cudaUsed[g] => needSync \/ \E j \in DOMAIN completion : completion[j]
    /\ pc \in {"returned", "consumed"} => gets = Len(GroupSize)

UsedInv ==
    /\ \A g \in Groups : cudaUsed[g] =>
          \E k \in 1 .. GroupSize[g] : status[<<g, k>>] \in {"copied", "put"}
    /\ \A j \in DOMAIN stream : stream[j][2] = 0 => cudaUsed[stream[j][1]]

LedgerInv == FlagInv /\ UsedInv

LEMMA LedgerInit == Init => LedgerInv
<1> SUFFICES ASSUME Init PROVE LedgerInv
  OBVIOUS
<1>1. Putters = {}
  BY TaskFacts DEF Init, Putters
<1>2. /\ gets = 0 /\ Len(completion) = 0 /\ DOMAIN stream = {} /\ pc = "begin"
      /\ \A g \in Groups : ~cudaUsed[g]
  BY DEF Init
<1> QED BY <1>1, <1>2, FS_EmptySet DEF LedgerInv, FlagInv, UsedInv

LEMMA PuttersFinite ==
    /\ IsFiniteSet(Putters) /\ Cardinality(Putters) \in Nat
    /\ Cardinality(Putters) <= Len(GroupSize)
    /\ Cardinality(Putters) = Len(GroupSize) => Putters = Groups
<1>1. Len(GroupSize) \in Nat /\ Putters \subseteq Groups
  BY GroupAssumption DEF Putters
<1>2. IsFiniteSet(Groups) /\ Cardinality(Groups) = Len(GroupSize)
  BY <1>1, FS_Interval DEF Groups
<1> QED BY <1>1, <1>2, FS_Subset, FS_CardinalityType

\* What a step does that neither makes a copy to a tensor nor handles a flag.
LEMMA LedgerFrame ==
    ASSUME LedgerInv,
           \A g \in Groups : \A k \in 1 .. GroupSize[g] :
               \/ status'[<<g, k>>] = status[<<g, k>>]
               \/ /\ status[<<g, k>>] \notin {"copied", "put"}
                  /\ status'[<<g, k>>] \notin {"copied", "put"},
           UNCHANGED <<gets, completion, cudaUsed, needSync>>,
           pc' \in {"returned", "consumed"} => pc \in {"returned", "consumed"},
           \A j \in DOMAIN stream' : stream'[j][2] = 0 => cudaUsed[stream'[j][1]]
    PROVE  LedgerInv'
<1>1. Putters' = Putters
  BY DEF Putters
<1>2. FlagInv'
  BY <1>1 DEF LedgerInv, FlagInv
<1>3. UsedInv'
  BY DEF LedgerInv, UsedInv
<1> QED BY <1>2, <1>3 DEF LedgerInv

\* The task that copied or put the flag of its group is the group's only closer.
LEMMA OnlyCloser ==
    ASSUME IInv, NEW g \in Groups, NEW k \in 1 .. GroupSize[g],
           status[<<g, k>>] \in {"last", "copied"}
    PROVE  /\ g \notin Putters
           /\ \A j \in 1 .. GroupSize[g] : j # k =>
                 status[<<g, j>>] \notin {"last", "copied", "put"}
<1>1. \A j \in Closers(g) : j = k
  BY DEF IInv, CoreInv, CloserInv, Closers
<1> QED BY <1>1 DEF Closers, Putters

LEMMA LedgerStep ==
    ASSUME IInv, LedgerInv, [Next]_vars
    PROVE  LedgerInv'
<1> USE DEF mainVars, taskVars, dataVars, respVars, eventVars
<1>0. /\ stream \in Seq(Groups \X Nat) /\ completion \in Seq(BOOLEAN)
      /\ cudaUsed \in [Groups -> BOOLEAN] /\ needSync \in BOOLEAN /\ gets \in Nat
      /\ UsedInv /\ FlagInv
  BY DEF IInv, TypeOK, DataType, TaskType, MainType, LedgerInv
<1>s. ASSUME NEW t \in Tasks, NEW v, status' = [status EXCEPT ![t] = v],
             v \notin {"copied", "put"}, status[t] \notin {"copied", "put"}
      PROVE  \A g \in Groups : \A k \in 1 .. GroupSize[g] :
               \/ status'[<<g, k>>] = status[<<g, k>>]
               \/ /\ status[<<g, k>>] \notin {"copied", "put"}
                  /\ status'[<<g, k>>] \notin {"copied", "put"}
  BY <1>s, TaskFacts DEF IInv, TypeOK, TaskType
<1>1. ASSUME NEW t \in Tasks, StageBuffer(t)
      PROVE  LedgerInv'
  <2>0. PICK g \in Groups : \E k \in 1 .. GroupSize[g] : t = <<g, k>>
    BY TaskFacts
  <2>1. PICK k \in 1 .. GroupSize[g] : t = <<g, k>>
    BY <2>0
  <2>2. /\ UNCHANGED <<gets, completion, cudaUsed, needSync, pc, status>>
        /\ stream' = stream \/ stream' = Append(stream, <<g, pos[t]>>)
    BY <1>1, <2>1 DEF StageBuffer
  <2>3. pos[t] \in Nat \ {0}
    <3>1. pos[t] >= SegmentFirst(t) /\ pos[t] \in Nat
      BY <1>1, <2>1 DEF StageBuffer, IInv, CoreInv, PosInv, TypeOK, TaskType
    <3> QED BY <2>1, <3>1, SegmentRequests
  <2>4. \A j \in DOMAIN stream' : stream'[j][2] = 0 => cudaUsed[stream'[j][1]]
    <3>1. <<g, pos[t]>> \in Groups \X Nat
      BY <2>3
    <3>2. CASE stream' = stream
      BY <1>0, <2>2, <3>2 DEF UsedInv
    <3>3. CASE stream' = Append(stream, <<g, pos[t]>>)
      <4>1. /\ DOMAIN stream' = 1 .. Len(stream) + 1 /\ DOMAIN stream = 1 .. Len(stream)
            /\ \A j \in DOMAIN stream : stream'[j] = stream[j]
            /\ stream'[Len(stream) + 1] = <<g, pos[t]>> /\ Len(stream) \in Nat
        BY <1>0, <3>1, <3>3, AppendElements
      <4>2. \A j \in DOMAIN stream : stream[j][2] = 0 => cudaUsed[stream[j][1]]
        BY <1>0 DEF UsedInv
      <4>3. ASSUME NEW j \in DOMAIN stream', stream'[j][2] = 0
            PROVE  cudaUsed[stream'[j][1]]
        <5>1. j \in DOMAIN stream
          <6> SUFFICES ASSUME j = Len(stream) + 1 PROVE FALSE
            BY <4>1
          <6> QED BY <2>3, <4>1, <4>3
        <5> QED BY <4>1, <4>2, <4>3, <5>1
      <4> QED BY <4>3
    <3> QED BY <2>2, <3>2, <3>3
  <2> QED BY <2>2, <2>4, LedgerFrame
<1>2. ASSUME NEW t \in Tasks, StartTask(t) \/ FinishSegment(t)
      PROVE  LedgerInv'
  <2>1. /\ UNCHANGED <<gets, completion, cudaUsed, needSync, pc, stream>>
        /\ status[t] \in {"queued", "running"}
        /\ \E v \in {"running", "last", "done"} : status' = [status EXCEPT ![t] = v]
    BY <1>2 DEF StartTask, FinishSegment, LastDecrement
  <2> QED BY <1>0, <1>s, <2>1, LedgerFrame DEF UsedInv
<1>3. ASSUME AddTask PROVE LedgerInv'
  <2>1. /\ UNCHANGED <<gets, completion, cudaUsed, needSync, pc, stream>>
        /\ pc = "submit" /\ (seg - 1) * Stride(grp) < GroupSize[grp]
        /\ \E v \in {"queued", "refused"} : status' = [status EXCEPT ![<<grp, seg>>] = v]
    BY <1>3 DEF AddTask
  <2>2. grp \in Groups /\ seg \in 1 .. GroupSize[grp]
    BY <2>1, SegmentBound DEF IInv, CoreInv, FreshInv, TypeOK, MainType
  <2>3. <<grp, seg>> \in Tasks /\ status[<<grp, seg>>] = "new"
    BY <2>1, <2>2, TaskFacts DEF IInv, CoreInv, FreshInv
  <2> QED BY <1>0, <1>s, <2>1, <2>3, LedgerFrame DEF UsedInv
<1>4. CASE \/ BeginFlush \/ EndFlush \/ FinalizeWait \/ CallerSync
           \/ \E th \in Threads : Answer(th)
           \/ BufferReadyFires \/ Consumed \/ UNCHANGED vars
  <2>1. /\ UNCHANGED <<gets, completion, cudaUsed, needSync, status, stream>>
        /\ pc' \in {"returned", "consumed"} => pc \in {"returned", "consumed"}
    BY <1>4 DEF BeginFlush, EndFlush, FinalizeWait, CallerSync, Answer, CheckResponse,
                SendResponse, BufferReadyFires, Consumed, vars
  <2> QED BY <1>0, <2>1, LedgerFrame DEF UsedInv
<1>5. CASE RunCopy
  <2>1. /\ UNCHANGED <<gets, completion, cudaUsed, needSync, status, pc>>
        /\ stream # <<>> /\ stream' = Tail(stream)
    BY <1>5 DEF RunCopy
  <2>2. \A j \in DOMAIN stream' : stream'[j][2] = 0 => cudaUsed[stream'[j][1]]
    BY <1>0, <2>1, TailElements DEF UsedInv
  <2> QED BY <2>1, <2>2, LedgerFrame
<1>6. CASE FinalizeReturn
  <2>1. /\ UNCHANGED <<gets, completion, cudaUsed, needSync, status, stream>>
        /\ gets = Len(GroupSize)
    BY <1>6 DEF FinalizeReturn
  <2>2. Putters' = Putters
    BY <2>1 DEF Putters
  <2> QED BY <1>0, <2>1, <2>2 DEF LedgerInv, FlagInv, UsedInv
<1>7. CASE GetCompletion
  <2>1. /\ pc = "collect" /\ completion # <<>>
        /\ needSync' = (needSync \/ Head(completion))
        /\ completion' = Tail(completion) /\ gets' = gets + 1
        /\ UNCHANGED <<pc, status, cudaUsed, stream>>
    BY <1>7 DEF GetCompletion
  <2>2. Putters' = Putters
    BY <2>1 DEF Putters
  <2>3. /\ Len(completion) \in Nat \ {0} /\ Len(completion') = Len(completion) - 1
        /\ DOMAIN completion = 1 .. Len(completion)
        /\ DOMAIN completion' = 1 .. Len(completion) - 1
        /\ \A j \in 1 .. Len(completion) - 1 : completion'[j] = completion[j + 1]
        /\ Head(completion) = completion[1]
    <3>1. completion \in Seq(BOOLEAN) /\ completion # <<>>
      BY <1>0, <2>1
    <3>2. completion' = Tail(completion)
      BY <2>1
    <3> QED BY <3>1, <3>2, TailElements
  <2>4. \A j \in DOMAIN completion : completion[j] =>
           needSync' \/ \E i \in DOMAIN completion' : completion'[i]
    <3> SUFFICES ASSUME NEW j \in DOMAIN completion, completion[j], j # 1
                 PROVE  \E i \in DOMAIN completion' : completion'[i]
      BY <2>1, <2>3
    <3>1. j - 1 \in 1 .. Len(completion) - 1 /\ (j - 1) + 1 = j
      BY <2>3
    <3>2. j - 1 \in DOMAIN completion' /\ completion'[j - 1] = completion[j]
      BY <2>3, <3>1
    <3> QED BY <3>2
  <2>5. FlagInv'
    <3>1. gets' + Len(completion') = Cardinality(Putters')
      <4>1. gets + Len(completion) = Cardinality(Putters)
        BY <1>0 DEF FlagInv
      <4>2. gets' + Len(completion') = gets + Len(completion)
        <5>1. gets' = gets + 1 /\ gets \in Nat
          BY <1>0, <2>1
        <5> QED BY <2>3, <5>1
      <4> QED BY <2>2, <4>1, <4>2
    <3>2. ASSUME NEW g \in Putters, cudaUsed[g]
          PROVE  needSync' \/ \E j \in DOMAIN completion' : completion'[j]
      <4>1. needSync \/ \E j \in DOMAIN completion : completion[j]
        BY <1>0, <3>2 DEF FlagInv
      <4> QED BY <2>1, <2>4, <4>1
    <3> QED BY <2>1, <2>2, <3>1, <3>2 DEF FlagInv
  <2>6. UsedInv'
    BY <1>0, <2>1 DEF UsedInv
  <2> QED BY <2>5, <2>6 DEF LedgerInv
<1>8. ASSUME NEW t \in Tasks, PutCompletion(t)
      PROVE  LedgerInv'
  <2>0. PICK g \in Groups : \E k \in 1 .. GroupSize[g] : t = <<g, k>>
    BY TaskFacts
  <2>1. PICK k \in 1 .. GroupSize[g] : t = <<g, k>>
    BY <2>0
  <2>2. /\ status[<<g, k>>] = "copied"
        /\ completion' = Append(completion, cudaUsed[g])
        /\ status' = [status EXCEPT ![<<g, k>>] = "put"]
        /\ UNCHANGED <<gets, needSync, pc, cudaUsed, stream>>
    BY <1>8, <2>1 DEF PutCompletion, PutFlag
  <2>3. /\ status'[<<g, k>>] = "put"
        /\ \A h \in Groups : \A j \in 1 .. GroupSize[h] :
              h # g \/ j # k => status'[<<h, j>>] = status[<<h, j>>]
    BY <2>2, TaskFacts DEF IInv, TypeOK, TaskType
  <2>4. Putters' = Putters \cup {g} /\ g \notin Putters
    <3>1. g \notin Putters
      BY <2>2, OnlyCloser
    <3>2. \A h \in Groups : h # g => (h \in Putters' <=> h \in Putters)
      BY <2>3 DEF Putters
    <3>3. g \in Putters'
      BY <2>3 DEF Putters
    <3>4. Putters \subseteq Groups /\ Putters' \subseteq Groups
      BY DEF Putters
    <3> QED BY <3>1, <3>2, <3>3, <3>4
  <2>5. Cardinality(Putters') = Cardinality(Putters) + 1
    BY <2>4, PuttersFinite, FS_AddElement
  <2>6. cudaUsed[g] \in BOOLEAN
    BY <1>0
  <2>7. /\ Len(completion) \in Nat /\ Len(completion') = Len(completion) + 1
        /\ completion'[Len(completion) + 1] = cudaUsed[g]
        /\ \A j \in DOMAIN completion :
              j \in DOMAIN completion' /\ completion'[j] = completion[j]
        /\ Len(completion) + 1 \in DOMAIN completion'
    BY <1>0, <2>2, <2>6, AppendElements
  <2>8. FlagInv'
    <3>1. ASSUME NEW h \in Putters', cudaUsed[h]
          PROVE  needSync \/ \E j \in DOMAIN completion' : completion'[j]
      <4>1. CASE h = g
        BY <2>7, <3>1, <4>1
      <4>2. CASE h \in Putters
        <5>1. needSync \/ \E j \in DOMAIN completion : completion[j]
          BY <1>0, <3>1, <4>2 DEF FlagInv
        <5> QED BY <2>7, <5>1
      <4> QED BY <2>4, <4>1, <4>2
    <3>2. gets + Len(completion') = Cardinality(Putters')
      BY <1>0, <2>5, <2>7 DEF FlagInv
    <3> QED BY <1>0, <2>2, <3>1, <3>2 DEF FlagInv
  <2>9. UsedInv'
    BY <1>0, <2>2, <2>3 DEF UsedInv
  <2> QED BY <2>8, <2>9 DEF LedgerInv
<1>9. ASSUME NEW t \in Tasks, FinalCopy(t)
      PROVE  LedgerInv'
  <2>0. PICK g \in Groups : \E k \in 1 .. GroupSize[g] : t = <<g, k>>
    BY TaskFacts
  <2>1. PICK k \in 1 .. GroupSize[g] : t = <<g, k>>
    BY <2>0
  <2>2. /\ status[<<g, k>>] = "last"
        /\ status' = [status EXCEPT ![<<g, k>>] = "copied"]
        /\ UNCHANGED <<gets, needSync, pc, completion>>
        /\ \/ UNCHANGED <<stream, cudaUsed>>
           \/ /\ stream' = Append(stream, <<g, 0>>)
              /\ cudaUsed' = [cudaUsed EXCEPT ![g] = TRUE]
    BY <1>9, <2>1 DEF FinalCopy
  <2>3. /\ status'[<<g, k>>] = "copied"
        /\ \A h \in Groups : \A j \in 1 .. GroupSize[h] :
              h # g \/ j # k => status'[<<h, j>>] = status[<<h, j>>]
    BY <2>2, TaskFacts DEF IInv, TypeOK, TaskType
  <2>4. Putters' = Putters /\ g \notin Putters
    <3>1. g \notin Putters
      BY <2>2, OnlyCloser
    <3>2. \A h \in Groups : \A j \in 1 .. GroupSize[h] :
             status'[<<h, j>>] = "put" <=> status[<<h, j>>] = "put"
      BY <2>2, <2>3
    <3>3. Putters' = Putters
      BY <3>2 DEF Putters
    <3> QED BY <3>1, <3>3
  <2>5. \A h \in Groups : (h # g => cudaUsed'[h] = cudaUsed[h]) /\ (cudaUsed[h] => cudaUsed'[h])
    BY <1>0, <2>2
  <2>6. FlagInv'
    <3>1. \A h \in Putters : cudaUsed'[h] = cudaUsed[h]
      BY <2>4, <2>5 DEF Putters
    <3> QED BY <1>0, <2>2, <2>4, <3>1 DEF FlagInv
  <2>7. UsedInv'
    <3>1. \A h \in Groups : cudaUsed'[h] =>
             \E j \in 1 .. GroupSize[h] : status'[<<h, j>>] \in {"copied", "put"}
      BY <1>0, <2>2, <2>3, <2>5, ZenonT(40) DEF UsedInv
    <3>2. ASSUME NEW j \in DOMAIN stream', stream'[j][2] = 0
          PROVE  cudaUsed'[stream'[j][1]]
      <4>1. CASE stream' = stream
        <5>1. stream[j][1] \in Groups
          BY <1>0, <3>2, <4>1
        <5> QED BY <1>0, <2>5, <3>2, <4>1, <5>1 DEF UsedInv
      <4>2. CASE stream' = Append(stream, <<g, 0>>) /\ cudaUsed' = [cudaUsed EXCEPT ![g] = TRUE]
        <5>0. <<g, 0>> \in Groups \X Nat
          OBVIOUS
        <5>1. CASE j \in DOMAIN stream
          <6>1. stream'[j] = stream[j] /\ stream[j][1] \in Groups
            BY <1>0, <4>2, <5>0, <5>1, AppendElements
          <6> QED BY <1>0, <2>5, <3>2, <5>1, <6>1 DEF UsedInv
        <5>2. CASE j \notin DOMAIN stream
          <6>1. stream'[j] = <<g, 0>>
            BY <1>0, <3>2, <4>2, <5>0, <5>2, AppendElements
          <6> QED BY <1>0, <4>2, <6>1
        <5> QED BY <5>1, <5>2
      <4> QED BY <2>2, <4>1, <4>2
    <3> QED BY <3>1, <3>2 DEF UsedInv
  <2> QED BY <2>6, <2>7 DEF LedgerInv
<1> QED BY <1>1, <1>2, <1>3, <1>4, <1>5, <1>6, <1>7, <1>8, <1>9 DEF Next, MainThread, Worker

\* When Finalize() has taken all its flags, every group has put its own.
LEMMA AllPut ==
    ASSUME IInv, LedgerInv, pc \in {"returned", "consumed"}
    PROVE  /\ Putters = Groups
           /\ ~needSync => \A j \in DOMAIN stream : stream[j][2] # 0
<1>1. /\ gets = Len(GroupSize) /\ gets + Len(completion) = Cardinality(Putters)
      /\ Len(completion) \in Nat /\ Len(GroupSize) \in Nat
      /\ completion \in Seq(BOOLEAN)
  BY GroupAssumption DEF LedgerInv, FlagInv, IInv, TypeOK, TaskType
<1>2. Putters = Groups /\ Len(completion) = 0
  BY <1>1, PuttersFinite
<1>3. DOMAIN completion = {}
  BY <1>1, <1>2
<1>4. \A g \in Groups : cudaUsed[g] => needSync
  BY <1>2, <1>3 DEF LedgerInv, FlagInv
<1>5. \A j \in DOMAIN stream : stream[j][1] \in Groups
  BY DEF IInv, TypeOK, DataType
<1> QED BY <1>2, <1>4, <1>5 DEF LedgerInv, UsedInv
-----------------------------------------------------------------------------
(***************************************************************************)
(* Buffers staged in pinned memory by the CPU.  What a task has passed is  *)
(* there, failed, or queued before the copy to the tensor; and after that  *)
(* copy was made it is queued, failed, or the tensor is complete.          *)
(***************************************************************************)
Staged(g, i) ==
    \/ i \in pinned[g] \/ <<g, i>> \in failed
    \/ \E j \in DOMAIN stream :
          /\ stream[j] = <<g, i>>
          /\ \A m \in DOMAIN stream : stream[m] = <<g, 0>> => j < m

Passed(g) == {i \in 1 .. GroupSize[g] : \E k \in 1 .. GroupSize[g] :
                 i \in SegmentFirst(<<g, k>>) .. pos[<<g, k>>] - 1}

Complete(g) == \A i \in 1 .. GroupSize[g] : <<g, i>> \in failed \/ i \in tensor[g]

Copied(g) == \E k \in 1 .. GroupSize[g] : status[<<g, k>>] \in {"copied", "put"}

Queued(g) == \E m \in DOMAIN stream : stream[m] = <<g, 0>>

HostInv ==
    \A g \in Groups : SourceType[g] = "CPU" =>
        /\ \A i \in Passed(g) : Staged(g, i)
        /\ Copied(g) => <<g, 0>> \in failed \/ Queued(g) \/ Complete(g)

ConsumedInv == pc = "consumed" => \A j \in DOMAIN stream : stream[j][2] # 0

LEMMA HostInit == Init => HostInv /\ ConsumedInv
<1> SUFFICES ASSUME Init PROVE HostInv /\ ConsumedInv
  OBVIOUS
<1>1. \A g \in Groups : \A k \in 1 .. GroupSize[g] :
         pos[<<g, k>>] = 0 /\ status[<<g, k>>] = "new"
  BY TaskFacts DEF Init
<1>2. \A g \in Groups : Passed(g) = {}
  <2> SUFFICES ASSUME NEW g \in Groups, NEW i \in 1 .. GroupSize[g], NEW k \in 1 .. GroupSize[g],
                      i \in SegmentFirst(<<g, k>>) .. pos[<<g, k>>] - 1
               PROVE  FALSE
    BY DEF Passed
  <2>1. SegmentFirst(<<g, k>>) \in Nat \ {0} /\ pos[<<g, k>>] = 0
    BY <1>1, SegmentRequests
  <2> QED BY <2>1
<1>3. pc = "begin"
  BY DEF Init
<1>4. \A g \in Groups : ~Copied(g)
  BY <1>1 DEF Copied
<1>5. HostInv
  BY <1>2, <1>4 DEF HostInv
<1> QED BY <1>3, <1>5 DEF ConsumedInv

\* The final copy of a group whose buffers come from the CPU is made on the
\* stream, and only after all of them have been passed.
LEMMA HostFacts ==
    ASSUME IInv, LedgerInv, NEW g \in Groups
    PROVE  /\ SourceType[g] = "CPU" => TensorType[g] = "GPU"
           /\ Queued(g) => Copied(g)
           /\ Copied(g) => Passed(g) = 1 .. GroupSize[g]
           /\ Copied(g) => \A k \in 1 .. GroupSize[g] :
                 status[<<g, k>>] \notin {"queued", "running", "last"}
<1>1. SourceType[g] = "CPU" => TensorType[g] = "GPU"
  BY TypeAssumption DEF GetUsePinnedMemoryType, MemoryTypes
<1>2. Queued(g) => Copied(g)
  <2> SUFFICES ASSUME NEW m \in DOMAIN stream, stream[m] = <<g, 0>> PROVE Copied(g)
    BY DEF Queued
  <2>1. stream[m][2] = 0 /\ stream[m][1] = g
    OBVIOUS
  <2> QED BY <2>1 DEF LedgerInv, UsedInv, Copied
<1>3. ASSUME Copied(g)
      PROVE  /\ Passed(g) = 1 .. GroupSize[g]
             /\ \A k \in 1 .. GroupSize[g] :
                   status[<<g, k>>] \notin {"queued", "running", "last"}
  <2>1. PICK k \in 1 .. GroupSize[g] : status[<<g, k>>] \in {"copied", "put"}
    BY <1>3 DEF Copied
  <2>2. k \in Closers(g)
    BY <2>1 DEF Closers
  <2>3. /\ \A i \in 1 .. GroupSize[g] : \E j \in Finished(g) :
              i \in SegmentFirst(<<g, j>>) .. pos[<<g, j>>] - 1
        /\ \A j \in 1 .. GroupSize[g] : status[<<g, j>>] \notin {"queued", "running"}
        /\ \A j \in Closers(g) : j = k
    BY <2>2, StagingInv DEF FinalCopyAfterStaging, OneCloserPerGroup
  <2>4. \A j \in 1 .. GroupSize[g] : status[<<g, j>>] # "last"
    BY <2>1, <2>3 DEF Closers
  <2>5. Finished(g) \subseteq 1 .. GroupSize[g]
    BY DEF Finished
  <2> QED BY <2>3, <2>4, <2>5 DEF Passed
<1> QED BY <1>1, <1>2, <1>3

\* A step that makes no copy and passes no buffer.
LEMMA HostFrame ==
    ASSUME HostInv, UNCHANGED <<stream, pinned, tensor, failed>>,
           \A g \in Groups : Passed(g)' \subseteq Passed(g) /\ (Copied(g)' => Copied(g))
    PROVE  HostInv'
<1>1. \A g \in Groups : \A i : Staged(g, i) => Staged(g, i)'
  BY DEF Staged
<1>2. \A g \in Groups : Complete(g) => Complete(g)'
  BY DEF Complete
<1>3. \A g \in Groups : Queued(g) => Queued(g)'
  BY DEF Queued
<1> QED BY <1>1, <1>2, <1>3 DEF HostInv

\* Appending the copy of another group, or behind the staged ones.
LEMMA StagedAppend ==
    ASSUME TypeOK, NEW e \in Groups \X Nat, stream' = Append(stream, e),
           NEW g \in Groups, NEW i \in Nat,
           pinned[g] \subseteq pinned'[g], failed \subseteq failed', Staged(g, i)
    PROVE  Staged(g, i)'
<1>1. /\ DOMAIN stream' = 1 .. Len(stream) + 1 /\ DOMAIN stream = 1 .. Len(stream)
      /\ \A j \in DOMAIN stream : stream'[j] = stream[j]
      /\ Len(stream) \in Nat
  BY AppendElements DEF TypeOK, DataType
<1>2. ASSUME NEW j \in DOMAIN stream, stream[j] = <<g, i>>,
             \A m \in DOMAIN stream : stream[m] = <<g, 0>> => j < m
      PROVE  Staged(g, i)'
  <2>1. j \in DOMAIN stream' /\ stream'[j] = <<g, i>>
    BY <1>1, <1>2
  <2>2. \A m \in DOMAIN stream' : stream'[m] = <<g, 0>> => j < m
    BY <1>1, <1>2
  <2> QED BY <2>1, <2>2 DEF Staged
<1> QED BY <1>2 DEF Staged

LEMMA HostStage ==
    ASSUME IInv, LedgerInv, HostInv, NEW t \in Tasks, StageBuffer(t)
    PROVE  HostInv'
<1>0. PICK h \in Groups : \E k \in 1 .. GroupSize[h] : t = <<h, k>>
  BY TaskFacts
<1>1. PICK k \in 1 .. GroupSize[h] : t = <<h, k>>
  BY <1>0
<1>i. PICK i \in Nat : i = pos[<<h, k>>]
  BY TaskFacts DEF IInv, TypeOK, TaskType
<1>2. /\ status[<<h, k>>] = "running" /\ i <= SegmentLast(<<h, k>>)
      /\ pos' = [pos EXCEPT ![<<h, k>>] = i + 1]
      /\ UNCHANGED <<status, tensor>>
  BY <1>1, <1>i DEF StageBuffer
<1>3. i \in 1 .. GroupSize[h] /\ <<h, i>> \in Groups \X Nat
  <2>1. i >= SegmentFirst(<<h, k>>)
    BY <1>2, <1>i DEF IInv, CoreInv, PosInv
  <2> QED BY <1>2, <2>1, SegmentRequests, GroupFacts
<1>4. ~Queued(h) /\ ~Copied(h)
  BY <1>2, HostFacts
<1>5. \/ /\ pinned' = [pinned EXCEPT ![h] = @ \cup {i}] /\ UNCHANGED <<stream, failed>>
      \/ stream' = Append(stream, <<h, i>>) /\ UNCHANGED <<pinned, failed>>
      \/ failed' = failed \cup {<<h, i>>} /\ UNCHANGED <<stream, pinned>>
  BY <1>1, <1>i DEF StageBuffer
<1>6. /\ pos'[<<h, k>>] = i + 1
      /\ \A g \in Groups : \A j \in 1 .. GroupSize[g] :
            g # h \/ j # k => pos'[<<g, j>>] = pos[<<g, j>>]
  BY <1>2, <1>i, TaskFacts DEF IInv, TypeOK, TaskType
<1>7. \A g \in Groups : Passed(g)' \subseteq IF g = h THEN Passed(g) \cup {i} ELSE Passed(g)
  <2> SUFFICES ASSUME NEW g \in Groups, NEW b \in 1 .. GroupSize[g], NEW j \in 1 .. GroupSize[g],
                      b \in SegmentFirst(<<g, j>>) .. pos'[<<g, j>>] - 1
               PROVE  b \in Passed(g) \/ (g = h /\ b = i)
    BY DEF Passed
  <2>1. CASE g = h /\ j = k
    <3>1. CASE b = i
      BY <2>1, <3>1
    <3>2. CASE b # i
      <4>1. b \in SegmentFirst(<<g, j>>) .. pos[<<g, j>>] - 1
        BY <1>2, <1>6, <1>i, <2>1, <3>2, SegmentRequests
      <4> QED BY <4>1 DEF Passed
    <3> QED BY <3>1, <3>2
  <2>2. CASE ~(g = h /\ j = k)
    BY <1>6, <2>2 DEF Passed
  <2> QED BY <2>1, <2>2
<1>8. /\ failed \subseteq failed'
      /\ \A g \in Groups : pinned[g] \subseteq pinned'[g]
  BY <1>5 DEF IInv, TypeOK, DataType
<1>9. \A g \in Groups : \A b \in Nat : Staged(g, b) => Staged(g, b)'
  <2>1. CASE stream' = Append(stream, <<h, i>>)
    BY <1>3, <1>8, <2>1, StagedAppend DEF IInv
  <2>2. CASE stream' = stream
    BY <1>8, <2>2 DEF Staged
  <2> QED BY <1>5, <2>1, <2>2
<1>10. Staged(h, i)'
  <2>1. CASE pinned' = [pinned EXCEPT ![h] = @ \cup {i}]
    BY <2>1 DEF Staged, IInv, TypeOK, DataType
  <2>2. CASE stream' = Append(stream, <<h, i>>)
    <3>1. /\ DOMAIN stream' = 1 .. Len(stream) + 1 /\ DOMAIN stream = 1 .. Len(stream)
          /\ \A j \in DOMAIN stream : stream'[j] = stream[j]
          /\ stream'[Len(stream) + 1] = <<h, i>> /\ Len(stream) \in Nat
      BY <1>3, <2>2, AppendElements DEF IInv, TypeOK, DataType
    <3>2. ~Queued(h)'
      <4> SUFFICES ASSUME NEW m \in DOMAIN stream', stream'[m] = <<h, 0>> PROVE FALSE
        BY DEF Queued
      <4>1. CASE m \in DOMAIN stream
        BY <1>4, <3>1, <4>1 DEF Queued
      <4>2. CASE m = Len(stream) + 1
        BY <1>3, <3>1, <4>2
      <4> QED BY <3>1, <4>1, <4>2
    <3>3. Len(stream) + 1 \in DOMAIN stream'
      BY <3>1
    <3>4. \A m \in DOMAIN stream' : stream'[m] # <<h, 0>>
      BY <3>2 DEF Queued
    <3>5. \E j \in DOMAIN stream' : 
             /\ stream'[j] = <<h, i>>
             /\ \A m \in DOMAIN stream' : stream'[m] = <<h, 0>> => j < m
      BY <3>1, <3>3, <3>4
    <3> QED BY <3>5 DEF Staged
  <2>3. CASE failed' = failed \cup {<<h, i>>}
    BY <2>3 DEF Staged
  <2> QED BY <1>5, <2>1, <2>2, <2>3
<1>11. \A g \in Groups : Copied(g)' => Copied(g)
  BY <1>2 DEF Copied
<1>12. \A g \in Groups : (Queued(g) => Queued(g)') /\ (Complete(g) => Complete(g)')
  <2>1. \A g \in Groups : Complete(g) => Complete(g)'
    BY <1>2, <1>8 DEF Complete
  <2>2. CASE stream' = Append(stream, <<h, i>>)
    <3>1. \A j \in DOMAIN stream : j \in DOMAIN stream' /\ stream'[j] = stream[j]
      BY <1>3, <2>2, AppendElements DEF IInv, TypeOK, DataType
    <3> QED BY <2>1, <3>1 DEF Queued
  <2>3. CASE stream' = stream
    BY <2>1, <2>3 DEF Queued
  <2> QED BY <1>5, <2>2, <2>3
<1>13. ASSUME NEW g \in Groups, SourceType[g] = "CPU"
      PROVE  /\ \A b \in Passed(g)' : Staged(g, b)'
             /\ Copied(g)' => <<g, 0>> \in failed' \/ Queued(g)' \/ Complete(g)'
  <2>1. Passed(g) \subseteq Nat
    BY GroupFacts DEF Passed
  <2>2. \A b \in Passed(g)' : Staged(g, b)'
    BY <1>7, <1>9, <1>10, <1>13, <2>1 DEF HostInv
  <2>3. Copied(g)' => <<g, 0>> \in failed' \/ Queued(g)' \/ Complete(g)'
    BY <1>8, <1>11, <1>12, <1>13 DEF HostInv
  <2> QED BY <2>2, <2>3
<1> QED BY <1>13 DEF HostInv

LEMMA HostFinal ==
    ASSUME IInv, LedgerInv, HostInv, NEW t \in Tasks, FinalCopy(t)
    PROVE  HostInv'
<1>0. PICK h \in Groups : \E k \in 1 .. GroupSize[h] : t = <<h, k>>
  BY TaskFacts
<1>1. PICK k \in 1 .. GroupSize[h] : t = <<h, k>>
  BY <1>0
<1>2. /\ status[<<h, k>>] = "last" /\ status' = [status EXCEPT ![<<h, k>>] = "copied"]
      /\ UNCHANGED <<pos, pinned>>
      /\ \/ /\ CopyMode("CPU_PINNED", TensorType[h], FALSE) = "host"
            /\ tensor' = [tensor EXCEPT ![h] = pinned[h]] /\ UNCHANGED <<stream, failed>>
         \/ stream' = Append(stream, <<h, 0>>) /\ UNCHANGED <<tensor, failed>>
         \/ failed' = failed \cup {<<h, 0>>} /\ UNCHANGED <<tensor, stream>>
  BY <1>1 DEF FinalCopy
<1>3. <<h, 0>> \in Groups \X Nat
  OBVIOUS
<1>4. \A g \in Groups : Passed(g)' = Passed(g)
  BY <1>2 DEF Passed
<1>5. failed \subseteq failed'
  BY <1>2
<1>6. \A g \in Groups : \A b \in Nat : Staged(g, b) => Staged(g, b)'
  <2>1. CASE stream' = Append(stream, <<h, 0>>)
    BY <1>2, <1>3, <1>5, <2>1, StagedAppend DEF IInv
  <2>2. CASE stream' = stream
    BY <1>2, <1>5, <2>2 DEF Staged
  <2> QED BY <1>2, <2>1, <2>2
<1>7. \A g \in Groups : (g # h /\ Copied(g)') => Copied(g)
  BY <1>2, TaskFacts DEF Copied, IInv, TypeOK, TaskType
<1>8. CASE stream' = Append(stream, <<h, 0>>)
  <2>1. /\ \A j \in DOMAIN stream : j \in DOMAIN stream' /\ stream'[j] = stream[j]
        /\ \E j \in DOMAIN stream' : stream'[j] = <<h, 0>>
    <3>1. /\ DOMAIN stream' = 1 .. Len(stream) + 1 /\ DOMAIN stream = 1 .. Len(stream)
          /\ \A j \in DOMAIN stream : stream'[j] = stream[j]
          /\ stream'[Len(stream) + 1] = <<h, 0>> /\ Len(stream) \in Nat
      BY <1>3, <1>8, AppendElements DEF IInv, TypeOK, DataType
    <3> QED BY <3>1
  <2>2. Queued(h)' /\ \A g \in Groups : Queued(g) => Queued(g)'
    BY <2>1 DEF Queued
  <2>3. tensor' = tensor \/ TensorType[h] # "GPU"
    BY <1>2 DEF CopyMode
  <2>4. ASSUME NEW g \in Groups, SourceType[g] = "CPU", Complete(g)
        PROVE  Complete(g)' \/ g = h
    BY <1>2, <1>5, <2>4 DEF Complete, IInv, TypeOK, DataType
  <2>5. ASSUME NEW g \in Groups, SourceType[g] = "CPU"
        PROVE  /\ \A b \in Passed(g)' : Staged(g, b)'
               /\ Copied(g)' => <<g, 0>> \in failed' \/ Queued(g)' \/ Complete(g)'
    <3>1. Passed(g) \subseteq Nat
      BY GroupFacts DEF Passed
    <3>2. \A b \in Passed(g)' : Staged(g, b)'
      BY <1>4, <1>6, <2>5, <3>1 DEF HostInv
    <3>3. Copied(g)' => <<g, 0>> \in failed' \/ Queued(g)' \/ Complete(g)'
      BY <1>5, <1>7, <2>2, <2>4, <2>5 DEF HostInv
    <3> QED BY <3>2, <3>3
  <2> QED BY <2>5 DEF HostInv
<1>9. CASE stream' = stream
  <2>1. \A g \in Groups : Queued(g) => Queued(g)'
    BY <1>9 DEF Queued
  <2>2. ASSUME NEW g \in Groups, SourceType[g] = "CPU"
        PROVE  /\ \A b \in Passed(g)' : Staged(g, b)'
               /\ Copied(g)' => <<g, 0>> \in failed' \/ Queued(g)' \/ Complete(g)'
    <3>1. Passed(g) \subseteq Nat
      BY GroupFacts DEF Passed
    <3>2. \A b \in Passed(g)' : Staged(g, b)'
      BY <1>4, <1>6, <2>2, <3>1 DEF HostInv
    <3>3. CASE g = h
      <4>1. TensorType[h] = "GPU"
        BY <2>2, <3>3, HostFacts
      <4>2. <<h, 0>> \in failed' \/ stream' = Append(stream, <<h, 0>>)
        BY <1>2, <4>1 DEF CopyMode
      <4>3. stream' # Append(stream, <<h, 0>>)
        <5>1. Append(stream, <<h, 0>>) # stream
          BY <1>3, AppendElements DEF IInv, TypeOK, DataType
        <5> QED BY <1>9, <5>1
      <4> QED BY <3>2, <3>3, <4>2, <4>3
    <3>4. CASE g # h
      <4>1. Complete(g) => Complete(g)'
        BY <1>2, <1>5, <3>4 DEF Complete, IInv, TypeOK, DataType
      <4>2. Copied(g)' => <<g, 0>> \in failed \/ Queued(g) \/ Complete(g)
        BY <1>7, <2>2, <3>4 DEF HostInv
      <4> QED BY <1>5, <2>1, <3>2, <4>1, <4>2
    <3> QED BY <3>3, <3>4
  <2> QED BY <2>2 DEF HostInv
<1> QED BY <1>2, <1>8, <1>9

LEMMA HostRun ==
    ASSUME IInv, LedgerInv, HostInv, RunCopy
    PROVE  HostInv'
<1>1. /\ Len(stream) \in Nat \ {0} /\ DOMAIN stream = 1 .. Len(stream)
      /\ DOMAIN stream' = 1 .. Len(stream) - 1
      /\ \A j \in 1 .. Len(stream) - 1 : stream'[j] = stream[j + 1]
      /\ Head(stream) = stream[1]
  <2>1. stream \in Seq(Groups \X Nat) /\ stream # <<>> /\ stream' = Tail(stream)
    BY DEF RunCopy, IInv, TypeOK, DataType
  <2> QED BY <2>1, TailElements
<1>2. PICK h \in Groups, i \in Nat : stream[1] = <<h, i>>
  BY <1>1, SMTT(30) DEF IInv, TypeOK, DataType
<1>3. /\ UNCHANGED <<pos, status, failed>>
      /\ i # 0 => pinned' = [pinned EXCEPT ![h] = @ \cup {i}] /\ tensor' = tensor
      /\ i = 0 => tensor' = [tensor EXCEPT ![h] = pinned[h]] /\ pinned' = pinned
  BY <1>1, <1>2 DEF RunCopy, taskVars
<1>4. /\ pinned \in [Groups -> SUBSET Nat] /\ tensor \in [Groups -> SUBSET Nat]
  BY DEF IInv, TypeOK, DataType
<1>5. \A g \in Groups : /\ Passed(g)' = Passed(g) /\ Copied(g)' = Copied(g)
                        /\ Passed(g) \subseteq Nat \ {0}
                        /\ pinned[g] \subseteq pinned'[g]
  BY <1>3, <1>4, GroupFacts DEF Passed, Copied
<1>6. ASSUME NEW g \in Groups, NEW b \in Nat \ {0}, Staged(g, b) PROVE Staged(g, b)'
  <2>1. CASE b \in pinned[g] \/ <<g, b>> \in failed
    BY <1>3, <1>5, <2>1 DEF Staged
  <2>2. CASE \E j \in DOMAIN stream :
                /\ stream[j] = <<g, b>>
                /\ \A m \in DOMAIN stream : stream[m] = <<g, 0>> => j < m
    <3>1. PICK j \in DOMAIN stream :
                /\ stream[j] = <<g, b>>
                /\ \A m \in DOMAIN stream : stream[m] = <<g, 0>> => j < m
      BY <2>2
    <3>2. CASE j = 1
      <4>1. h = g /\ i = b
        BY <1>2, <3>1, <3>2
      <4>2. b \in pinned'[g]
        BY <1>3, <1>4, <4>1
      <4> QED BY <4>2 DEF Staged
    <3>3. CASE j # 1
      <4>1. j - 1 \in DOMAIN stream' /\ (j - 1) + 1 = j /\ j \in Nat
        BY <1>1, <3>3
      <4>2. stream'[j - 1] = <<g, b>>
        BY <1>1, <3>1, <4>1
      <4>3. ASSUME NEW m \in DOMAIN stream', stream'[m] = <<g, 0>> PROVE j - 1 < m
        <5>1. m \in Nat /\ m + 1 \in DOMAIN stream /\ stream[m + 1] = <<g, 0>>
          BY <1>1, <4>3
        <5>2. j < m + 1
          BY <3>1, <5>1
        <5> QED BY <4>1, <5>1, <5>2
      <4> QED BY <4>1, <4>2, <4>3 DEF Staged
    <3> QED BY <3>2, <3>3
  <2> QED BY <1>6, <2>1, <2>2 DEF Staged
<1>7. ASSUME NEW g \in Groups, SourceType[g] = "CPU", Copied(g)
      PROVE  <<g, 0>> \in failed \/ Queued(g)' \/ Complete(g)'
  <2>1. /\ \A b \in 1 .. GroupSize[g] : Staged(g, b)
        /\ <<g, 0>> \in failed \/ Queued(g) \/ Complete(g)
    BY <1>7, HostFacts DEF HostInv
  <2>2. CASE i = 0 /\ h = g
    <3>1. \A b \in 1 .. GroupSize[g] : b \in pinned[g] \/ <<g, b>> \in failed
      <4>1. 1 \in DOMAIN stream /\ stream[1] = <<g, 0>> /\ \A j \in DOMAIN stream : ~(j < 1)
        BY <1>1, <1>2, <2>2
      <4> QED BY <2>1, <4>1 DEF Staged
    <3> QED BY <1>3, <1>4, <2>2, <3>1 DEF Complete
  <2>3. CASE ~(i = 0 /\ h = g)
    <3>1. tensor'[g] = tensor[g]
      BY <1>3, <1>4, <2>3
    <3>2. Complete(g) => Complete(g)'
      BY <1>3, <3>1 DEF Complete
    <3>3. ASSUME Queued(g) PROVE Queued(g)'
      <4>1. PICK m \in DOMAIN stream : stream[m] = <<g, 0>>
        BY <3>3 DEF Queued
      <4>2. m # 1
        BY <1>2, <2>3, <4>1
      <4>3. m - 1 \in DOMAIN stream' /\ (m - 1) + 1 = m
        BY <1>1, <4>2
      <4>4. stream'[m - 1] = <<g, 0>>
        BY <1>1, <4>1, <4>3
      <4> QED BY <4>3, <4>4 DEF Queued
    <3> QED BY <2>1, <3>2, <3>3
  <2> QED BY <2>2, <2>3
<1> QED BY <1>3, <1>5, <1>6, <1>7 DEF HostInv

LEMMA HostStep ==
    ASSUME IInv, LedgerInv, HostInv, [Next]_vars
    PROVE  HostInv'
<1> USE DEF mainVars, taskVars, dataVars, respVars, eventVars
<1>1. CASE \/ BeginFlush \/ EndFlush \/ FinalizeWait \/ CallerSync \/ FinalizeReturn
           \/ GetCompletion \/ \E th \in Threads : Answer(th)
           \/ BufferReadyFires \/ Consumed \/ UNCHANGED vars
  <2>1. UNCHANGED <<stream, pinned, tensor, failed, pos, status>>
    BY <1>1 DEF BeginFlush, EndFlush, FinalizeWait, CallerSync, FinalizeReturn, GetCompletion,
                Answer, CheckResponse, SendResponse, BufferReadyFires, Consumed, vars
  <2>2. \A g \in Groups : Passed(g)' = Passed(g) /\ Copied(g)' = Copied(g)
    BY <2>1 DEF Passed, Copied
  <2> QED BY <2>1, <2>2, HostFrame
<1>2. CASE AddTask
  <2>1. /\ UNCHANGED <<stream, pinned, tensor, failed, pos>>
        /\ \E v \in {"queued", "refused"} : status' = [status EXCEPT ![<<grp, seg>>] = v]
    BY <1>2 DEF AddTask
  <2>2. \A g \in Groups : Passed(g)' = Passed(g)
    BY <2>1 DEF Passed
  <2>3. \A g \in Groups : Copied(g)' => Copied(g)
    BY <2>1, TaskFacts DEF Copied, IInv, TypeOK, TaskType
  <2> QED BY <2>1, <2>2, <2>3, HostFrame
<1>3. ASSUME NEW t \in Tasks, FinishSegment(t) \/ PutCompletion(t)
      PROVE  HostInv'
  <2>1. /\ UNCHANGED <<stream, pinned, tensor, failed, pos>>
        /\ \/ status[t] = "copied" /\ status' = [status EXCEPT ![t] = "put"]
           \/ \E v \in {"last", "done"} : status' = [status EXCEPT ![t] = v]
    BY <1>3 DEF FinishSegment, PutCompletion, LastDecrement
  <2>2. \A g \in Groups : Passed(g)' = Passed(g)
    BY <2>1 DEF Passed
  <2>3. \A g \in Groups : Copied(g)' => Copied(g)
    BY <2>1, TaskFacts DEF Copied, IInv, TypeOK, TaskType
  <2> QED BY <2>1, <2>2, <2>3, HostFrame
<1>4. ASSUME NEW t \in Tasks, StartTask(t)
      PROVE  HostInv'
  <2>1. /\ UNCHANGED <<stream, pinned, tensor, failed>>
        /\ status' = [status EXCEPT ![t] = "running"]
        /\ pos' = [pos EXCEPT ![t] = SegmentFirst(t)]
    BY <1>4 DEF StartTask
  <2>2. \A g \in Groups : Copied(g)' => Copied(g)
    BY <2>1, TaskFacts DEF Copied, IInv, TypeOK, TaskType
  <2>3. ASSUME NEW g \in Groups PROVE Passed(g)' \subseteq Passed(g)
    <3> SUFFICES ASSUME NEW i \in 1 .. GroupSize[g], NEW k \in 1 .. GroupSize[g],
                        i \in SegmentFirst(<<g, k>>) .. pos'[<<g, k>>] - 1
                 PROVE  i \in SegmentFirst(<<g, k>>) .. pos[<<g, k>>] - 1
      BY DEF Passed
    <3>1. SegmentFirst(<<g, k>>) \in Nat /\ <<g, k>> \in Tasks
      BY TaskFacts, SegmentRequests
    <3>2. pos'[<<g, k>>] = IF t = <<g, k>> THEN SegmentFirst(<<g, k>>) ELSE pos[<<g, k>>]
      BY <2>1, <3>1 DEF IInv, TypeOK, TaskType
    <3> QED BY <3>1, <3>2
  <2> QED BY <2>1, <2>2, <2>3, HostFrame
<1> QED BY <1>1, <1>2, <1>3, <1>4, HostStage, HostFinal, HostRun DEF Next, MainThread, Worker

\* Once the caller has synchronized, no group has a copy to its tensor to come.
LEMMA ConsumedStep ==
    ASSUME IInv, LedgerInv, ConsumedInv, [Next]_vars
    PROVE  ConsumedInv'
<1> USE DEF mainVars, taskVars, dataVars, respVars, eventVars
<1> SUFFICES ASSUME pc' = "consumed" PROVE \A j \in DOMAIN stream' : stream'[j][2] # 0
  BY DEF ConsumedInv
<1>1. CASE CallerSync
  <2>1. pc = "returned" /\ stream' = stream /\ (needSync => stream = <<>>)
    BY <1>1 DEF CallerSync
  <2>2. needSync => DOMAIN stream = {}
    BY <2>1
  <2> QED BY <2>1, <2>2, AllPut DEF IInv, TypeOK, MainType
<1>2. CASE pc = "consumed"
  <2>1. /\ \A j \in DOMAIN stream : stream[j][2] # 0
        /\ \A g \in Groups : Copied(g)
    BY <1>2, AllPut DEF ConsumedInv, Putters, Copied
  <2>2. ASSUME NEW t \in Tasks, FinalCopy(t) \/ StageBuffer(t)
        PROVE  FALSE
    <3>1. PICK g \in Groups : \E k \in 1 .. GroupSize[g] : t = <<g, k>>
      BY TaskFacts
    <3>2. status[t] \notin {"last", "running"}
      BY <2>1, <3>1, HostFacts
    <3> QED BY <2>2, <3>2 DEF FinalCopy, StageBuffer
  <2>3. CASE RunCopy
    <3>1. stream \in Seq(Groups \X Nat) /\ stream # <<>> /\ stream' = Tail(stream)
      BY <2>3 DEF RunCopy, IInv, TypeOK, DataType
    <3> QED BY <2>1, <3>1, TailElements
  <2>4. CASE \/ MainThread \/ \E th \in Threads : Answer(th)
             \/ \E t \in Tasks : StartTask(t) \/ FinishSegment(t) \/ PutCompletion(t)
             \/ BufferReadyFires \/ Consumed \/ UNCHANGED vars
    <3>1. stream' = stream
      BY <2>4 DEF MainThread, BeginFlush, AddTask, EndFlush, FinalizeWait, GetCompletion,
                  FinalizeReturn, CallerSync, Answer, CheckResponse, SendResponse, StartTask,
                  FinishSegment, PutCompletion, BufferReadyFires, Consumed, vars
    <3> QED BY <2>1, <3>1
  <2> QED BY <2>2, <2>3, <2>4 DEF Next, Worker
<1>3. pc = "consumed" \/ CallerSync
  BY DEF Next, MainThread, Worker, BeginFlush, AddTask, EndFlush, FinalizeWait, GetCompletion,
         FinalizeReturn, Answer, CheckResponse, SendResponse, StartTask, StageBuffer,
         FinishSegment, FinalCopy, PutCompletion, RunCopy, BufferReadyFires, Consumed, vars
<1> QED BY <1>1, <1>2, <1>3

-----------------------------------------------------------------------------
(***************************************************************************)
(* For every number of workers and every list of groups, the state of the  *)
(* asynchronous staging path is well typed; in particular fetch_sub never  *)
(* takes incomplete_count below zero.                                      *)
(***************************************************************************)
THEOREM TypeCorrect == Spec => []TypeOK
<1>1. IInv => TypeOK
  BY DEF IInv
<1> QED BY InitInv, NextInv, <1>1, PTL DEF Spec

(***************************************************************************)
(* For every number of workers and every list of groups, the task that     *)
(* takes incomplete_count to zero starts the copy to the tensor only after *)
(* every buffer of the group has been staged.                              *)
(***************************************************************************)
THEOREM StagedBeforeFinalCopy == Spec => []FinalCopyAfterStaging
<1>1. IInv => FinalCopyAfterStaging
  BY StagingInv
<1> QED BY InitInv, NextInv, <1>1, PTL DEF Spec

(***************************************************************************)
(* For every number of workers and every list of groups, at most one task  *)
(* of a group closes it, and none of its tasks runs on after that: the     *)
(* completion queue gets one flag per group at most, and incomplete_count  *)
(* is not used after it is deleted.                                        *)
(***************************************************************************)
THEOREM ClosedOnce == Spec => []OneCloserPerGroup
<1>1. IInv => OneCloserPerGroup
  BY StagingInv
<1> QED BY InitInv, NextInv, <1>1, PTL DEF Spec

(***************************************************************************)
(* For every number of workers and every list of groups, a tensor is       *)
(* written only after the event that says it may be overwritten has fired. *)
(***************************************************************************)
THEOREM WrittenWhenReady == Spec => TensorWrittenWhenReady
<1>1. Init => IInv /\ ReadyInv
  BY InitInv, ReadyInit
<1>2. IInv /\ ReadyInv /\ [Next]_vars =>
         IInv' /\ ReadyInv' /\ [tensor' # tensor => bufferReady]_vars
  BY NextInv, ReadyStep
<1> QED BY <1>1, <1>2, PTL DEF Spec, TensorWrittenWhenReady

DeliveryInv == IInv /\ LedgerInv /\ HostInv /\ ConsumedInv

LEMMA DeliveryInvariant == Spec => []DeliveryInv
<1>1. Init => DeliveryInv
  BY InitInv, LedgerInit, HostInit DEF DeliveryInv
<1>2. DeliveryInv /\ [Next]_vars => DeliveryInv'
  BY NextInv, LedgerStep, HostStep, ConsumedStep DEF DeliveryInv
<1> QED BY <1>1, <1>2, PTL DEF Spec

(***************************************************************************)
(* For every number of workers and every list of groups, no copy to a      *)
(* tensor is in flight if Finalize() tells the caller not to synchronize.  *)
(***************************************************************************)
THEOREM QuietReturn == Spec => []QuietUnlessSync
<1>1. DeliveryInv => QuietUnlessSync
  BY AllPut DEF DeliveryInv, QuietUnlessSync
<1> QED BY <1>1, DeliveryInvariant, PTL

(***************************************************************************)
(* For every number of workers and every list of groups, when the caller   *)
(* uses the tensors every buffer that was staged by the CPU is there,      *)
(* unless a copy of it failed.                                             *)
(***************************************************************************)
THEOREM DeliveredFromHost == Spec => []HostDelivered
<1>1. DeliveryInv => HostDelivered
  <2> SUFFICES ASSUME DeliveryInv, pc = "consumed", NEW g \in Groups,
                      SourceType[g] # "GPU", <<g, 0>> \notin failed
               PROVE  Complete(g)
    BY DEF HostDelivered, GroupDelivered, Complete
  <2>1. Copied(g)
    BY AllPut DEF DeliveryInv, Putters, Copied
  <2>2. ~Queued(g)
    <3> SUFFICES ASSUME NEW m \in DOMAIN stream, stream[m] = <<g, 0>> PROVE FALSE
      BY DEF Queued
    <3>1. stream[m][2] = 0
      OBVIOUS
    <3> QED BY <3>1 DEF DeliveryInv, ConsumedInv
  <2>3. SourceType[g] = "CPU"
    BY TypeAssumption
  <2> QED BY <2>1, <2>2, <2>3 DEF DeliveryInv, HostInv
<1> QED BY <1>1, DeliveryInvariant, PTL
=============================================================================
