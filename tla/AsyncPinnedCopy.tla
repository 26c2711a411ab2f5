-------------------------- MODULE AsyncPinnedCopy --------------------------
(***************************************************************************)
(* The asynchronous branch of BackendInputCollector::FlushPendingPinned    *)
(* (src/src/backend_input_collector.cc), taken when the AsyncWorkQueue has *)
(* more than one worker, with the Finalize() that collects its results.    *)
(*                                                                         *)
(* Each flush moves one group of pending buffers.  The calling thread cuts *)
(* the group into segments of Stride(g) buffers and hands each segment to  *)
(* the worker pool.  A worker stages its buffers in the group's pinned     *)
(* memory and decrements the group's incomplete_count; the one that takes  *)
(* it from 1 to 0 copies the pinned memory to the tensor and puts the      *)
(* copy's cuda_used flag into completion_queue_.  Finalize() takes one     *)
(* flag per group.                                                         *)
(*                                                                         *)
(* Abstractions: the bytes of a buffer are its index; pinned memory and    *)
(* the tensor region of a group are the sets of indices whose bytes they   *)
(* hold.  A task is <<g, k>>: segment k of group g.                        *)
(***************************************************************************)
EXTENDS Integers, Sequences, FiniteSets, MemoryTypes

CONSTANTS
    WorkerCount,    \* AsyncWorkQueue::WorkerCount()
    GroupSize,      \* GroupSize[g]: buffers in the g-th flushed group
    Span,           \* Span[g][i]: start and end request of buffer i of group g
    RequestCount,   \* request_count_
    SourceType,     \* SourceType[g]: memory type of the buffers of group g
    TensorType,     \* TensorType[g]: memory type of their tensor
    CopyOnStream,   \* copy_on_stream_
    HasReadyEvent,  \* a buffer_ready_event was given
    MaxFaults,      \* bound: CopyBuffer calls that fail
    MaxRejects      \* bound: AddTask calls that are refused

Groups == 1 .. Len(GroupSize)
Requests == 1 .. RequestCount

ASSUME WorkerAssumption == WorkerCount \in Nat /\ WorkerCount > 1
ASSUME GroupAssumption == GroupSize \in Seq(Nat \ {0}) /\ Len(GroupSize) > 0
ASSUME SpanAssumption ==
    \A g \in Groups : \A i \in 1 .. GroupSize[g] :
        Span[g][i][1] .. Span[g][i][2] \subseteq Requests
ASSUME RequestAssumption == RequestCount \in Nat
ASSUME TypeAssumption ==
    /\ \A g \in Groups :
          /\ SourceType[g] \in {"CPU", "GPU"} /\ TensorType[g] \in MemoryTypes
          /\ SourceType[g] = GetUsePinnedMemoryType(TensorType[g])
    /\ CopyOnStream \in BOOLEAN /\ HasReadyEvent \in BOOLEAN
ASSUME BoundAssumption == MaxFaults \in Nat /\ MaxRejects \in Nat

VARIABLES
    pc,          \* the thread that runs the flushes and Finalize()
    grp,         \* the group it is flushing
    seg,         \* the next segment of that group
    count,       \* count[g]: *incomplete_count
    status,      \* status[t]: what has become of task t
    pos,         \* pos[t]: pending_it, the next buffer of the segment
    pinned,      \* pinned[g]: buffers whose bytes are in the pinned memory
    tensor,      \* tensor[g]: buffers whose bytes reached the tensor
    stream,      \* copies queued on stream_; <<g, 0>> is the final copy of g
    cudaUsed,    \* cudaUsed[g]: result of DeferredPinned::Finalize
    completion,  \* completion_queue_
    gets,        \* flags Finalize() has taken from it
    needSync,    \* need_sync_
    todo,        \* todo[th]: requests thread th has yet to answer with an error
    checked,     \* checked[th]: the response of the next one was seen non-null
    response,    \* response[r]: (*responses_)[r] is not null
    sent,        \* sent[r]: how often a final response was sent for r
    failed,      \* copies that failed; <<g, 0>> is the final copy of g
    rejects,     \* AddTask calls refused so far
    eventSet,    \* buffer_ready_event_ is not null
    bufferReady  \* the event has fired: the tensor buffer may be overwritten

mainVars == <<pc, grp, seg, gets, needSync>>
taskVars == <<count, status, pos, cudaUsed, completion>>
dataVars == <<pinned, tensor, stream, failed>>
respVars == <<todo, checked, response, sent>>
eventVars == <<eventSet, bufferReady>>
vars == <<mainVars, taskVars, dataVars, respVars, rejects, eventVars>>
-----------------------------------------------------------------------------
(***************************************************************************)
(* How a group is cut into segments.                                       *)
(***************************************************************************)
StrideRoundedDown(g) == GroupSize[g] \div WorkerCount  \* mutant
Stride(g) == (GroupSize[g] + WorkerCount - 1) \div WorkerCount

IncompleteCountOneShort(g) ==  \* mutant
    IF GroupSize[g] < WorkerCount THEN GroupSize[g] - 1 ELSE WorkerCount - 1
IncompleteCount(g) ==
    IF GroupSize[g] < WorkerCount THEN GroupSize[g] ELSE WorkerCount

Tasks == UNION {{<<g, k>> : k \in 1 .. GroupSize[g]} : g \in Groups}

SegmentFirst(t) == (t[2] - 1) * Stride(t[1]) + 1

SegmentLastExclusive(t) ==  \* mutant
    IF t[2] * Stride(t[1]) < GroupSize[t[1]]
    THEN t[2] * Stride(t[1]) - 1
    ELSE GroupSize[t[1]]
SegmentLast(t) ==
    IF t[2] * Stride(t[1]) < GroupSize[t[1]]
    THEN t[2] * Stride(t[1])
    ELSE GroupSize[t[1]]

\* The requests that contributed to buffer i of group g.
BufferRequests(g, i) == Span[g][i][1] .. Span[g][i][2]

RequestsOf(g, I) == UNION {BufferRequests(g, i) : i \in I}

\* The flushing thread and the pool threads, which are named by their task.
Main == <<0, 0>>
Threads == Tasks \cup {Main}

Busy == {t \in Tasks : status[t] \in {"running", "last", "copied"}}

-----------------------------------------------------------------------------
Init ==
    /\ pc = "begin" /\ grp = 1 /\ seg = 1
    /\ count = [g \in Groups |-> 0]
    /\ status = [t \in Tasks |-> "new"]
    /\ pos = [t \in Tasks |-> 0]
    /\ pinned = [g \in Groups |-> {}]
    /\ tensor = [g \in Groups |-> {}]
    /\ stream = <<>>
    /\ cudaUsed = [g \in Groups |-> FALSE]
    /\ completion = <<>> /\ gets = 0 /\ needSync = FALSE
    /\ todo = [th \in Threads |-> {}]
    /\ checked = [th \in Threads |-> FALSE]
    /\ response = [r \in Requests |-> TRUE]
    /\ sent = [r \in Requests |-> 0]
    /\ failed = {} /\ rejects = 0
    /\ eventSet = HasReadyEvent /\ bufferReady = ~HasReadyEvent

(***************************************************************************)
(* Answering requests with an error.  Every error path tests a response    *)
(* for null, sends it and sets it to null, without a lock: another thread  *)
(* may run between the test and the send.  The responses are visited in    *)
(* increasing order.                                                       *)
(***************************************************************************)
NextToAnswer(th) == CHOOSE r \in todo[th] : \A q \in todo[th] : r <= q

CheckResponse(th) ==
    /\ todo[th] # {} /\ ~checked[th]
    /\ \/ /\ response[NextToAnswer(th)]
          /\ checked' = [checked EXCEPT ![th] = TRUE]
          /\ UNCHANGED todo
       \/ /\ ~response[NextToAnswer(th)]
          /\ todo' = [todo EXCEPT ![th] = @ \ {NextToAnswer(th)}]
          /\ UNCHANGED checked
    /\ UNCHANGED <<mainVars, taskVars, dataVars, response, sent, rejects,
                   eventVars>>

SendResponse(th) ==
    LET r == NextToAnswer(th) IN
    /\ todo[th] # {} /\ checked[th]
    /\ sent' = [sent EXCEPT ![r] = @ + 1]
    /\ response' = [response EXCEPT ![r] = FALSE]
    /\ todo' = [todo EXCEPT ![th] = @ \ {r}]
    /\ checked' = [checked EXCEPT ![th] = FALSE]
    /\ UNCHANGED <<mainVars, taskVars, dataVars, rejects, eventVars>>

-----------------------------------------------------------------------------
(***************************************************************************)
(* FlushPendingPinned on the calling thread.                               *)
(***************************************************************************)
BeginFlush ==
    /\ pc = "begin" /\ grp \in Groups
    /\ count' = [count EXCEPT ![grp] = IncompleteCount(grp)]
    /\ seg' = 1 /\ pc' = "submit"
    /\ UNCHANGED <<grp, gets, needSync, status, pos, cudaUsed, completion,
                   dataVars, respVars, rejects, eventVars>>

\* TRITONSERVER_ErrorNew always returns an error object, whatever the code.
CommonErrorToTritonError(commonError) == "error"

\* One turn of the loop: hand the next segment over, then answer its
\* requests if the converted result of AddTask is not null.
AddTask ==
    LET t == <<grp, seg>> IN
    /\ pc = "submit" /\ todo[Main] = {}
    /\ (seg - 1) * Stride(grp) < GroupSize[grp]
    /\ \E result \in {"SUCCESS", "UNAVAILABLE"} :
          /\ \/ /\ result = "SUCCESS"
                /\ status' = [status EXCEPT ![t] = "queued"]
                /\ UNCHANGED rejects
             \/ /\ result = "UNAVAILABLE" /\ rejects < MaxRejects
                /\ status' = [status EXCEPT ![t] = "refused"]
                /\ rejects' = rejects + 1
          /\ todo' = IF CommonErrorToTritonError(result) # "none"
                     THEN [todo EXCEPT ![Main] =
                             RequestsOf(grp, SegmentFirst(t) .. SegmentLast(t))]
                     ELSE todo
    /\ seg' = seg + 1
    /\ UNCHANGED <<pc, grp, gets, needSync, count, pos, cudaUsed, completion,
                   dataVars, checked, response, sent, eventVars>>

EndFlush ==
    /\ pc = "submit" /\ todo[Main] = {}
    /\ (seg - 1) * Stride(grp) >= GroupSize[grp]
    /\ grp' = grp + 1
    /\ pc' = IF grp + 1 \in Groups THEN "begin" ELSE "finalize"
    /\ UNCHANGED <<seg, gets, needSync, taskVars, dataVars, respVars, rejects,
                   eventVars>>

(***************************************************************************)
(* The task run by a pool thread.                                          *)
(***************************************************************************)
\* External: the pool starts any queued task when a thread is idle.
StartTask(t) ==
    /\ status[t] = "queued" /\ Cardinality(Busy) < WorkerCount
    /\ status' = [status EXCEPT ![t] = "running"]
    /\ pos' = [pos EXCEPT ![t] = SegmentFirst(t)]
    /\ UNCHANGED <<mainVars, count, cudaUsed, completion, dataVars, respVars,
                   rejects, eventVars>>

\* SetInputTensor into pinned memory, whose cuda_copy result is dropped.
StageBuffer(t) ==
    LET g == t[1]
        i == pos[t]
        mode == CopyMode(SourceType[g], "CPU_PINNED", CopyOnStream)
    IN
    /\ status[t] = "running" /\ todo[t] = {}
    /\ i <= SegmentLast(t)
    /\ \/ /\ mode = "host"
          /\ pinned' = [pinned EXCEPT ![g] = @ \cup {i}]
          /\ UNCHANGED <<stream, failed, todo>>
       \/ /\ mode = "stream"
          /\ stream' = Append(stream, <<g, i>>)
          /\ UNCHANGED <<pinned, failed, todo>>
       \/ /\ Cardinality(failed) < MaxFaults
          /\ failed' = failed \cup {<<g, i>>}
          /\ todo' = [todo EXCEPT ![t] = BufferRequests(g, i)]
          /\ UNCHANGED <<pinned, stream>>
    /\ pos' = [pos EXCEPT ![t] = i + 1]
    /\ UNCHANGED <<mainVars, count, status, cudaUsed, completion, tensor,
                   checked, response, sent, rejects, eventVars>>

\* incomplete_count->fetch_sub(1) == 1
LastDecrementTooEarly(old) == old <= 2  \* mutant
LastDecrement(old) == old = 1

FinishSegment(t) ==
    LET g == t[1] IN
    /\ status[t] = "running" /\ todo[t] = {}
    /\ pos[t] > SegmentLast(t)
    /\ count' = [count EXCEPT ![g] = @ - 1]
    /\ status' = [status EXCEPT ![t] = IF LastDecrement(count[g]) THEN "last" ELSE "done"]
    /\ UNCHANGED <<mainVars, pos, cudaUsed, completion, dataVars, respVars,
                   rejects, eventVars>>

\* cudaEventSynchronize(buffer_ready_event_) returns once the event fired.
DoNotWaitBufferReady == eventSet' = FALSE /\ UNCHANGED bufferReady  \* mutant
WaitBufferReady ==
    /\ eventSet => bufferReady
    /\ eventSet' = FALSE
    /\ UNCHANGED bufferReady

\* DeferredPinned::Finalize: CopyBuffer without copy_on_stream.
FinalCopy(t) ==
    LET g == t[1]
        mode == CopyMode("CPU_PINNED", TensorType[g], FALSE)
    IN
    /\ status[t] = "last"
    /\ WaitBufferReady
    /\ \/ /\ mode = "host"
          /\ tensor' = [tensor EXCEPT ![g] = pinned[g]]
          /\ UNCHANGED <<stream, failed, todo, cudaUsed>>
       \/ /\ mode = "stream"
          /\ stream' = Append(stream, <<g, 0>>)
          /\ cudaUsed' = [cudaUsed EXCEPT ![g] = TRUE]
          /\ UNCHANGED <<tensor, failed, todo>>
       \/ /\ Cardinality(failed) < MaxFaults
          /\ failed' = failed \cup {<<g, 0>>}
          /\ todo' = [todo EXCEPT ![t] = RequestsOf(g, 1 .. GroupSize[g])]
          /\ UNCHANGED <<tensor, stream, cudaUsed>>
    /\ status' = [status EXCEPT ![t] = "copied"]
    /\ UNCHANGED <<mainVars, count, pos, completion, pinned, checked, response,
                   sent, rejects>>

\* completion_queue_.Put(cuda_used)
PutWithoutFlag(queue, flag) == Append(queue, FALSE)  \* mutant
PutOnSuccess(queue, flag) == IF flag THEN Append(queue, flag) ELSE queue  \* mutant
PutFlag(queue, flag) == Append(queue, flag)

PutCompletion(t) ==
    /\ status[t] = "copied" /\ todo[t] = {}
    /\ completion' = PutFlag(completion, cudaUsed[t[1]])
    /\ status' = [status EXCEPT ![t] = "put"]
    /\ UNCHANGED <<mainVars, count, pos, cudaUsed, dataVars, respVars, rejects,
                   eventVars>>

-----------------------------------------------------------------------------
(***************************************************************************)
(* Finalize().  Every deferred group is marked finalized_ and the flushes  *)
(* left need_sync_ FALSE, so only the waits are left to do.                *)
(***************************************************************************)
FinalizeWait ==
    /\ pc = "finalize"
    /\ WaitBufferReady
    /\ pc' = "collect"
    /\ UNCHANGED <<grp, seg, gets, needSync, taskVars, dataVars, respVars,
                   rejects>>

\* completion_queue_.Get() blocks while the queue is empty.
GetCompletion ==
    /\ pc = "collect" /\ gets < Len(GroupSize)
    /\ completion # <<>>
    /\ needSync' = (needSync \/ Head(completion))
    /\ completion' = Tail(completion)
    /\ gets' = gets + 1
    /\ UNCHANGED <<pc, grp, seg, count, status, pos, cudaUsed, dataVars,
                   respVars, rejects, eventVars>>

FinalizeReturn ==
    /\ pc = "collect" /\ gets = Len(GroupSize)
    /\ pc' = "returned"
    /\ UNCHANGED <<grp, seg, gets, needSync, taskVars, dataVars, respVars,
                   rejects, eventVars>>

\* The caller synchronizes with the stream iff Finalize() returned true.
CallerSync ==
    /\ pc = "returned"
    /\ needSync => stream = <<>>
    /\ pc' = "consumed"
    /\ UNCHANGED <<grp, seg, gets, needSync, taskVars, dataVars, respVars,
                   rejects, eventVars>>

(***************************************************************************)
(* External: the CUDA stream runs its copies in order, and the event that  *)
(* guards the tensor buffer fires.                                         *)
(***************************************************************************)
RunCopy ==
    LET g == Head(stream)[1]
        i == Head(stream)[2]
    IN
    /\ stream # <<>>
    /\ \/ /\ i # 0
          /\ pinned' = [pinned EXCEPT ![g] = @ \cup {i}]
          /\ UNCHANGED tensor
       \/ /\ i = 0
          /\ tensor' = [tensor EXCEPT ![g] = pinned[g]]
          /\ UNCHANGED pinned
    /\ stream' = Tail(stream)
    /\ UNCHANGED <<mainVars, taskVars, failed, respVars, rejects, eventVars>>

BufferReadyFires ==
    /\ ~bufferReady
    /\ bufferReady' = TRUE
    /\ UNCHANGED <<mainVars, taskVars, dataVars, respVars, rejects, eventSet>>

Consumed == pc = "consumed" /\ UNCHANGED vars

Worker(t) ==
    \/ StartTask(t) \/ StageBuffer(t) \/ FinishSegment(t)
    \/ FinalCopy(t) \/ PutCompletion(t)

MainThread ==
    \/ BeginFlush \/ AddTask \/ EndFlush
    \/ FinalizeWait \/ GetCompletion \/ FinalizeReturn \/ CallerSync

Answer(th) == CheckResponse(th) \/ SendResponse(th)

Next ==
    \/ MainThread
    \/ \E t \in Tasks : Worker(t)
    \/ \E th \in Threads : Answer(th)
    \/ RunCopy \/ BufferReadyFires
    \/ Consumed

\* Each thread, the stream and the event make progress whenever they can.
Fairness ==
    /\ WF_vars(MainThread)
    /\ \A t \in Tasks : WF_vars(Worker(t))
    /\ \A th \in Threads : WF_vars(Answer(th))
    /\ WF_vars(RunCopy) /\ WF_vars(BufferReadyFires)

Spec == Init /\ [][Next]_vars

FairSpec == Spec /\ Fairness
-----------------------------------------------------------------------------
MainType ==
    /\ pc \in {"begin", "submit", "finalize", "collect", "returned", "consumed"}
    /\ grp \in 1 .. Len(GroupSize) + 1 /\ seg \in Nat \ {0}
    /\ gets \in Nat /\ needSync \in BOOLEAN /\ rejects \in Nat

TaskType ==
    /\ count \in [Groups -> Nat]
    /\ status \in [Tasks -> {"new", "refused", "queued", "running", "last",
                             "copied", "put", "done"}]
    /\ pos \in [Tasks -> Nat]
    /\ cudaUsed \in [Groups -> BOOLEAN] /\ completion \in Seq(BOOLEAN)

DataType ==
    /\ pinned \in [Groups -> SUBSET Nat] /\ tensor \in [Groups -> SUBSET Nat]
    /\ stream \in Seq(Groups \X Nat) /\ failed \subseteq Groups \X Nat

RespType ==
    /\ todo \in [Threads -> SUBSET Requests] /\ checked \in [Threads -> BOOLEAN]
    /\ response \in [Requests -> BOOLEAN] /\ sent \in [Requests -> Nat]

EventType == eventSet \in BOOLEAN /\ bufferReady \in BOOLEAN

(***************************************************************************)
(* Type invariant of the collector's state and of the pool's tasks.  That  *)
(* incomplete_count never goes below zero is part of it.                   *)
(***************************************************************************)
TypeOK == MainType /\ TaskType /\ DataType /\ RespType /\ EventType

\* Segments of group g whose task has run fetch_sub on incomplete_count.
Finished(g) ==
    {k \in 1 .. GroupSize[g] :
        status[<<g, k>>] \in {"last", "copied", "put", "done"}}

\* Segments whose task saw the count go from 1 to 0.
Closers(g) ==
    {k \in 1 .. GroupSize[g] : status[<<g, k>>] \in {"last", "copied", "put"}}

(***************************************************************************)
(* "The last segmented task will start the next phase of the internal      *)
(* pinned buffer copy" (backend_input_collector.cc:692): once a task has   *)
(* taken the count to 0, every buffer of the group has been through        *)
(* SetInputTensor, whichever pool threads ran the segments.                *)
(***************************************************************************)
FinalCopyAfterStaging ==
    \A g \in Groups : Closers(g) # {} =>
        \A i \in 1 .. GroupSize[g] :
            \E k \in Finished(g) :
                i \in SegmentFirst(<<g, k>>) .. pos[<<g, k>>] - 1

(***************************************************************************)
(* A group puts at most one flag into completion_queue_, so Finalize()     *)
(* never takes the flag of one group for that of another; and after the    *)
(* last decrement, which deletes incomplete_count, no task of the group is *)
(* left to decrement it.                                                   *)
(***************************************************************************)
OneCloserPerGroup ==
    \A g \in Groups :
        /\ \A j, k \in Closers(g) : j = k
        /\ Closers(g) # {} =>
              \A k \in 1 .. GroupSize[g] :
                  status[<<g, k>>] \notin {"queued", "running"}

\* The tensor of group g is as it should be once the caller uses it.
GroupDelivered(g) ==
    <<g, 0>> \notin failed =>
        \A i \in 1 .. GroupSize[g] : <<g, i>> \notin failed => i \in tensor[g]

(***************************************************************************)
(* When the caller uses the tensors, every buffer whose copies all         *)
(* succeeded is there, from a pool thread's copy or the stream's: "After   *)
(* the above sync all the GPU->pinned copies are complete. Any deferred    *)
(* copies of pinned->CPU can now be done" (backend_input_collector.cc:373).*)
(***************************************************************************)
Delivered == pc = "consumed" => \A g \in Groups : GroupDelivered(g)

(***************************************************************************)
(* The same for the buffers that are staged in pinned memory by the CPU.   *)
(***************************************************************************)
HostDelivered ==
    pc = "consumed" =>
        \A g \in Groups : SourceType[g] # "GPU" => GroupDelivered(g)

(***************************************************************************)
(* If Finalize() returns false no copy to a tensor is in flight.           *)
(***************************************************************************)
QuietUnlessSync ==
    pc \in {"returned", "consumed"} /\ ~needSync =>
        \A j \in DOMAIN stream : stream[j][2] # 0

(***************************************************************************)
(* The tensor is written only after buffer_ready_event_ fired.             *)
(***************************************************************************)
TensorWrittenWhenReady ==
    [][tensor' # tensor => bufferReady]_vars

(***************************************************************************)
(* Finalize() returns, if no task was refused: every group eventually puts *)
(* its flag.                                                               *)
(***************************************************************************)
FinalizeReturns == <>(pc = "returned" \/ rejects > 0)
=============================================================================
