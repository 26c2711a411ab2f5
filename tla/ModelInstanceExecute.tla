------------------------ MODULE ModelInstanceExecute ------------------------
(***************************************************************************)
(* TRITONBACKEND_ModelInstanceExecute of the recommended and the minimal   *)
(* backend (src/examples/backends), the pattern every batching backend     *)
(* follows: create the responses, gather the inputs, compute, find out the *)
(* output shape, scatter the outputs, send, report and release.  Calls of  *)
(* different instances run at the same time and share the ModelState.      *)
(*                                                                         *)
(* Abstractions: BackendInputCollector and BackendOutputResponder have     *)
(* modules of their own; here each answers any of the responses that are   *)
(* left with an error.  Sending a response does not fail.  A shape is the  *)
(* sequence of its parts, the batch dimension and the model's dimensions.  *)
(***************************************************************************)
EXTENDS Integers, Sequences

CONSTANTS
    Calls,         \* the calls Triton makes
    Instance,      \* Instance[c]: the model instance call c is for
    RequestCount,  \* request_count
    Backend,       \* Backend[c]: "recommended" or "minimal"
    Batching       \* SupportsFirstDimBatching: max_batch_size is not 0

Requests == 1 .. RequestCount

ASSUME InstanceAssumption == DOMAIN Instance = Calls
ASSUME RequestCountAssumption == RequestCount \in Nat \ {0}
ASSUME BackendAssumption == Backend \in [Calls -> {"recommended", "minimal"}]
ASSUME BatchingAssumption == Batching \in BOOLEAN

VARIABLES
    pc,          \* pc[c]: what the call does next
    created,     \* responses.size(), the turn of a loop after that
    live,        \* indices of the responses that are not null
    input,       \* what input_buffer points to
    shape,       \* the local tensor_shape
    shapeInit,   \* ModelState::shape_initialized_
    modelShape,  \* ModelState::shape_
    answer,      \* what each request was answered with
    reported,    \* the requests reported as successful
    released,    \* the requests released
    result       \* what the call returned

modelVars == <<shapeInit, modelShape>>
serverVars == <<answer, reported, released, result>>
vars == <<pc, created, live, input, shape, modelVars, serverVars>>
-----------------------------------------------------------------------------
BatchDim == IF Batching THEN <<"batch">> ELSE <<>>

\* The shape in the model configuration, with the batch dimension.
ConfiguredShape == BatchDim \o <<"dims">>

Init ==
    /\ pc = [c \in Calls |-> "idle"]
    /\ created = [c \in Calls |-> 0]
    /\ live = [c \in Calls |-> {}]
    /\ input = [c \in Calls |-> "unset"]
    /\ shape = [c \in Calls |-> <<>>]
    /\ shapeInit = FALSE /\ modelShape = <<>>
    /\ answer = [c \in Calls |-> [q \in Requests |-> "none"]]
    /\ reported = [c \in Calls |-> {}]
    /\ released = [c \in Calls |-> {}]
    /\ result = [c \in Calls |-> "running"]

Goto(c, from, to) == pc[c] = from /\ pc' = [pc EXCEPT ![c] = to]

\* mutant
RespondNotNull(c, S) ==
    /\ answer' = [answer EXCEPT ![c] =
                     [q \in Requests |->
                         IF q \in S \cap live[c] THEN "error" ELSE @[q]]]
    /\ UNCHANGED live
\* The responses in S that are not null are sent with an error.
RespondError(c, S) ==
    /\ answer' = [answer EXCEPT ![c] =
                     [q \in Requests |->
                         IF q \in S \cap live[c] THEN "error" ELSE @[q]]]
    /\ live' = [live EXCEPT ![c] = @ \ S]
-----------------------------------------------------------------------------
\* Triton never calls the same instance twice at the same time.
Running(c) == pc[c] \notin {"idle", "returned"}

Call(c) ==
    /\ \A d \in Calls : Instance[d] = Instance[c] => ~Running(d)
    /\ Goto(c, "idle", "create")
    /\ UNCHANGED <<created, live, input, shape, modelVars, serverVars>>

\* RETURN_IF_ERROR: the responses made so far stay as they are.
Fail(c) ==
    /\ Goto(c, "create", "returned")
    /\ created[c] < RequestCount
    /\ result' = [result EXCEPT ![c] = "error"]
    /\ UNCHANGED <<created, live, input, shape, modelVars, answer, reported,
                   released>>

ResponseNew(c) ==
    /\ Goto(c, "create", "create")
    /\ created[c] < RequestCount
    /\ created' = [created EXCEPT ![c] = @ + 1]
    /\ live' = [live EXCEPT ![c] = @ \cup {created[c] + 1}]
    /\ UNCHANGED <<input, shape, modelVars, serverVars>>

\* Gather; requests whose input cannot be read are answered.
Collect(c) ==
    /\ Goto(c, "create", "compute")
    /\ created[c] = RequestCount
    /\ \E S \in SUBSET live[c] : RespondError(c, S)
    /\ input' = [input EXCEPT ![c] = "batched"]
    /\ UNCHANGED <<created, shape, modelVars, reported, released, result>>

\* No memory for the batched tensor: input_buffer is the buffer of the
\* first request, left there by GetInputBufferIfContiguous.
CollectFails(c) ==
    /\ Goto(c, "create", "compute")
    /\ created[c] = RequestCount
    /\ RespondError(c, Requests)
    /\ input' = [input EXCEPT ![c] = "first"]
    /\ UNCHANGED <<created, shape, modelVars, reported, released, result>>

\* BufferAsTypedString reads input_buffer.
Compute(c) ==
    /\ Goto(c, "compute", "shape")
    /\ UNCHANGED <<created, live, input, shape, modelVars, serverVars>>
-----------------------------------------------------------------------------
(***************************************************************************)
(* ModelState::TensorShape, one statement per action; the minimal backend  *)
(* builds the shape in a local variable instead.                           *)
(***************************************************************************)
LocalShape(c) ==
    /\ Backend[c] = "minimal"
    /\ Goto(c, "shape", "scatter")
    /\ shape' = [shape EXCEPT ![c] = ConfiguredShape]
    /\ UNCHANGED <<created, live, input, modelVars, serverVars>>

CheckInitialized(c) ==
    /\ Backend[c] = "recommended"
    /\ Goto(c, "shape", IF shapeInit THEN "copy" ELSE "batch")
    /\ UNCHANGED <<created, live, input, shape, modelVars, serverVars>>

PushBatchDim(c) ==
    /\ Goto(c, "batch", "dims")
    /\ modelShape' = modelShape \o BatchDim
    /\ UNCHANGED <<created, live, input, shape, shapeInit, serverVars>>

InsertDims(c) ==
    /\ Goto(c, "dims", "flag")
    /\ modelShape' = Append(modelShape, "dims")
    /\ UNCHANGED <<created, live, input, shape, shapeInit, serverVars>>

\* mutant
FlagForgotten(c) ==
    /\ Goto(c, "flag", "copy")
    /\ UNCHANGED <<created, live, input, shape, modelVars, serverVars>>
SetInitialized(c) ==
    /\ Goto(c, "flag", "copy")
    /\ shapeInit' = TRUE
    /\ UNCHANGED <<created, live, input, shape, modelShape, serverVars>>

CopyShape(c) ==
    /\ Goto(c, "copy", "scatter")
    /\ shape' = [shape EXCEPT ![c] = modelShape]
    /\ UNCHANGED <<created, live, input, modelVars, serverVars>>
-----------------------------------------------------------------------------
\* created[c] counts the turns of the loops that follow.
Scatter(c) ==
    /\ Goto(c, "scatter", "send")
    /\ \E S \in SUBSET live[c] : RespondError(c, S)
    /\ created' = [created EXCEPT ![c] = 0]
    /\ UNCHANGED <<input, shape, modelVars, reported, released, result>>

Turn(c) == created[c] + 1

OneTurnMore(c) == Turn(c) > RequestCount  \* mutant
LastTurn(c) == Turn(c) = RequestCount

\* A response that is sent is not set to null.
Send(c) ==
    /\ Goto(c, "send", IF LastTurn(c) THEN "release" ELSE "send")
    /\ created' = [created EXCEPT ![c] =
                      IF LastTurn(c) THEN 0 ELSE Turn(c)]
    /\ answer' = IF Turn(c) \in live[c]
                 THEN [answer EXCEPT ![c][Turn(c)] = "ok"] ELSE answer
    /\ UNCHANGED <<live, input, shape, modelVars, reported, released, result>>

SuccessIfAnswered(c, q) == TRUE  \* mutant
Success(c, q) == q \in live[c]

\* Without statistics in the minimal backend.
Report(c, q) ==
    reported' = IF Backend[c] = "recommended" /\ Success(c, q)
                THEN [reported EXCEPT ![c] = @ \cup {q}] ELSE reported

\* mutant
ReleaseLive(c) ==
    /\ Goto(c, "release", IF LastTurn(c) THEN "return" ELSE "release")
    /\ created' = [created EXCEPT ![c] = Turn(c)]
    /\ Report(c, Turn(c))
    /\ released' = IF Turn(c) \in live[c]
                   THEN [released EXCEPT ![c] = @ \cup {Turn(c)}] ELSE released
    /\ UNCHANGED <<live, input, shape, modelVars, answer, result>>
Release(c) ==
    /\ Goto(c, "release", IF LastTurn(c) THEN "return" ELSE "release")
    /\ created' = [created EXCEPT ![c] = Turn(c)]
    /\ Report(c, Turn(c))
    /\ released' = [released EXCEPT ![c] = @ \cup {Turn(c)}]
    /\ UNCHANGED <<live, input, shape, modelVars, answer, result>>

Return(c) ==
    /\ Goto(c, "return", "returned")
    /\ result' = [result EXCEPT ![c] = "success"]
    /\ UNCHANGED <<created, live, input, shape, modelVars, answer, reported,
                   released>>

Terminating == (\A c \in Calls : pc[c] = "returned") /\ UNCHANGED vars

Execute(c) ==
    \/ Call(c) \/ Fail(c) \/ ResponseNew(c)
    \/ Collect(c) \/ CollectFails(c) \/ Compute(c)
    \/ LocalShape(c) \/ CheckInitialized(c) \/ PushBatchDim(c) \/ InsertDims(c)
    \/ SetInitialized(c) \/ CopyShape(c)
    \/ Scatter(c) \/ Send(c) \/ Release(c) \/ Return(c)

Next == (\E c \in Calls : Execute(c)) \/ Terminating

Spec == Init /\ [][Next]_vars
-----------------------------------------------------------------------------
Locations ==
    {"idle", "create", "compute", "shape", "batch", "dims", "flag", "copy",
     "scatter", "send", "release", "return", "returned"}

(***************************************************************************)
(* Types, with the loop counter never past the requests.                   *)
(***************************************************************************)
TypeOK ==
    /\ pc \in [Calls -> Locations]
    /\ created \in [Calls -> 0 .. RequestCount]
    /\ live \in [Calls -> SUBSET Requests]
    /\ input \in [Calls -> {"unset", "first", "batched"}]
    /\ shape \in [Calls -> Seq({"batch", "dims"})]
    /\ shapeInit \in BOOLEAN /\ modelShape \in Seq({"batch", "dims"})
    /\ answer \in [Calls -> [Requests -> {"none", "ok", "error"}]]
    /\ reported \in [Calls -> SUBSET Requests]
    /\ released \in [Calls -> SUBSET Requests]
    /\ result \in [Calls -> {"running", "success", "error"}]

\* Responses exist, and no request has been released yet.
Processing(c) ==
    pc[c] \in {"compute", "shape", "batch", "dims", "flag", "copy", "scatter"}

(***************************************************************************)
(* The convention the utilities live by: until the final loop, a response  *)
(* is null exactly if its request was answered, so nothing processes it    *)
(* again and nothing is forgotten.                                         *)
(***************************************************************************)
NullIffAnswered ==
    \A c \in Calls :
        Processing(c) =>
            \A q \in Requests : q \in live[c] <=> answer[c][q] = "none"

(***************************************************************************)
(* The statistics of a request released say success exactly if it was      *)
(* answered without an error.                                              *)
(***************************************************************************)
ReportedAsAnswered ==
    \A c \in Calls : Backend[c] = "recommended" =>
        \A q \in released[c] : q \in reported[c] <=> answer[c][q] = "ok"

(***************************************************************************)
(* The call keeps its promises to Triton, whatever fails and whatever the  *)
(* other instances do.                                                     *)
(***************************************************************************)
Protocol == INSTANCE ResponseProtocol
ProtocolKept == Protocol!Spec

(***************************************************************************)
(* An output that is returned has the shape of the model configuration.    *)
(***************************************************************************)
ShapeConfigured ==
    \A c \in Calls :
        (\E q \in Requests : answer[c][q] = "ok") => shape[c] = ConfiguredShape

(***************************************************************************)
(* An output that is returned was computed from the batched input tensor,  *)
(* never from what input_buffer was left to point to.                      *)
(***************************************************************************)
ComputedFromBatch ==
    \A c \in Calls :
        (\E q \in Requests : answer[c][q] = "ok") => input[c] = "batched"
=============================================================================
