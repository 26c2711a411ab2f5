---------------------------- MODULE BLSExecutor ----------------------------
(***************************************************************************)
(* The bls backend (src/examples/backends/bls/src): for each request of a  *)
(* batch BLSExecutor sends one inference to each of two other models,      *)
(* waits for both, and builds the response from their outputs.  Triton     *)
(* calls back from threads of its own, in any order: one callback frees an *)
(* inner request, the other one delivers its response to a future.         *)
(*                                                                         *)
(* Abstractions: tensors are left out but for which model's output was     *)
(* copied to a response.  Requests are never null.  Sending a response     *)
(* does not fail.  Undefined behaviour (a request deleted twice, a write    *)
(* through a null or unset pointer) either crashes the process, which ends *)
(* the behaviour there, or goes unnoticed, which is what is modelled.      *)
(***************************************************************************)
EXTENDS Integers, Sequences

CONSTANTS
    RequestCount,  \* request_count
    Faults,        \* the kinds of calls that may fail
    MaxFaults      \* bound: failing calls and inferences

Requests == 1 .. RequestCount
Models == {1, 2}            \* addsub_python and addsub_tf
Inner == Requests \X Models  \* the inferences sent on behalf of a request

FaultKinds == {"create", "ready", "new", "send", "infer", "output"}

ASSUME RequestCountAssumption == RequestCount \in Nat \ {0}
ASSUME FaultsAssumption == Faults \subseteq FaultKinds /\ MaxFaults \in Nat

VARIABLES
    pc,        \* what the thread in ProcessRequests does next
    r,         \* the request it is at
    m,         \* icount, as an element of Models
    irequest,  \* the inner request the pointer points to, if any
    inner,     \* inner[x]: the state of inner request x
    deletes,   \* deletes[x]: InferenceRequestDelete calls for x
    future,    \* future[x]: what the promise of x was set to
    freed,     \* inner responses that were deleted
    outputs,   \* outputs[q]: models whose output is in the response of q
    live,      \* requests whose response is not null
    wild,      \* requests processed through a null or unset pointer
    answer, reported, released, result,  \* what Triton sees
    faults     \* failures so far

innerVars == <<inner, deletes, future>>
serverVars == <<answer, reported, released, result>>
vars == <<pc, r, m, irequest, innerVars, freed, outputs, live, wild,
          serverVars, faults>>
-----------------------------------------------------------------------------
NoRequest == <<0, 0>>

Init ==
    /\ pc = "create" /\ r = 1 /\ m = 1 /\ irequest = NoRequest
    /\ inner = [x \in Inner |-> "none"]
    /\ deletes = [x \in Inner |-> 0]
    /\ future = [x \in Inner |-> "none"]
    /\ freed = {}
    /\ outputs = [q \in Requests |-> {}]
    /\ live = {} /\ wild = {}
    /\ answer = [q \in Requests |-> "none"]
    /\ reported = {} /\ released = {} /\ result = "running"
    /\ faults = 0

Fault(kind) ==
    /\ kind \in Faults /\ faults < MaxFaults
    /\ faults' = faults + 1

\* mutant
RespondNotNull ==
    /\ answer' = IF r \in live THEN [answer EXCEPT ![r] = "error"] ELSE answer
    /\ UNCHANGED <<live, reported, released, result>>

\* RESPOND_AND_SET_NULL_IF_ERROR for the request the thread is at.
RespondError ==
    /\ answer' = IF r \in live THEN [answer EXCEPT ![r] = "error"] ELSE answer
    /\ live' = live \ {r}
    /\ UNCHANGED <<reported, released, result>>

\* A loop over the requests goes on, or on to what follows it.
NextRequest(again, after) ==
    IF r = RequestCount THEN r' = 1 /\ pc' = after ELSE r' = r + 1 /\ pc' = again

NextExecute == NextRequest("ready", "answer") /\ m' = 1 /\ irequest' = NoRequest
-----------------------------------------------------------------------------
(***************************************************************************)
(* ProcessRequests creates the responses; one that cannot be created is    *)
(* null.                                                                   *)
(***************************************************************************)
CreateResponse ==
    /\ pc = "create" /\ NextRequest("create", "ready")
    /\ \/ live' = live \cup {r} /\ UNCHANGED faults
       \/ Fault("create") /\ UNCHANGED live
    /\ UNCHANGED <<m, irequest, innerVars, freed, outputs, wild, serverVars>>

(***************************************************************************)
(* BLSExecutor::Execute: both models must be ready and not decoupled.      *)
(***************************************************************************)
ModelsReady ==
    /\ pc = "ready" /\ pc' = "prepare"
    /\ UNCHANGED <<r, m, irequest, innerVars, freed, outputs, live, wild,
                   serverVars, faults>>

ModelsNotReady ==
    /\ pc = "ready" /\ Fault("ready")
    /\ RespondError /\ NextExecute
    /\ UNCHANGED <<innerVars, freed, outputs, wild>>

This == <<r, m>>

InferenceRequestNew ==
    /\ pc = "prepare" /\ pc' = "send"
    /\ irequest' = This
    /\ inner' = [inner EXCEPT ![This] = "made"]
    /\ UNCHANGED <<r, m, deletes, future, freed, outputs, live, wild,
                   serverVars, faults>>

\* Before it is assigned, irequest still points to the one sent before.
NewFails ==
    /\ pc = "prepare" /\ Fault("new") /\ pc' = "catch"
    /\ UNCHANGED <<r, m, irequest, innerVars, freed, outputs, live, wild,
                   serverVars>>

\* Filling the request, or ServerInferAsync, fails.
SendFails ==
    /\ pc = "send" /\ Fault("send") /\ pc' = "catch"
    /\ UNCHANGED <<r, m, irequest, innerVars, freed, outputs, live, wild,
                   serverVars>>

\* Triton owns the request from now on.
AsyncExecute ==
    /\ pc = "send"
    /\ inner' = [inner EXCEPT ![This] = "sent"]
    /\ future' = [future EXCEPT ![This] = "pending"]
    /\ IF m = 2 THEN m' = 1 /\ pc' = "get" ELSE m' = m + 1 /\ pc' = "prepare"
    /\ UNCHANGED <<r, irequest, deletes, freed, outputs, live, wild, serverVars,
                   faults>>

\* Deleting no request does nothing.
Catch ==
    /\ pc = "catch"
    /\ deletes' = IF irequest = NoRequest THEN deletes
                  ELSE [deletes EXCEPT ![irequest] = @ + 1]
    /\ RespondError /\ NextExecute
    /\ UNCHANGED <<inner, future, freed, outputs, wild, faults>>
-----------------------------------------------------------------------------
(***************************************************************************)
(* ConstructFinalResponse: take the inner responses in order.              *)
(***************************************************************************)
DontWait == pc = "get"  \* mutant
FutureReady == pc = "get" /\ future[This] # "pending"

\* An inner response that is an error ends the request, unanswered so far.
GetError ==
    /\ FutureReady /\ future[This] = "error"
    /\ freed' = freed \cup {This}
    /\ NextExecute
    /\ UNCHANGED <<innerVars, outputs, live, wild, serverVars, faults>>

FirstOnly == NextExecute  \* mutant
\* mutant
SameModel == IF m = 2 THEN NextExecute ELSE UNCHANGED <<m, pc, r, irequest>>
NextModel == IF m = 2 THEN NextExecute
             ELSE m' = m + 1 /\ UNCHANGED <<pc, r, irequest>>

\* With a null response there is no output to copy to.
GetOutput ==
    /\ FutureReady /\ future[This] # "error"
    /\ IF r \in live
       THEN outputs' = [outputs EXCEPT ![r] = @ \cup {m}] /\ UNCHANGED wild
       ELSE wild' = wild \cup {r} /\ UNCHANGED outputs
    /\ freed' = freed \cup {This}
    /\ NextModel
    /\ UNCHANGED <<innerVars, live, serverVars, faults>>

\* A call on the way to the output buffer fails, the calls after it and the
\* memcpy are made all the same.
GetOutputFails ==
    /\ FutureReady /\ future[This] # "error" /\ Fault("output")
    /\ RespondError
    /\ wild' = wild \cup {r}
    /\ freed' = freed \cup {This}
    /\ NextModel
    /\ UNCHANGED <<innerVars, outputs>>
-----------------------------------------------------------------------------
(***************************************************************************)
(* The end of ProcessRequests, and of ModelInstanceExecute.                *)
(***************************************************************************)
Answer ==
    /\ pc = "answer" /\ NextRequest("answer", "release")
    /\ answer' = IF r \in live THEN [answer EXCEPT ![r] = "ok"] ELSE answer
    /\ UNCHANGED <<m, irequest, innerVars, freed, outputs, live, wild, reported,
                   released, result, faults>>

AlwaysSuccess == TRUE  \* mutant
Success == r \in live

Release ==
    /\ pc = "release" /\ NextRequest("release", "return")
    /\ reported' = IF Success THEN reported \cup {r} ELSE reported
    /\ released' = released \cup {r}
    /\ UNCHANGED <<m, irequest, innerVars, freed, outputs, live, wild, answer,
                   result, faults>>

Return ==
    /\ pc = "return" /\ pc' = "done"
    /\ result' = "success"
    /\ UNCHANGED <<r, m, irequest, innerVars, freed, outputs, live, wild, answer,
                   reported, released, faults>>

Thread ==
    \/ CreateResponse \/ ModelsReady \/ ModelsNotReady
    \/ InferenceRequestNew \/ NewFails \/ SendFails \/ AsyncExecute \/ Catch
    \/ GetError \/ GetOutput \/ GetOutputFails
    \/ Answer \/ Release \/ Return
-----------------------------------------------------------------------------
(***************************************************************************)
(* The callbacks, from Triton's threads.                                   *)
(***************************************************************************)
InferRequestComplete(x) ==
    /\ inner[x] = "sent"
    /\ inner' = [inner EXCEPT ![x] = "complete"]
    /\ deletes' = [deletes EXCEPT ![x] = @ + 1]
    /\ UNCHANGED <<pc, r, m, irequest, future, freed, outputs, live, wild,
                   serverVars, faults>>

InferResponseComplete(x) ==
    /\ future[x] = "pending"
    /\ \/ future' = [future EXCEPT ![x] = "ok"] /\ UNCHANGED faults
       \/ future' = [future EXCEPT ![x] = "error"] /\ Fault("infer")
    /\ UNCHANGED <<pc, r, m, irequest, inner, deletes, freed, outputs, live,
                   wild, serverVars>>

Callback(x) == InferRequestComplete(x) \/ InferResponseComplete(x)

Terminating ==
    /\ pc = "done" /\ \A x \in Inner : inner[x] # "sent" /\ future[x] # "pending"
    /\ UNCHANGED vars

Next == Thread \/ (\E x \in Inner : Callback(x)) \/ Terminating

Spec == Init /\ [][Next]_vars

(***************************************************************************)
(* The thread runs, and Triton answers each inference it accepted.         *)
(***************************************************************************)
FairSpec ==
    /\ Spec /\ WF_vars(Thread)
    /\ \A x \in Inner : WF_vars(InferResponseComplete(x))
                        /\ WF_vars(InferRequestComplete(x))
-----------------------------------------------------------------------------
(***************************************************************************)
(* Types, with an inner request never used before it was made.             *)
(***************************************************************************)
TypeOK ==
    /\ pc \in {"create", "ready", "prepare", "send", "catch", "get", "answer",
               "release", "return", "done"}
    /\ r \in Requests /\ m \in Models
    /\ irequest \in Inner \cup {NoRequest}
    /\ inner \in [Inner -> {"none", "made", "sent", "complete"}]
    /\ deletes \in [Inner -> 0 .. 2]
    /\ future \in [Inner -> {"none", "pending", "ok", "error"}]
    /\ freed \subseteq {x \in Inner : future[x] \in {"ok", "error"}}
    /\ outputs \in [Requests -> SUBSET Models]
    /\ live \subseteq Requests /\ wild \subseteq Requests
    /\ answer \in [Requests -> {"none", "ok", "error"}]
    /\ reported \subseteq Requests /\ released \subseteq Requests
    /\ result \in {"running", "success"}
    /\ faults \in 0 .. MaxFaults

(***************************************************************************)
(* The backend keeps its promises to Triton: it owns the requests, answers *)
(* each once and releases it.  A request for which Triton could make no    *)
(* response counts as answered: there is nothing to send.                  *)
(***************************************************************************)
ResponseTried(q) == pc # "create" \/ q < r

Answered ==
    [q \in Requests |->
        IF answer[q] = "none" /\ q \notin live /\ ResponseTried(q)
        THEN "error" ELSE answer[q]]

Protocol == INSTANCE ResponseProtocol WITH
    Calls <- {"call"},
    answer <- [c \in {"call"} |-> Answered],
    released <- [c \in {"call"} |-> released],
    result <- [c \in {"call"} |-> result]
ProtocolKept == Protocol!Spec

(***************************************************************************)
(* A released request is reported as successful if it was answered without *)
(* an error, and only then.                                                *)
(***************************************************************************)
ReportedAsAnswered == \A q \in released : q \in reported <=> answer[q] = "ok"

(***************************************************************************)
(* A response holds an output only of an inference that succeeded, and     *)
(* when both are there the response is sent without an error; what is read *)
(* and deleted on the way has its type, an inner response is there.        *)
(***************************************************************************)
OutputsFromSuccess ==
    TypeOK /\ \A q \in Requests :
        /\ \A i \in outputs[q] : future[<<q, i>>] = "ok"
        /\ outputs[q] = Models => answer[q] # "error"

(***************************************************************************)
(* Whatever fails and however late the callbacks come, the waits for the   *)
(* futures end and all requests are released, unless the backend ran into  *)
(* undefined behaviour.                                                    *)
(***************************************************************************)
Undefined == wild # {} \/ \E x \in Inner : deletes[x] > 1

EverybodyReleased == <>(released = Requests \/ Undefined)

\* Both inferences of request q were sent, and neither failed.
Sound(q) ==
    \A i \in Models : /\ inner[<<q, i>>] \in {"sent", "complete"}
                      /\ future[<<q, i>>] # "error"

(***************************************************************************)
(* If both inferences succeeded, neither still runs on the inputs of the   *)
(* request when that is released, both their responses were deleted, and   *)
(* each inner request is deleted by its callback and by nobody else.       *)
(***************************************************************************)
NothingLeft ==
    \A q \in released : Sound(q) =>
        \A i \in Models :
            /\ <<q, i>> \in freed
            /\ deletes[<<q, i>>] = IF inner[<<q, i>>] = "complete" THEN 1 ELSE 0

(***************************************************************************)
(* A request answered without an error has both outputs: "If something     *)
(* does go wrong in processing a particular request then we send an error  *)
(* response just for the specific request" (backend.cc:281).               *)
(***************************************************************************)
SuccessIsComplete ==
    \A q \in Requests : answer[q] = "ok" => outputs[q] = Models
=============================================================================
