-------------------------- MODULE ResponseProtocol --------------------------
(***************************************************************************)
(* What a call of TRITONBACKEND_ModelInstanceExecute promises to Triton    *)
(* (src/examples/backends/recommended/src/recommended.cc): either it       *)
(* returns an error and answered nothing, so that Triton answers the       *)
(* requests, or it owns the requests, answers each one exactly once,       *)
(* releases it after that, and returns success.                            *)
(***************************************************************************)
CONSTANTS
    Calls,      \* calls of ModelInstanceExecute
    Requests    \* the requests of each call, by index

VARIABLES
    answer,     \* answer[c][q]: what request q of call c was answered with
    released,   \* released[c]: the requests given back to Triton
    result      \* result[c]: what the call returned, or "running"

vars == <<answer, released, result>>

Answers == {"none", "ok", "error"}
Results == {"running", "success", "error"}
-----------------------------------------------------------------------------
Init ==
    /\ answer = [c \in Calls |-> [q \in Requests |-> "none"]]
    /\ released = [c \in Calls |-> {}]
    /\ result = [c \in Calls |-> "running"]

\* Something went wrong before the requests were taken over.
Reject(c) ==
    /\ result[c] = "running"
    /\ \A q \in Requests : answer[c][q] = "none"
    /\ result' = [result EXCEPT ![c] = "error"]
    /\ UNCHANGED <<answer, released>>

\* Requests not answered yet get an answer, some or all at once.
Respond(c) ==
    /\ result[c] = "running"
    /\ \E a \in {"ok", "error"} :
          \E S \in SUBSET {q \in Requests : answer[c][q] = "none"} :
              answer' = [answer EXCEPT ![c] =
                            [q \in Requests |-> IF q \in S THEN a ELSE @[q]]]
    /\ UNCHANGED <<released, result>>

Release(c) ==
    /\ result[c] = "running"
    /\ \E q \in Requests \ released[c] :
          /\ answer[c][q] # "none"
          /\ released' = [released EXCEPT ![c] = @ \cup {q}]
    /\ UNCHANGED <<answer, result>>

Return(c) ==
    /\ result[c] = "running"
    /\ released[c] = Requests
    /\ result' = [result EXCEPT ![c] = "success"]
    /\ UNCHANGED <<answer, released>>

Next == \E c \in Calls : Reject(c) \/ Respond(c) \/ Release(c) \/ Return(c)

Spec == Init /\ [][Next]_vars
-----------------------------------------------------------------------------
TypeOK ==
    /\ answer \in [Calls -> [Requests -> Answers]]
    /\ released \in [Calls -> SUBSET Requests]
    /\ result \in [Calls -> Results]

(***************************************************************************)
(* A call that failed answered nobody and keeps nothing; a request given   *)
(* back was answered; a call that succeeded answered everybody.            *)
(***************************************************************************)
Settled ==
    \A c \in Calls :
        /\ result[c] = "error" =>
              \A q \in Requests : answer[c][q] = "none" /\ q \notin released[c]
        /\ \A q \in released[c] : answer[c][q] # "none"
        /\ result[c] = "success" => \A q \in Requests : answer[c][q] # "none"

(***************************************************************************)
(* An answer is never taken back or given again, and a request given back  *)
(* is gone.                                                                *)
(***************************************************************************)
AnswerIsFinal ==
    [][\A c \in Calls : \A q \in Requests :
          /\ answer[c][q] # "none" => answer'[c][q] = answer[c][q]
          /\ q \in released[c] => q \in released'[c]]_vars
=============================================================================
