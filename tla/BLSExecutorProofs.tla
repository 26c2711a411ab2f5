-------------------------- MODULE BLSExecutorProofs --------------------------
(***************************************************************************)
(* The bls backend keeps its promises for any number of requests, whatever *)
(* fails and however often, and in any order of Triton's callbacks.        *)
(***************************************************************************)
EXTENDS BLSExecutor, TLAPS

Locations == {"create", "ready", "prepare", "send", "catch", "get", "answer",
              "release", "return", "done"}

(***************************************************************************)
(* Requests that BLSExecutor::Execute was not called for yet, the one it   *)
(* is called for, and those it was called for.                             *)
(***************************************************************************)
Executing == pc \in {"ready", "prepare", "send", "catch", "get"}
Ahead(q) == pc = "create" \/ (Executing /\ q > r)
Now(q) == Executing /\ q = r
Behind(q) == pc \in {"answer", "release", "return", "done"} \/ (Executing /\ q < r)

\* How far an inner request got.
Untried(x) == inner[x] = "none" /\ future[x] = "none" /\ deletes[x] = 0
Made(x) == inner[x] = "made" /\ future[x] = "none" /\ deletes[x] = 0
ByCallback(x) == IF inner[x] = "complete" THEN 1 ELSE 0
Sent(x) ==
    inner[x] \in {"sent", "complete"} /\ future[x] # "none" /\ deletes[x] = ByCallback(x)

AheadInv(q) == Untried(<<q, 1>>) /\ Untried(<<q, 2>>) /\ outputs[q] = {}

NowInv(q) ==
    /\ pc = "ready" => AheadInv(q) /\ m = 1 /\ irequest = NoRequest
    /\ m = 2 => Sent(<<q, 1>>)
    /\ pc = "prepare" => Untried(<<q, 2>>) /\ (m = 1 => Untried(<<q, 1>>))
    /\ pc = "send" => Made(<<q, m>>) /\ (m = 1 => Untried(<<q, 2>>))
    /\ pc = "catch" =>
           (Made(<<q, m>>) \/ Untried(<<q, m>>)) /\ (m = 1 => Untried(<<q, 2>>))
    /\ pc = "get" =>
           Sent(<<q, 1>>) /\ Sent(<<q, 2>>) /\ (m = 2 => <<q, 1>> \in freed)
    /\ irequest \in {NoRequest, <<q, 1>>, <<q, 2>>}
    /\ outputs[q] \subseteq (IF pc = "get" /\ m = 2 THEN {1} ELSE {})

BehindInv(q) ==
    /\ \A i \in Models : deletes[<<q, i>>] <= ByCallback(<<q, i>>) + 1
    /\ Sound(q) => \A i \in Models :
           <<q, i>> \in freed /\ deletes[<<q, i>>] = ByCallback(<<q, i>>)

RequestInv(q) ==
    /\ Ahead(q) => AheadInv(q)
    /\ Now(q) => NowInv(q)
    /\ Behind(q) => BehindInv(q)

\* A response that is left was not sent, until the last loop sends it.
AnswerSent(q) == pc \in {"release", "return", "done"} \/ (pc = "answer" /\ q < r)
AnswerInv(q) ==
    /\ q \in live => answer[q] = IF AnswerSent(q) THEN "ok" ELSE "none"
    /\ answer[q] = "ok" => AnswerSent(q) /\ q \in live
    /\ pc = "create" => answer[q] = "none" /\ (q >= r => q \notin live)
    /\ outputs[q] = Models => answer[q] # "error"
    /\ \A i \in outputs[q] : future[<<q, i>>] = "ok"

ReleaseInv ==
    /\ released = CASE pc = "release" -> 1 .. r - 1
                    [] pc \in {"return", "done"} -> Requests
                    [] OTHER -> {}
    /\ reported = {q \in released : answer[q] = "ok"}
    /\ result = "running" <=> pc # "done"

\* TypeOK, but for the bound on the deletions, which the rest implies.
BasicTypes ==
    /\ pc \in Locations /\ r \in Requests /\ m \in Models
    /\ irequest \in Inner \cup {NoRequest}
    /\ inner \in [Inner -> {"none", "made", "sent", "complete"}]
    /\ deletes \in [Inner -> Nat]
    /\ future \in [Inner -> {"none", "pending", "ok", "error"}]
    /\ freed \subseteq {x \in Inner : future[x] \in {"ok", "error"}}
    /\ outputs \in [Requests -> SUBSET Models]
    /\ live \subseteq Requests /\ wild \subseteq Requests
    /\ answer \in [Requests -> {"none", "ok", "error"}]
    /\ reported \subseteq Requests /\ released \subseteq Requests
    /\ result \in {"running", "success"}
    /\ faults \in 0 .. MaxFaults

IInv ==
    /\ BasicTypes /\ (pc = "create" => m = 1 /\ irequest = NoRequest)
    /\ \A q \in Requests : RequestInv(q) /\ AnswerInv(q)
    /\ ReleaseInv
-----------------------------------------------------------------------------
LEMMA RequestsFacts ==
    /\ 1 \in Requests /\ RequestCount \in Requests /\ RequestCount \in Nat
    /\ \A q \in Requests : q \in Nat /\ 1 <= q /\ q <= RequestCount
    /\ \A q \in Requests : q # RequestCount => q + 1 \in Requests
    /\ Models = {1, 2} /\ \A q \in Requests : <<q, 1>> \in Inner /\ <<q, 2>> \in Inner
BY RequestCountAssumption DEF Requests, Models, Inner

LEMMA InitInv == Init => IInv
<1> SUFFICES ASSUME Init PROVE IInv
    OBVIOUS
<1>1. BasicTypes
    <2>1. faults \in 0 .. MaxFaults
        BY FaultsAssumption DEF Init
    <2> QED BY <2>1, RequestsFacts DEF Init, BasicTypes, Locations, Models
<1>2. ASSUME NEW q \in Requests PROVE RequestInv(q) /\ AnswerInv(q)
    BY RequestsFacts DEF Init, RequestInv, Ahead, Now, Behind, Executing, AheadInv, Untried,
       AnswerInv, AnswerSent
<1>3. ReleaseInv
    BY DEF Init, ReleaseInv
<1> QED BY <1>1, <1>2, <1>3 DEF Init, IInv

LEMMA NextRequestFacts ==
    ASSUME BasicTypes, NEW again, NEW after, NextRequest(again, after)
    PROVE  \/ /\ r = RequestCount /\ r' = 1 /\ pc' = after
              /\ \A q \in Requests : q <= r
           \/ r # RequestCount /\ r' = r + 1 /\ pc' = again /\ r' \in Requests
BY RequestsFacts DEF BasicTypes, NextRequest

\* Leaving BLSExecutor::Execute, with the data of the other requests untouched.
LEMMA NextExecuteStep ==
    ASSUME IInv, Executing, NextExecute, NEW p \in Requests, p = r, BehindInv(p)',
           \A q \in Requests \ {p} : \A i \in Models :
               /\ inner'[<<q, i>>] = inner[<<q, i>>] /\ future'[<<q, i>>] = future[<<q, i>>]
               /\ deletes'[<<q, i>>] = deletes[<<q, i>>]
               /\ <<q, i>> \in freed => <<q, i>> \in freed',
           \A q \in Requests \ {p} : outputs'[q] = outputs[q]
    PROVE  /\ r' \in Requests /\ pc' \in {"ready", "answer"} /\ m' = 1 /\ irequest' = NoRequest
           /\ pc' = "answer" => r' = 1
           /\ \A q \in Requests : RequestInv(q)'
<1>1. /\ r' \in Requests /\ m' = 1 /\ irequest' = NoRequest
      /\ \/ r' = 1 /\ pc' = "answer" /\ (\A q \in Requests : q <= r)
         \/ r' = r + 1 /\ pc' = "ready"
    BY NextRequestFacts, RequestsFacts DEF NextExecute, IInv
<1>2. r \in Nat /\ \A q \in Requests : q \in Nat
    BY RequestsFacts DEF IInv, BasicTypes
<1>3. ASSUME NEW q \in Requests PROVE RequestInv(q)'
    <2>1. RequestInv(q) /\ RequestInv(r)
        BY DEF IInv, BasicTypes
    <2>2. CASE q < r \/ q = r
        <3>1. BehindInv(q)'
            <4>1. CASE q = r
                BY <4>1
            <4>2. CASE q < r
                <5>1. BehindInv(q)
                    BY <2>1, <4>2, <1>2 DEF RequestInv, Behind
                <5>2. q # r
                    BY <4>2, <1>2
                <5> QED BY <5>1, <5>2 DEF BehindInv, Sound, ByCallback
            <4> QED BY <2>2, <4>1, <4>2
        <3>2. ~Ahead(q)' /\ ~Now(q)'
            BY <1>1, <1>2, <2>2 DEF Ahead, Now, Executing
        <3> QED BY <3>1, <3>2 DEF RequestInv
    <2>3. CASE q > r
        <3>1. q # r /\ pc' = "ready" /\ ~Behind(q)'
            BY <1>1, <1>2, <2>3 DEF Behind, Executing
        <3>2. AheadInv(q)
            BY <2>1, <2>3 DEF RequestInv, Ahead
        <3>3. AheadInv(q)'
            BY <3>1, <3>2 DEF AheadInv, Untried, Models
        <3>4. NowInv(q)'
            BY <1>1, <3>1, <3>3 DEF NowInv, AheadInv
        <3> QED BY <3>1, <3>3, <3>4 DEF RequestInv
    <2> QED BY <1>2, <2>2, <2>3
<1> QED BY <1>1, <1>3

\* The response of the request at hand gets an error, if it is left.
LEMMA RespondErrorFacts ==
    ASSUME IInv, RespondError, NEW p \in Requests, p = r
    PROVE  /\ answer' \in [Requests -> {"none", "ok", "error"}] /\ live' = live \ {p}
           /\ answer'[p] = IF p \in live THEN "error" ELSE answer[p]
           /\ \A q \in Requests \ {p} : answer'[q] = answer[q]
           /\ UNCHANGED <<reported, released, result>>
BY DEF IInv, BasicTypes, RespondError

\* What answering that request with an error means for the invariant.
LEMMA ErrorStep ==
    ASSUME IInv, Executing, RespondError, NEW p \in Requests, p = r,
           pc' \in {"ready", "prepare", "send", "catch", "get"} \/ (pc' = "answer" /\ r' = 1),
           outputs' = outputs, outputs[p] # Models, future' = future
    PROVE  /\ \A q \in Requests : AnswerInv(q)'
           /\ ReleaseInv'
<1>1. ASSUME NEW q \in Requests PROVE AnswerInv(q)'
    <2>1. AnswerInv(q) /\ AnswerInv(p)
        BY DEF IInv
    <2>2. ~AnswerSent(q) /\ ~AnswerSent(q)'
        BY RequestsFacts DEF Executing, AnswerSent
    <2> QED BY <2>1, <2>2, RespondErrorFacts DEF AnswerInv, Executing
<1>2. released = {} /\ pc # "done"
    BY DEF Executing, IInv, ReleaseInv
<1>3. ReleaseInv'
    BY <1>2, RespondErrorFacts DEF IInv, ReleaseInv
<1> QED BY <1>1, <1>3

LEMMA CreateStep == ASSUME IInv, CreateResponse PROVE IInv'
<1>1. /\ pc = "create"
      /\ UNCHANGED <<m, irequest, inner, deletes, future, freed, outputs, wild, answer,
                     reported, released, result>>
      /\ \/ live' = live \cup {r} /\ UNCHANGED faults
         \/ live' = live /\ faults' \in 0 .. MaxFaults
    BY FaultsAssumption DEF CreateResponse, innerVars, serverVars, Fault, IInv, BasicTypes
<1>2. \/ /\ r = RequestCount /\ r' = 1 /\ pc' = "ready"
         /\ \A q \in Requests : q <= r
      \/ r # RequestCount /\ r' = r + 1 /\ pc' = "create" /\ r' \in Requests
    BY NextRequestFacts DEF CreateResponse, IInv
<1>3. BasicTypes'
    BY <1>1, <1>2, RequestsFacts DEF IInv, BasicTypes, Locations
<1>4. ASSUME NEW q \in Requests PROVE RequestInv(q)' /\ AnswerInv(q)'
    <2>1. AheadInv(q) /\ AnswerInv(q)
        BY <1>1 DEF IInv, RequestInv, Ahead
    <2>2. AheadInv(q)'
        BY <1>1, <2>1 DEF AheadInv, Untried
    <2>3. ~Behind(q)'
        BY <1>2, RequestsFacts DEF Behind, Executing
    <2>4. Now(q)' => NowInv(q)'
        BY <1>1, <1>2, <2>2 DEF IInv, Now, NowInv, AheadInv, Executing
    <2>5. AnswerInv(q)'
        BY <1>1, <1>2, <2>1, RequestsFacts DEF IInv, BasicTypes, AnswerInv, AnswerSent
    <2> QED BY <2>2, <2>3, <2>4, <2>5 DEF RequestInv
<1>5. ReleaseInv'
    BY <1>1, <1>2 DEF IInv, ReleaseInv
<1> QED BY <1>1, <1>2, <1>3, <1>4, <1>5 DEF IInv

\* The steps of a request in BLSExecutor::Execute but for those that leave it: the other
\* requests are as they were.
LEMMA SameRequestStep ==
    ASSUME IInv, Executing, r' = r, NEW p \in Requests, p = r,
           pc' \in {"prepare", "send", "catch", "get"}, NowInv(p)',
           \A q \in Requests \ {p} : \A i \in Models :
               /\ inner'[<<q, i>>] = inner[<<q, i>>] /\ future'[<<q, i>>] = future[<<q, i>>]
               /\ deletes'[<<q, i>>] = deletes[<<q, i>>]
               /\ <<q, i>> \in freed => <<q, i>> \in freed',
           \A q \in Requests \ {p} : outputs'[q] = outputs[q]
    PROVE  \A q \in Requests : RequestInv(q)'
<1>1. ASSUME NEW q \in Requests, q # p PROVE RequestInv(q)'
    <2>1. /\ Ahead(q)' <=> Ahead(q)
          /\ Behind(q)' <=> Behind(q)
          /\ ~Now(q)'
        BY <1>1 DEF Ahead, Behind, Now, Executing
    <2>2. RequestInv(q)
        BY DEF IInv
    <2>3. AheadInv(q) => AheadInv(q)'
        BY <1>1 DEF AheadInv, Untried, Models
    <2>4. BehindInv(q) => BehindInv(q)'
        BY <1>1 DEF BehindInv, Sound, ByCallback
    <2> QED BY <2>1, <2>2, <2>3, <2>4 DEF RequestInv
<1>2. RequestInv(p)'
    <2>1. ~Ahead(p)' /\ ~Behind(p)'
        BY RequestsFacts DEF Ahead, Behind, Executing
    <2> QED BY <2>1 DEF RequestInv
<1> QED BY <1>1, <1>2

\* A step that answers nobody and releases nothing keeps what is said of the answers.
LEMMA SilentStep ==
    ASSUME IInv, Executing, UNCHANGED <<live, answer, reported, released, result>>,
           pc' \in {"ready", "prepare", "send", "catch", "get"} \/ (pc' = "answer" /\ r' = 1),
           \A q \in Requests : \A i \in outputs'[q] : future'[<<q, i>>] = "ok",
           \A q \in Requests : outputs'[q] = outputs[q] \/ q \in live
    PROVE  /\ \A q \in Requests : AnswerInv(q)'
           /\ ReleaseInv'
<1>1. ASSUME NEW q \in Requests PROVE AnswerInv(q)'
    <2>1. AnswerInv(q)
        BY DEF IInv
    <2>2. ~AnswerSent(q) /\ ~AnswerSent(q)'
        BY RequestsFacts DEF Executing, AnswerSent
    <2> QED BY <2>1, <2>2 DEF AnswerInv, Executing
<1>2. ReleaseInv'
    BY DEF Executing, IInv, ReleaseInv
<1> QED BY <1>1, <1>2
-----------------------------------------------------------------------------
\* What the invariant says of the request at hand.
LEMMA NowFacts ==
    ASSUME IInv, Executing
    PROVE  /\ r \in Requests /\ NowInv(r) /\ AnswerInv(r) /\ m \in {1, 2}
           /\ r \in live => answer[r] = "none"
           /\ \A q \in Requests : AnswerInv(q)
<1>1. r \in Requests /\ RequestInv(r) /\ AnswerInv(r) /\ m \in {1, 2}
    BY DEF IInv, BasicTypes, Models
<1>2. ~AnswerSent(r)
    BY DEF Executing, AnswerSent
<1> QED BY <1>1, <1>2 DEF RequestInv, Now, AnswerInv, IInv

LEMMA FaultFacts ==
    ASSUME IInv, NEW kind, Fault(kind) PROVE faults' \in 0 .. MaxFaults
BY FaultsAssumption DEF IInv, BasicTypes, Fault

LEMMA ReadyStep == ASSUME IInv, ModelsReady PROVE IInv'
<1>1. Executing /\ r \in Requests /\ NowInv(r)
    BY NowFacts DEF ModelsReady, Executing
<1> PICK n \in Requests : n = r
    BY <1>1
<1>2. NowInv(n)'
    BY <1>1 DEF ModelsReady, NowInv, AheadInv, Untried, innerVars
<1>3. \A q \in Requests : RequestInv(q)'
    BY <1>1, <1>2, SameRequestStep DEF ModelsReady, innerVars
<1>4. (\A q \in Requests : AnswerInv(q)') /\ ReleaseInv'
    BY <1>1, SilentStep DEF ModelsReady, serverVars, innerVars, IInv, AnswerInv
<1>5. BasicTypes'
    BY DEF ModelsReady, serverVars, innerVars, IInv, BasicTypes, Locations
<1> QED BY <1>3, <1>4, <1>5 DEF IInv, ModelsReady

LEMMA NotReadyStep == ASSUME IInv, ModelsNotReady PROVE IInv'
<1>1. Executing /\ r \in Requests /\ NowInv(r) /\ pc = "ready"
    BY NowFacts DEF ModelsNotReady, Executing
<1> PICK n \in Requests : n = r
    BY <1>1
<1>2. BehindInv(n)'
    BY <1>1 DEF ModelsNotReady, NowInv, AheadInv, Untried, innerVars, BehindInv, Sound, Models,
                ByCallback
<1>3. /\ r' \in Requests /\ pc' \in {"ready", "answer"} /\ m' = 1 /\ irequest' = NoRequest
      /\ pc' = "answer" => r' = 1
      /\ \A q \in Requests : RequestInv(q)'
    BY <1>1, <1>2, NextExecuteStep DEF ModelsNotReady, innerVars
<1>4. outputs[n] # Models
    BY <1>1 DEF NowInv, Models
<1>5. (\A q \in Requests : AnswerInv(q)') /\ ReleaseInv'
    BY <1>1, <1>3, <1>4, ErrorStep DEF ModelsNotReady, innerVars
<1>6. BasicTypes'
    <2>1. faults' \in 0 .. MaxFaults
        BY FaultFacts DEF ModelsNotReady
    <2> QED BY <1>3, <2>1, RespondErrorFacts
            DEF ModelsNotReady, innerVars, IInv, BasicTypes, Locations, Models
<1> QED BY <1>3, <1>5, <1>6 DEF IInv

LEMMA NewStep == ASSUME IInv, InferenceRequestNew PROVE IInv'
<1>1. Executing /\ r \in Requests /\ NowInv(r) /\ m \in {1, 2}
    BY NowFacts DEF InferenceRequestNew, Executing
<1> PICK n \in Requests : n = r
    BY <1>1
<1>2. /\ inner' = [inner EXCEPT ![<<n, m>>] = "made"] /\ irequest' = <<n, m>>
      /\ <<n, 1>> \in Inner /\ <<n, 2>> \in Inner
      /\ inner \in [Inner -> {"none", "made", "sent", "complete"}]
    BY RequestsFacts DEF InferenceRequestNew, This, IInv, BasicTypes
<1>3. NowInv(n)'
    BY <1>1, <1>2 DEF InferenceRequestNew, NowInv, Untried, Made, Sent, ByCallback
<1>4. \A q \in Requests : RequestInv(q)'
    BY <1>1, <1>2, <1>3, SameRequestStep DEF InferenceRequestNew, Inner
<1>5. (\A q \in Requests : AnswerInv(q)') /\ ReleaseInv'
    BY <1>1, SilentStep DEF InferenceRequestNew, serverVars, IInv, AnswerInv
<1>6. BasicTypes'
    BY <1>1, <1>2 DEF InferenceRequestNew, serverVars, IInv, BasicTypes, Locations
<1> QED BY <1>4, <1>5, <1>6 DEF IInv, InferenceRequestNew

LEMMA FailStep == ASSUME IInv, NewFails \/ SendFails PROVE IInv'
<1>1. Executing /\ r \in Requests /\ NowInv(r) /\ m \in {1, 2}
    BY NowFacts DEF NewFails, SendFails, Executing
<1> PICK n \in Requests : n = r
    BY <1>1
<1>2. NowInv(n)'
    BY <1>1 DEF NewFails, SendFails, NowInv, Untried, Made, Sent, ByCallback, innerVars
<1>3. \A q \in Requests : RequestInv(q)'
    BY <1>1, <1>2, SameRequestStep DEF NewFails, SendFails, innerVars
<1>4. (\A q \in Requests : AnswerInv(q)') /\ ReleaseInv'
    BY <1>1, SilentStep DEF NewFails, SendFails, serverVars, innerVars, IInv, AnswerInv
<1>5. BasicTypes'
    <2>1. faults' \in 0 .. MaxFaults
        BY FaultFacts DEF NewFails, SendFails
    <2> QED BY <2>1 DEF NewFails, SendFails, serverVars, innerVars, IInv, BasicTypes, Locations
<1> QED BY <1>3, <1>4, <1>5 DEF IInv, NewFails, SendFails

LEMMA SendStep == ASSUME IInv, AsyncExecute PROVE IInv'
<1>1. Executing /\ r \in Requests /\ NowInv(r) /\ m \in {1, 2} /\ pc = "send"
    BY NowFacts DEF AsyncExecute, Executing
<1> PICK n \in Requests : n = r
    BY <1>1
<1>2. /\ inner' = [inner EXCEPT ![<<n, m>>] = "sent"]
      /\ future' = [future EXCEPT ![<<n, m>>] = "pending"]
      /\ <<n, 1>> \in Inner /\ <<n, 2>> \in Inner
      /\ inner \in [Inner -> {"none", "made", "sent", "complete"}]
      /\ future \in [Inner -> {"none", "pending", "ok", "error"}]
      /\ Made(<<n, m>>)
    BY <1>1, RequestsFacts DEF AsyncExecute, This, IInv, BasicTypes, NowInv
<1>3. NowInv(n)'
    BY <1>1, <1>2 DEF AsyncExecute, NowInv, Untried, Made, Sent, ByCallback
<1>4. \A q \in Requests : RequestInv(q)'
    BY <1>1, <1>2, <1>3, SameRequestStep DEF AsyncExecute, Inner
<1>5. (\A q \in Requests : AnswerInv(q)') /\ ReleaseInv'
    <2>1. \A q \in Requests : \A i \in outputs[q] : future'[<<q, i>>] = "ok"
        <3>1. outputs[n] = {}
            BY <1>1 DEF NowInv
        <3>2. ASSUME NEW q \in Requests, NEW i \in outputs[q]
              PROVE  future'[<<q, i>>] = "ok"
            <4>1. i \in Models /\ q # n
                BY <3>1 DEF IInv, BasicTypes
            <4>2. future[<<q, i>>] = "ok"
                BY DEF IInv, AnswerInv
            <4> QED BY <1>2, <4>1, <4>2 DEF Inner
        <3> QED BY <3>2
    <2> QED BY <1>1, <2>1, SilentStep DEF AsyncExecute, serverVars
<1>6. BasicTypes'
    <2>1. <<n, m>> \notin freed
        BY <1>2 DEF IInv, BasicTypes, Made
    <2>2. freed' \subseteq {x \in Inner : future'[x] \in {"ok", "error"}}
        BY <1>2, <2>1 DEF AsyncExecute, IInv, BasicTypes
    <2>3. m' \in Models /\ pc' \in Locations /\ r' = r
        BY <1>1 DEF AsyncExecute, Locations, Models
    <2>4. /\ inner' \in [Inner -> {"none", "made", "sent", "complete"}]
          /\ future' \in [Inner -> {"none", "pending", "ok", "error"}]
        BY <1>1, <1>2
    <2> QED BY <2>2, <2>3, <2>4 DEF AsyncExecute, serverVars, IInv, BasicTypes
<1> QED BY <1>4, <1>5, <1>6 DEF IInv, AsyncExecute

LEMMA CatchStep == ASSUME IInv, Catch PROVE IInv'
<1>1. Executing /\ r \in Requests /\ NowInv(r) /\ m \in {1, 2} /\ pc = "catch"
    BY NowFacts DEF Catch, Executing
<1> PICK n \in Requests : n = r
    BY <1>1
<1>2. /\ <<n, 1>> \in Inner /\ <<n, 2>> \in Inner /\ deletes \in [Inner -> Nat]
      /\ irequest \in {NoRequest, <<n, 1>>, <<n, 2>>}
    BY <1>1, RequestsFacts DEF IInv, BasicTypes, NowInv
<1>3. /\ \A x \in Inner : deletes'[x] = deletes[x] \/ deletes'[x] = deletes[x] + 1
      /\ \A q \in Requests \ {n} : \A i \in Models : deletes'[<<q, i>>] = deletes[<<q, i>>]
      /\ deletes' \in [Inner -> Nat]
    BY <1>2 DEF Catch, Inner, NoRequest
<1>4. BehindInv(n)'
    <2>1. /\ \A i \in Models : Untried(<<n, i>>) \/ Made(<<n, i>>) \/ Sent(<<n, i>>)
          /\ \E i \in Models : inner[<<n, i>>] \in {"none", "made"}
        BY <1>1 DEF NowInv, Untried, Made, Models
    <2>2. \A i \in Models : deletes[<<n, i>>] = ByCallback(<<n, i>>)
        BY <2>1 DEF Untried, Made, Sent, ByCallback
    <2>3. ~Sound(n)'
        BY <2>1 DEF Sound, Catch
    <2>4. \A i \in Models : deletes'[<<n, i>>] <= ByCallback(<<n, i>>) + 1
        BY <1>2, <1>3, <2>2 DEF Models, ByCallback
    <2> QED BY <2>3, <2>4 DEF BehindInv, ByCallback, Catch
<1>5. /\ r' \in Requests /\ pc' \in {"ready", "answer"} /\ m' = 1 /\ irequest' = NoRequest
      /\ pc' = "answer" => r' = 1
      /\ \A q \in Requests : RequestInv(q)'
    BY <1>1, <1>3, <1>4, NextExecuteStep DEF Catch
<1>6. outputs[n] # Models
    BY <1>1 DEF NowInv, Models
<1>7. (\A q \in Requests : AnswerInv(q)') /\ ReleaseInv'
    BY <1>1, <1>5, <1>6, ErrorStep DEF Catch
<1>8. BasicTypes'
    BY <1>3, <1>5, RespondErrorFacts DEF Catch, IInv, BasicTypes, Locations, Models
<1> QED BY <1>5, <1>7, <1>8 DEF IInv

\* Taking one of the two inner responses, and what it adds to the outputs.
LEMMA TakeStep ==
    ASSUME IInv, FutureReady, future[This] # "error", freed' = freed \cup {This}, NextModel,
           UNCHANGED innerVars, NEW n \in Requests, n = r,
           outputs'[n] \subseteq outputs[n] \cup {m},
           \A q \in Requests \ {n} : outputs'[q] = outputs[q]
    PROVE  /\ \A q \in Requests : RequestInv(q)'
           /\ r' \in Requests /\ m' \in Models /\ irequest' \in Inner \cup {NoRequest}
           /\ \/ pc' \in {"ready", "get"}
              \/ pc' = "answer" /\ r' = 1
           /\ freed' \subseteq {x \in Inner : future'[x] \in {"ok", "error"}}
<1>1. /\ Executing /\ r \in Requests /\ NowInv(r) /\ m \in {1, 2} /\ pc = "get"
      /\ This = <<n, m>> /\ <<n, 1>> \in Inner /\ <<n, 2>> \in Inner
      /\ UNCHANGED <<inner, deletes, future>>
    BY NowFacts, RequestsFacts DEF FutureReady, Executing, This, innerVars
<1>2. /\ Sent(<<n, 1>>) /\ Sent(<<n, 2>>) /\ (m = 2 => <<n, 1>> \in freed)
      /\ outputs[n] \subseteq (IF m = 2 THEN {1} ELSE {})
    BY <1>1 DEF NowInv
<1>3. freed' \subseteq {x \in Inner : future'[x] \in {"ok", "error"}}
    <2>1. future[This] \in {"ok", "error"}
        BY <1>1, <1>2 DEF FutureReady, Sent, IInv, BasicTypes
    <2> QED BY <1>1, <2>1 DEF IInv, BasicTypes
<1>4. CASE m = 1
    <2>1. m' = 2 /\ UNCHANGED <<pc, r, irequest>>
        BY <1>4 DEF NextModel
    <2>2. NowInv(n)'
        BY <1>1, <1>2, <1>4, <2>1 DEF NowInv, Sent, ByCallback
    <2>3. \A q \in Requests : RequestInv(q)'
        BY <1>1, <2>1, <2>2, SameRequestStep
    <2> QED BY <1>1, <1>3, <2>1, <2>3 DEF IInv, BasicTypes, Models
<1>5. CASE m = 2
    <2>1. NextExecute
        BY <1>5 DEF NextModel
    <2>2. BehindInv(n)'
        BY <1>1, <1>2, <1>5 DEF BehindInv, Sent, ByCallback, Models
    <2>3. /\ r' \in Requests /\ pc' \in {"ready", "answer"} /\ m' = 1 /\ irequest' = NoRequest
          /\ pc' = "answer" => r' = 1
          /\ \A q \in Requests : RequestInv(q)'
        BY <1>1, <2>1, <2>2, NextExecuteStep
    <2> QED BY <1>3, <2>3 DEF Models
<1> QED BY <1>1, <1>4, <1>5

LEMMA GetOutputStep == ASSUME IInv, GetOutput PROVE IInv'
<1>1. /\ Executing /\ r \in Requests /\ NowInv(r) /\ AnswerInv(r) /\ m \in {1, 2}
      /\ UNCHANGED <<inner, deletes, future, live, answer, reported, released, result, faults>>
    BY NowFacts DEF GetOutput, FutureReady, Executing, innerVars, serverVars
<1> PICK n \in Requests : n = r
    BY <1>1
<1>2. future[<<n, m>>] = "ok"
    <2>1. <<n, m>> \in Inner /\ Sent(<<n, m>>)
        BY <1>1, RequestsFacts DEF GetOutput, FutureReady, NowInv
    <2> QED BY <2>1 DEF GetOutput, FutureReady, This, Sent, IInv, BasicTypes
<1>3. /\ outputs' = outputs \/ (n \in live /\ outputs' = [outputs EXCEPT ![n] = @ \cup {m}])
      /\ wild' \subseteq Requests
    BY DEF GetOutput, IInv, BasicTypes
<1>4. /\ outputs'[n] \subseteq outputs[n] \cup {m}
      /\ \A q \in Requests \ {n} : outputs'[q] = outputs[q]
      /\ outputs' \in [Requests -> SUBSET Models]
    BY <1>1, <1>3 DEF IInv, BasicTypes, Models
<1>5. /\ \A q \in Requests : RequestInv(q)'
      /\ r' \in Requests /\ m' \in Models /\ irequest' \in Inner \cup {NoRequest}
      /\ \/ pc' \in {"ready", "get"}
         \/ pc' = "answer" /\ r' = 1
      /\ freed' \subseteq {x \in Inner : future'[x] \in {"ok", "error"}}
    BY <1>4, TakeStep DEF GetOutput
<1>6. (\A q \in Requests : AnswerInv(q)') /\ ReleaseInv'
    <2>1. ASSUME NEW q \in Requests, NEW i \in outputs'[q] PROVE future'[<<q, i>>] = "ok"
        <3>1. (q = n /\ i = m) \/ i \in outputs[q]
            BY <1>4
        <3>2. CASE q = n /\ i = m
            BY <1>1, <1>2, <3>2
        <3>3. CASE i \in outputs[q]
            <4>1. AnswerInv(q)
                BY DEF IInv
            <4> QED BY <1>1, <3>3, <4>1 DEF AnswerInv
        <3> QED BY <3>1, <3>2, <3>3
    <2>2. \A q \in Requests : outputs'[q] = outputs[q] \/ q \in live
        BY <1>3, <1>4
    <2> QED BY <1>1, <1>5, <2>1, <2>2, SilentStep
<1>7. BasicTypes'
    BY <1>1, <1>3, <1>4, <1>5 DEF IInv, BasicTypes, Locations
<1> QED BY <1>5, <1>6, <1>7 DEF IInv

LEMMA GetOutputFailsStep == ASSUME IInv, GetOutputFails PROVE IInv'
<1>1. /\ Executing /\ r \in Requests /\ NowInv(r) /\ m \in {1, 2}
      /\ UNCHANGED <<inner, deletes, future, outputs>>
    BY NowFacts DEF GetOutputFails, FutureReady, Executing, innerVars
<1> PICK n \in Requests : n = r
    BY <1>1
<1>2. /\ \A q \in Requests : RequestInv(q)'
      /\ r' \in Requests /\ m' \in Models /\ irequest' \in Inner \cup {NoRequest}
      /\ \/ pc' \in {"ready", "get"}
         \/ pc' = "answer" /\ r' = 1
      /\ freed' \subseteq {x \in Inner : future'[x] \in {"ok", "error"}}
    BY <1>1, TakeStep DEF GetOutputFails
<1>3. outputs[n] # Models
    BY <1>1 DEF NowInv, Models
<1>4. (\A q \in Requests : AnswerInv(q)') /\ ReleaseInv'
    BY <1>1, <1>2, <1>3, ErrorStep DEF GetOutputFails
<1>5. BasicTypes'
    <2>1. faults' \in 0 .. MaxFaults /\ wild' \subseteq Requests
        BY FaultFacts DEF GetOutputFails, IInv, BasicTypes
    <2> QED BY <1>1, <1>2, <2>1, RespondErrorFacts DEF IInv, BasicTypes, Locations, GetOutputFails
<1> QED BY <1>2, <1>4, <1>5 DEF IInv

LEMMA GetErrorStep == ASSUME IInv, GetError PROVE IInv'
<1>1. /\ Executing /\ r \in Requests /\ NowInv(r) /\ m \in {1, 2} /\ pc = "get"
      /\ UNCHANGED <<inner, deletes, future, outputs, live, answer, reported, released, result,
                     wild, faults>>
    BY NowFacts DEF GetError, FutureReady, Executing, innerVars, serverVars
<1> PICK n \in Requests : n = r
    BY <1>1
<1>2. /\ freed' = freed \cup {<<n, m>>} /\ future[<<n, m>>] = "error"
      /\ Sent(<<n, 1>>) /\ Sent(<<n, 2>>) /\ <<n, m>> \in Inner
    BY <1>1, RequestsFacts DEF GetError, This, NowInv
<1>3. BehindInv(n)'
    BY <1>1, <1>2 DEF BehindInv, Sound, Sent, ByCallback, Models
<1>4. /\ r' \in Requests /\ pc' \in {"ready", "answer"} /\ m' = 1 /\ irequest' = NoRequest
      /\ pc' = "answer" => r' = 1
      /\ \A q \in Requests : RequestInv(q)'
    BY <1>1, <1>2, <1>3, NextExecuteStep DEF GetError
<1>5. (\A q \in Requests : AnswerInv(q)') /\ ReleaseInv'
    BY <1>1, <1>4, SilentStep DEF IInv, AnswerInv
<1>6. BasicTypes'
    BY <1>1, <1>2, <1>4 DEF IInv, BasicTypes, Locations, Models
<1> QED BY <1>4, <1>5, <1>6 DEF IInv
-----------------------------------------------------------------------------
\* After the last request was executed the inner requests change by callbacks only.
LEMMA LateStep ==
    ASSUME IInv, pc \in {"answer", "release", "return"},
           pc' \in {"answer", "release", "return", "done"},
           UNCHANGED <<inner, deletes, future, freed>>
    PROVE  \A q \in Requests : RequestInv(q)'
<1> SUFFICES ASSUME NEW q \in Requests PROVE RequestInv(q)'
    OBVIOUS
<1>1. BehindInv(q)
    BY DEF IInv, RequestInv, Behind
<1>2. ~Ahead(q)' /\ ~Now(q)'
    BY DEF Ahead, Now, Executing
<1> QED BY <1>1, <1>2 DEF RequestInv, BehindInv, Sound, ByCallback

LEMMA AnswerStep == ASSUME IInv, Answer PROVE IInv'
<1>1. /\ pc = "answer" /\ r \in Requests
      /\ UNCHANGED <<m, irequest, inner, deletes, future, freed, outputs, live, wild, reported,
                     released, result, faults>>
    BY DEF Answer, innerVars, IInv, BasicTypes
<1>2. \/ /\ r = RequestCount /\ r' = 1 /\ pc' = "release"
         /\ \A q \in Requests : q <= r
      \/ r # RequestCount /\ r' = r + 1 /\ pc' = "answer" /\ r' \in Requests
    BY NextRequestFacts DEF Answer, IInv
<1>3. \A q \in Requests : RequestInv(q)'
    BY <1>1, <1>2, LateStep
<1>4. /\ answer' \in [Requests -> {"none", "ok", "error"}]
      /\ \A q \in Requests : answer'[q] = IF q = r /\ q \in live THEN "ok" ELSE answer[q]
    BY <1>1 DEF Answer, IInv, BasicTypes
<1>5. ASSUME NEW q \in Requests PROVE AnswerInv(q)'
    <2>1. AnswerInv(q) /\ q \in Nat /\ r \in Nat
        BY <1>1, RequestsFacts DEF IInv
    <2>2. AnswerSent(q)' <=> (AnswerSent(q) \/ q = r)
        BY <1>1, <1>2, <2>1 DEF AnswerSent
    <2> QED BY <1>1, <1>2, <1>4, <2>1, <2>2 DEF AnswerInv
<1>6. ReleaseInv'
    BY <1>1, <1>2 DEF IInv, ReleaseInv
<1>7. BasicTypes'
    BY <1>1, <1>2, <1>4, RequestsFacts DEF IInv, BasicTypes, Locations
<1> QED BY <1>2, <1>3, <1>5, <1>6, <1>7 DEF IInv

LEMMA ReleaseStep == ASSUME IInv, Release PROVE IInv'
<1>1. /\ pc = "release" /\ r \in Requests
      /\ UNCHANGED <<m, irequest, inner, deletes, future, freed, outputs, live, wild, answer,
                     result, faults>>
      /\ released' = released \cup {r}
      /\ reported' = IF r \in live THEN reported \cup {r} ELSE reported
    BY DEF Release, Success, innerVars, IInv, BasicTypes
<1>2. \/ /\ r = RequestCount /\ r' = 1 /\ pc' = "return"
         /\ \A q \in Requests : q <= r
      \/ r # RequestCount /\ r' = r + 1 /\ pc' = "release" /\ r' \in Requests
    BY NextRequestFacts DEF Release, IInv
<1>3. \A q \in Requests : RequestInv(q)'
    BY <1>1, <1>2, LateStep
<1>4. \A q \in Requests : AnswerInv(q)'
    BY <1>1, <1>2 DEF IInv, AnswerInv, AnswerSent
<1>5. r \in live <=> answer[r] = "ok"
    BY <1>1 DEF IInv, AnswerInv, AnswerSent
<1>6. ReleaseInv'
    <2>1. released = 1 .. r - 1 /\ reported = {q \in released : answer[q] = "ok"}
          /\ result = "running"
        BY <1>1 DEF IInv, ReleaseInv
    <2>2. reported' = {q \in released' : answer'[q] = "ok"}
        BY <1>1, <1>5, <2>1
    <2>3. released' = 1 .. r
        BY <1>1, <2>1, RequestsFacts
    <2> QED BY <1>1, <1>2, <2>1, <2>2, <2>3, RequestsFacts DEF ReleaseInv, Requests
<1>7. BasicTypes'
    BY <1>1, <1>2, RequestsFacts DEF IInv, BasicTypes, Locations
<1> QED BY <1>2, <1>3, <1>4, <1>6, <1>7 DEF IInv

LEMMA ReturnStep == ASSUME IInv, Return PROVE IInv'
<1>1. /\ pc = "return" /\ pc' = "done" /\ result' = "success"
      /\ UNCHANGED <<r, m, irequest, inner, deletes, future, freed, outputs, live, wild, answer,
                     reported, released, faults>>
    BY DEF Return, innerVars
<1>2. \A q \in Requests : RequestInv(q)'
    BY <1>1, LateStep
<1>3. \A q \in Requests : AnswerInv(q)'
    BY <1>1 DEF IInv, AnswerInv, AnswerSent
<1>4. ReleaseInv'
    BY <1>1 DEF IInv, ReleaseInv
<1>5. BasicTypes'
    BY <1>1 DEF IInv, BasicTypes, Locations
<1> QED BY <1>1, <1>2, <1>3, <1>4, <1>5 DEF IInv
-----------------------------------------------------------------------------
\* A callback changes the state of one inner request that was sent, and only so far.
LEMMA CallbackStep == ASSUME IInv, NEW x \in Inner, Callback(x) PROVE IInv'
<1>1. /\ UNCHANGED <<pc, r, m, irequest, freed, outputs, live, wild, answer, reported, released,
                     result>>
      /\ faults' \in 0 .. MaxFaults
    <2>1. CASE InferRequestComplete(x)
        BY <2>1 DEF InferRequestComplete, serverVars, IInv, BasicTypes
    <2>2. CASE InferResponseComplete(x)
        BY <2>2, FaultFacts DEF InferResponseComplete, serverVars, IInv, BasicTypes
    <2> QED BY <2>1, <2>2 DEF Callback
<1>2. /\ inner' \in [Inner -> {"none", "made", "sent", "complete"}]
      /\ deletes' \in [Inner -> Nat]
      /\ future' \in [Inner -> {"none", "pending", "ok", "error"}]
    BY DEF Callback, InferRequestComplete, InferResponseComplete, IInv, BasicTypes
<1>3. ASSUME NEW y \in Inner
      PROVE  /\ Untried(y) => Untried(y)'
             /\ Made(y) => Made(y)'
             /\ Sent(y) => Sent(y)'
             /\ deletes[y] <= ByCallback(y) + 1 => deletes'[y] <= ByCallback(y)' + 1
             /\ deletes[y] = ByCallback(y) => deletes'[y] = ByCallback(y)'
             /\ future[y] \in {"ok", "error"} => future'[y] = future[y]
             /\ future'[y] # "error" => future[y] # "error"
             /\ inner'[y] \in {"sent", "complete"} => inner[y] \in {"sent", "complete"}
    <2>0. /\ inner[y] \in {"none", "made", "sent", "complete"} /\ deletes[y] \in Nat
          /\ future[y] \in {"none", "pending", "ok", "error"}
        BY DEF IInv, BasicTypes
    <2>1. CASE InferRequestComplete(x)
        <3>1. /\ future'[y] = future[y] /\ inner[x] = "sent"
              /\ inner'[y] = IF y = x THEN "complete" ELSE inner[y]
              /\ deletes'[y] = IF y = x THEN deletes[y] + 1 ELSE deletes[y]
            BY <2>1 DEF InferRequestComplete, IInv, BasicTypes
        <3> QED BY <2>0, <3>1 DEF Untried, Made, Sent, ByCallback
    <2>2. CASE InferResponseComplete(x)
        <3>1. /\ inner'[y] = inner[y] /\ deletes'[y] = deletes[y] /\ future[x] = "pending"
              /\ y # x => future'[y] = future[y]
              /\ y = x => future'[y] \in {"ok", "error"}
            BY <2>2 DEF InferResponseComplete, IInv, BasicTypes
        <3> QED BY <2>0, <3>1 DEF Untried, Made, Sent, ByCallback
    <2> QED BY <2>1, <2>2 DEF Callback
<1>4. ASSUME NEW q \in Requests PROVE RequestInv(q)'
    <2>1. RequestInv(q) /\ <<q, 1>> \in Inner /\ <<q, 2>> \in Inner /\ m \in {1, 2}
        BY RequestsFacts DEF IInv, BasicTypes
    <2>2. (Ahead(q)' <=> Ahead(q)) /\ (Now(q)' <=> Now(q)) /\ (Behind(q)' <=> Behind(q))
        BY <1>1 DEF Ahead, Now, Behind, Executing
    <2>3. AheadInv(q) => AheadInv(q)'
        BY <1>1, <1>3, <2>1 DEF AheadInv
    <2>4. NowInv(q) => NowInv(q)'
        <3>1. <<q, m>> \in Inner
            BY <2>1
        <3>2. /\ Made(<<q, m>>) => Made(<<q, m>>)'
              /\ Untried(<<q, m>>) => Untried(<<q, m>>)'
            BY <1>1, <1>3, <3>1
        <3> QED BY <1>1, <1>3, <2>1, <2>3, <3>2 DEF NowInv
    <2>5. BehindInv(q) => BehindInv(q)'
        BY <1>1, <1>3, <2>1 DEF BehindInv, Sound, Models
    <2> QED BY <2>1, <2>2, <2>3, <2>4, <2>5 DEF RequestInv
<1>5. ASSUME NEW q \in Requests PROVE AnswerInv(q)'
    <2>1. \A i \in outputs[q] : <<q, i>> \in Inner
        BY DEF IInv, BasicTypes, Inner
    <2> QED BY <1>1, <1>3, <2>1 DEF IInv, AnswerInv, AnswerSent
<1>6. ReleaseInv'
    BY <1>1 DEF IInv, ReleaseInv
<1>7. BasicTypes'
    BY <1>1, <1>2, <1>3 DEF IInv, BasicTypes
<1> QED BY <1>1, <1>4, <1>5, <1>6, <1>7 DEF IInv

LEMMA NextInv == IInv /\ [Next]_vars => IInv'
<1> SUFFICES ASSUME IInv, [Next]_vars PROVE IInv'
    OBVIOUS
<1>1. CASE Thread
    BY <1>1, CreateStep, ReadyStep, NotReadyStep, NewStep, FailStep, SendStep, CatchStep,
       GetErrorStep, GetOutputStep, GetOutputFailsStep, AnswerStep, ReleaseStep, ReturnStep
    DEF Thread
<1>2. CASE \E x \in Inner : Callback(x)
    BY <1>2, CallbackStep
<1>3. CASE UNCHANGED vars
    <2>1. UNCHANGED <<pc, r, m, irequest, inner, deletes, future, freed, outputs, live, wild,
                      answer, reported, released, result, faults>>
        BY <1>3 DEF vars, innerVars, serverVars
    <2>2. \A q \in Requests : (RequestInv(q) <=> RequestInv(q)') /\ (AnswerInv(q) <=> AnswerInv(q)')
        BY <2>1 DEF RequestInv, Ahead, Now, Behind, Executing, AheadInv, NowInv, BehindInv, Sound,
                    Untried, Made, Sent, ByCallback, AnswerInv, AnswerSent
    <2> QED BY <2>1, <2>2 DEF IInv, BasicTypes, ReleaseInv
<1> QED BY <1>1, <1>2, <1>3 DEF Next, Terminating

LEMMA Invariance == Spec => []IInv
BY InitInv, NextInv, PTL DEF Spec
-----------------------------------------------------------------------------
(***************************************************************************)
(* A released request is reported as successful exactly if it was answered *)
(* without an error.                                                       *)
(***************************************************************************)
THEOREM StatisticsHonest == Spec => []ReportedAsAnswered
<1>1. IInv => ReportedAsAnswered
    BY DEF IInv, ReleaseInv, ReportedAsAnswered
<1> QED BY <1>1, Invariance, PTL

(***************************************************************************)
(* Outputs are only those of inferences that succeeded, a request with     *)
(* both of them gets no error, and no inner request is deleted more than   *)
(* twice, once by its callback and once by the catch clause.               *)
(***************************************************************************)
THEOREM OutputsSound == Spec => []OutputsFromSuccess
<1>1. ASSUME IInv, NEW x \in Inner PROVE deletes[x] \in 0 .. 2
    <2>1. PICK q \in Requests, i \in Models : x = <<q, i>>
        BY DEF Inner
    <2>2. deletes[x] \in Nat /\ r \in Nat /\ q \in Nat /\ pc \in Locations /\ m \in Models
        BY <1>1, RequestsFacts DEF IInv, BasicTypes
    <2>3. Ahead(q) \/ Now(q) \/ Behind(q)
        BY <2>2 DEF Ahead, Now, Behind, Executing, Locations
    <2>4. \/ Untried(x) \/ Made(x) \/ Sent(x)
          \/ deletes[x] <= ByCallback(x) + 1
        <3>1. CASE Ahead(q)
            BY <1>1, <2>1, <3>1 DEF IInv, RequestInv, AheadInv, Models
        <3>2. CASE Now(q)
            <4>1. NowInv(q) /\ pc \in {"ready", "prepare", "send", "catch", "get"}
                BY <1>1, <3>2 DEF IInv, RequestInv, Now, Executing
            <4> QED BY <2>1, <2>2, <4>1 DEF NowInv, AheadInv, Models
        <3>3. CASE Behind(q)
            BY <1>1, <2>1, <3>3 DEF IInv, RequestInv, BehindInv
        <3> QED BY <2>3, <3>1, <3>2, <3>3
    <2> QED BY <2>2, <2>4 DEF Untried, Made, Sent, ByCallback
<1>2. IInv => OutputsFromSuccess
    <2> SUFFICES ASSUME IInv PROVE OutputsFromSuccess
        OBVIOUS
    <2>1. deletes \in [Inner -> 0 .. 2]
        BY <1>1 DEF IInv, BasicTypes
    <2>2. TypeOK
        BY <2>1 DEF IInv, BasicTypes, TypeOK, Locations
    <2> QED BY <2>2 DEF IInv, AnswerInv, OutputsFromSuccess
<1> QED BY <1>2, Invariance, PTL

(***************************************************************************)
(* When a request is released whose two inferences were sent and did not   *)
(* fail, both their responses were deleted, and the inner requests only by *)
(* their callbacks.                                                        *)
(***************************************************************************)
THEOREM CleanedUp == Spec => []NothingLeft
<1>1. IInv => NothingLeft
    <2> SUFFICES ASSUME IInv, NEW q \in released, Sound(q), NEW i \in Models
                 PROVE  /\ <<q, i>> \in freed
                        /\ deletes[<<q, i>>] = IF inner[<<q, i>>] = "complete" THEN 1 ELSE 0
        BY DEF NothingLeft
    <2>1. q \in Requests /\ pc \in {"release", "return", "done"}
        BY DEF IInv, BasicTypes, ReleaseInv
    <2>2. BehindInv(q)
        BY <2>1 DEF IInv, RequestInv, Behind
    <2> QED BY <2>2 DEF BehindInv, ByCallback
<1> QED BY <1>1, Invariance, PTL
-----------------------------------------------------------------------------
\* Answers seen by Triton that were not there and are there now, all the same.
LEMMA RespondImplements ==
    ASSUME IInv, NEW a \in {"ok", "error"}, pc # "done", UNCHANGED <<released, result>>,
           \A q \in Requests : \/ Answered'[q] = Answered[q]
                               \/ Answered[q] = "none" /\ Answered'[q] = a
    PROVE  Protocol!Respond("call")
<1> DEFINE S == {q \in Requests : Answered[q] = "none" /\ Answered'[q] = a}
<1>1. result = "running"
    BY DEF IInv, ReleaseInv
<1>2. Answered' = [q \in Requests |-> IF q \in S THEN a ELSE Answered[q]]
    <2>1. Answered' = [q \in Requests |-> Answered'[q]]
        BY DEF Answered
    <2>2. \A q \in Requests : Answered'[q] = IF q \in S THEN a ELSE Answered[q]
        OBVIOUS
    <2> HIDE DEF S
    <2> QED BY <2>1, <2>2
<1>3. S \in SUBSET {q \in Requests : Answered[q] = "none"}
    OBVIOUS
<1> HIDE DEF S
<1>4. [c \in {"call"} |-> Answered]' =
          [[c \in {"call"} |-> Answered] EXCEPT !["call"] =
              [q \in Requests |-> IF q \in S THEN a ELSE @[q]]]
    <2> DEFINE F == [c \in {"call"} |-> Answered]
    <2>1. F["call"] = Answered /\ F' = [c \in {"call"} |-> Answered']
        OBVIOUS
    <2>2. [F EXCEPT !["call"] = [q \in Requests |-> IF q \in S THEN a ELSE Answered[q]]] =
              [c \in {"call"} |-> Answered']
        BY <1>2
    <2> QED BY <2>1, <2>2
<1>5. \E T \in SUBSET {q \in Requests : [c \in {"call"} |-> Answered]["call"][q] = "none"} :
          [c \in {"call"} |-> Answered]' =
              [[c \in {"call"} |-> Answered] EXCEPT !["call"] =
                  [q \in Requests |-> IF q \in T THEN a ELSE @[q]]]
    <2>1. S \in SUBSET {q \in Requests : [c \in {"call"} |-> Answered]["call"][q] = "none"}
        BY <1>3
    <2> QED BY <2>1, <1>4
<1> QED BY <1>1, <1>5 DEF Protocol!Respond

\* Nothing Triton sees changes: no answer, and no response that was tried.
LEMMA StutterImplements ==
    ASSUME IInv, UNCHANGED <<live, answer, released, result>>,
           \A q \in Requests : ResponseTried(q)' = ResponseTried(q)
    PROVE  Answered' = Answered /\ UNCHANGED <<released, result>>
BY DEF Answered

LEMMA ErrorImplements ==
    ASSUME IInv, Executing, RespondError, pc' # "create"
    PROVE  Protocol!Respond("call")
<1>1. r \in Requests /\ (r \in live => answer[r] = "none") /\ pc # "create" /\ pc # "done"
    BY NowFacts DEF Executing
<1> PICK n \in Requests : n = r
    BY <1>1
<1>2. /\ live' = live \ {n} /\ answer'[n] = IF n \in live THEN "error" ELSE answer[n]
      /\ \A q \in Requests \ {n} : answer'[q] = answer[q]
      /\ UNCHANGED <<released, result>>
    BY RespondErrorFacts
<1>3. \A q \in Requests : \/ Answered'[q] = Answered[q]
                          \/ Answered[q] = "none" /\ Answered'[q] = "error"
    BY <1>1, <1>2 DEF Answered, ResponseTried
<1> QED BY <1>1, <1>2, <1>3, RespondImplements

LEMMA CreateImplements ==
    ASSUME IInv, CreateResponse PROVE Protocol!Respond("call")
<1>1. /\ pc = "create" /\ UNCHANGED <<answer, released, result>>
      /\ live' = live \cup {r} \/ live' = live
    BY DEF CreateResponse, serverVars, Fault
<1>2. r \in Requests /\ \A q \in Requests : answer[q] = "none" /\ (q >= r => q \notin live)
    BY <1>1 DEF IInv, BasicTypes, AnswerInv
<1>3. \A q \in Requests : ResponseTried(q)' <=> q <= r
    BY <1>1, <1>2, NextRequestFacts, RequestsFacts DEF CreateResponse, IInv, ResponseTried
<1>4. \A q \in Requests : ResponseTried(q) <=> q < r
    BY <1>1 DEF ResponseTried
<1>5. ASSUME NEW q \in Requests
      PROVE  \/ Answered'[q] = Answered[q]
             \/ Answered[q] = "none" /\ Answered'[q] = "error"
    <2>1. /\ Answered[q] = IF q \notin live /\ q < r THEN "error" ELSE "none"
          /\ Answered'[q] = IF q \notin live' /\ q <= r THEN "error" ELSE "none"
        BY <1>1, <1>2, <1>3, <1>4 DEF Answered
    <2>2. CASE q # r
        <3>1. (q <= r <=> q < r) /\ (q \in live' <=> q \in live)
            BY <1>1, <1>2, <2>2, RequestsFacts
        <3> QED BY <2>1, <3>1
    <2>3. CASE q = r
        <3>1. ~(q < r)
            BY <1>2, <2>3, RequestsFacts
        <3> QED BY <2>1, <3>1
    <2> QED BY <2>2, <2>3
<1> QED BY <1>1, <1>5, RespondImplements

LEMMA AnswerImplements ==
    ASSUME IInv, Answer PROVE Protocol!Respond("call")
<1>1. /\ pc = "answer" /\ pc' # "create" /\ UNCHANGED <<live, released, result>>
      /\ answer' = IF r \in live THEN [answer EXCEPT ![r] = "ok"] ELSE answer
      /\ answer \in [Requests -> {"none", "ok", "error"}] /\ r \in Requests
    BY DEF Answer, NextRequest, IInv, BasicTypes
<1>2. r \in live => answer[r] = "none"
    <2>1. ~AnswerSent(r)
        BY <1>1, RequestsFacts DEF AnswerSent
    <2> QED BY <1>1, <2>1 DEF IInv, AnswerInv
<1>3. \A q \in Requests : \/ Answered'[q] = Answered[q]
                          \/ Answered[q] = "none" /\ Answered'[q] = "ok"
    BY <1>1, <1>2 DEF Answered, ResponseTried
<1> QED BY <1>1, <1>3, RespondImplements

LEMMA ReleaseImplements ==
    ASSUME IInv, Release PROVE Protocol!Release("call")
<1>1. /\ pc = "release" /\ pc' # "create" /\ r \in Requests
      /\ released' = released \cup {r} /\ UNCHANGED <<live, answer, result>>
    BY DEF Release, NextRequest, IInv, BasicTypes
<1>2. result = "running" /\ r \notin released
    BY <1>1, RequestsFacts DEF IInv, ReleaseInv
<1>3. Answered[r] # "none" /\ Answered' = Answered
    BY <1>1 DEF IInv, AnswerInv, AnswerSent, Answered, ResponseTried
<1> QED BY <1>1, <1>2, <1>3 DEF Protocol!Release

LEMMA StepImplements ==
    IInv /\ [Next]_vars => [Protocol!Next]_(Protocol!vars)
<1> SUFFICES ASSUME IInv, [Next]_vars
             PROVE  \/ Protocol!Respond("call") \/ Protocol!Release("call")
                    \/ Protocol!Return("call")
                    \/ Answered' = Answered /\ UNCHANGED <<released, result>>
    BY DEF Protocol!Next, Protocol!vars
<1>1. CASE ModelsReady \/ InferenceRequestNew \/ NewFails \/ SendFails \/ AsyncExecute
           \/ GetError \/ GetOutput
    <2>1. UNCHANGED <<live, answer, released, result>>
        BY <1>1 DEF ModelsReady, InferenceRequestNew, NewFails, SendFails, AsyncExecute,
                    GetError, GetOutput, serverVars
    <2>2. pc # "create" /\ pc' # "create"
        BY <1>1 DEF ModelsReady, InferenceRequestNew, NewFails, SendFails, AsyncExecute,
                    GetError, GetOutput, FutureReady, NextModel, NextExecute, NextRequest
    <2> QED BY <2>1, <2>2, StutterImplements DEF ResponseTried
<1>2. CASE ModelsNotReady \/ Catch \/ GetOutputFails
    <2>1. Executing /\ RespondError /\ pc' # "create"
        BY <1>2 DEF ModelsNotReady, Catch, GetOutputFails, Executing, FutureReady, NextModel,
                    NextExecute, NextRequest
    <2> QED BY <2>1, ErrorImplements
<1>3. CASE Return
    <2>1. /\ pc = "return" /\ pc' = "done" /\ result' = "success"
          /\ UNCHANGED <<r, live, answer, released>>
        BY <1>3 DEF Return
    <2>2. result = "running" /\ released = Requests
        BY <2>1 DEF IInv, ReleaseInv
    <2>3. Answered' = Answered
        BY <2>1 DEF Answered, ResponseTried
    <2> QED BY <2>1, <2>2, <2>3 DEF Protocol!Return
<1>4. CASE (\E x \in Inner : Callback(x)) \/ Terminating \/ UNCHANGED vars
    <2>1. UNCHANGED <<pc, r, live, answer, released, result>>
        BY <1>4 DEF Callback, InferRequestComplete, InferResponseComplete, Terminating, vars,
                    serverVars
    <2> QED BY <2>1, StutterImplements DEF ResponseTried
<1> QED BY <1>1, <1>2, <1>3, <1>4, CreateImplements, AnswerImplements, ReleaseImplements
        DEF Next, Thread

(***************************************************************************)
(* The bls backend implements ResponseProtocol: it owns the requests,      *)
(* answers each that has a response once, releases each once after that,   *)
(* and returns success; no callback and no failure lets Triton see more.   *)
(***************************************************************************)
THEOREM Implements == Spec => ProtocolKept
<1>1. Init => Protocol!Init
    BY RequestsFacts DEF Init, Protocol!Init, Answered, ResponseTried
<1> QED BY Invariance, StepImplements, <1>1, PTL
        DEF Spec, ProtocolKept, Protocol!Spec
=============================================================================
