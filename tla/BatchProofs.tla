---------------------------- MODULE BatchProofs -----------------------------
(***************************************************************************)
(* What a backend does with a batch.                                       *)
(*                                                                         *)
(*   1. ModelInstanceExecute keeps its promises to Triton, for any number  *)
(*      of calls, instances and requests.                                  *)
(*   2. ProcessBatchInput computes what the batch inputs are to hold, for  *)
(*      any sequence of calls and any shapes in the batch.                 *)
(***************************************************************************)
EXTENDS ModelInstanceExecute, BatchInput, SequenceTheorems, FiniteSetTheorems, TLAPS

(***************************************************************************)
(* 1.  ModelInstanceExecute.                                               *)
(***************************************************************************)

(***************************************************************************)
(* The strengthening: how the responses that are left, the answers given   *)
(* and the requests released go together at each point of a call.          *)
(***************************************************************************)
CreateInv(c) ==
    pc[c] \in {"idle", "create"} =>
        /\ live[c] = 1 .. created[c]
        /\ \A q \in Requests : answer[c][q] = "none"
        /\ released[c] = {}

ProcessInv(c) ==
    Processing(c) =>
        /\ \A q \in Requests : q \in live[c] <=> answer[c][q] = "none"
        /\ \A q \in Requests : answer[c][q] # "ok"
        /\ released[c] = {}

SendInv(c) ==
    pc[c] = "send" =>
        /\ created[c] < RequestCount
        /\ \A q \in Requests :
              IF q <= created[c]
              THEN answer[c][q] # "none" /\ (q \in live[c] <=> answer[c][q] = "ok")
              ELSE answer[c][q] # "ok" /\ (q \in live[c] <=> answer[c][q] = "none")
        /\ released[c] = {}

ReleaseInv(c) ==
    pc[c] = "release" =>
        /\ created[c] < RequestCount
        /\ \A q \in Requests :
              answer[c][q] # "none" /\ (q \in live[c] <=> answer[c][q] = "ok")
        /\ released[c] = 1 .. created[c]

ReturnInv(c) == pc[c] = "return" => released[c] = Requests

ResultInv(c) == result[c] = "running" <=> pc[c] # "returned"

ReportInv(c) ==
    /\ reported[c] \subseteq released[c]
    /\ Backend[c] = "recommended" =>
          \A q \in released[c] : q \in reported[c] <=> answer[c][q] = "ok"

CallInv(c) ==
    /\ CreateInv(c) /\ ProcessInv(c) /\ SendInv(c) /\ ReleaseInv(c)
    /\ ReturnInv(c) /\ ResultInv(c) /\ ReportInv(c)

FlowInv == \A c \in Calls : CallInv(c)

IInv == TypeOK /\ FlowInv

\* The part of TypeOK about shapes, and the part about the calls.
ShapeTypeOK ==
    /\ shape \in [Calls -> Seq({"batch", "dims"})]
    /\ shapeInit \in BOOLEAN /\ modelShape \in Seq({"batch", "dims"})

CallTypeOK ==
    /\ pc \in [Calls -> Locations]
    /\ created \in [Calls -> 0 .. RequestCount]
    /\ live \in [Calls -> SUBSET Requests]
    /\ input \in [Calls -> {"unset", "first", "batched"}]
    /\ answer \in [Calls -> [Requests -> {"none", "ok", "error"}]]
    /\ reported \in [Calls -> SUBSET Requests]
    /\ released \in [Calls -> SUBSET Requests]
    /\ result \in [Calls -> {"running", "success", "error"}]

\* What an action leaves alone of the other calls.
Untouched(d) ==
    /\ pc'[d] = pc[d] /\ created'[d] = created[d] /\ live'[d] = live[d]
    /\ answer'[d] = answer[d] /\ reported'[d] = reported[d]
    /\ released'[d] = released[d] /\ result'[d] = result[d]
-----------------------------------------------------------------------------
LEMMA InitInvariant == Init => IInv
<1> SUFFICES ASSUME Init PROVE IInv
  OBVIOUS
<1>1. TypeOK
  <2>1. <<>> \in Seq({"batch", "dims"})
    OBVIOUS
  <2>2. [c \in Calls |-> <<>>] \in [Calls -> Seq({"batch", "dims"})]
    BY <2>1
  <2>3. shape \in [Calls -> Seq({"batch", "dims"})]
    BY <2>2 DEF Init
  <2>4. modelShape \in Seq({"batch", "dims"})
    BY <2>1 DEF Init
  <2>5. created \in [Calls -> 0 .. RequestCount]
    BY RequestCountAssumption DEF Init
  <2> QED BY <2>3, <2>4, <2>5 DEF Init, TypeOK, Locations
<1>2. FlowInv
  <2>1. 1 .. 0 = {}
    OBVIOUS
  <2> QED BY <2>1 DEF Init, FlowInv, CallInv, CreateInv, ProcessInv, Processing, SendInv,
         ReleaseInv, ReturnInv, ResultInv, ReportInv
<1> QED BY <1>1, <1>2 DEF IInv

\* An error goes to some responses that are left, which become null.
LEMMA RespondErrorFacts ==
    ASSUME TypeOK, NEW c \in Calls, NEW S \in SUBSET Requests, RespondError(c, S)
    PROVE  /\ answer' \in [Calls -> [Requests -> {"none", "ok", "error"}]]
           /\ live' \in [Calls -> SUBSET Requests]
           /\ live'[c] = live[c] \ S
           /\ \A q \in Requests : answer'[c][q] =
                 IF q \in S \cap live[c] THEN "error" ELSE answer[c][q]
           /\ \A d \in Calls \ {c} :
                 answer'[d] = answer[d] /\ live'[d] = live[d]
<1>1. [q \in Requests |->
          IF q \in S \cap live[c] THEN "error" ELSE answer[c][q]]
         \in [Requests -> {"none", "ok", "error"}]
  BY DEF TypeOK
<1>2. live[c] \ S \in SUBSET Requests
  BY DEF TypeOK
<1> QED BY <1>1, <1>2 DEF RespondError, TypeOK

LEMMA BatchDimType == BatchDim \in Seq({"batch", "dims"})
<1>1. <<>> \in Seq({"batch", "dims"}) /\ <<"batch">> \in Seq({"batch", "dims"})
  OBVIOUS
<1> QED BY <1>1 DEF BatchDim

LEMMA ShapeTypeStep ==
    TypeOK /\ [Next]_vars => ShapeTypeOK'
<1> SUFFICES ASSUME TypeOK, [Next]_vars PROVE ShapeTypeOK'
  OBVIOUS
<1>1. ShapeTypeOK
  BY DEF TypeOK, ShapeTypeOK
<1>2. CASE UNCHANGED <<shape, modelVars>>
  BY <1>1, <1>2 DEF ShapeTypeOK, modelVars
<1>3. ASSUME NEW c \in Calls, LocalShape(c) PROVE ShapeTypeOK'
  <2>1. ConfiguredShape \in Seq({"batch", "dims"})
    BY BatchDimType, ConcatProperties DEF ConfiguredShape
  <2> QED BY <1>1, <1>3, <2>1 DEF LocalShape, ShapeTypeOK, modelVars
<1>4. ASSUME NEW c \in Calls, PushBatchDim(c) PROVE ShapeTypeOK'
  <2>1. modelShape' \in Seq({"batch", "dims"})
    BY <1>1, <1>4, BatchDimType, ConcatProperties
    DEF PushBatchDim, ShapeTypeOK
  <2> QED BY <1>1, <1>4, <2>1 DEF PushBatchDim, ShapeTypeOK
<1>5. ASSUME NEW c \in Calls, InsertDims(c) PROVE ShapeTypeOK'
  <2>1. modelShape' \in Seq({"batch", "dims"})
    BY <1>1, <1>5, AppendProperties DEF InsertDims, ShapeTypeOK
  <2> QED BY <1>1, <1>5, <2>1 DEF InsertDims, ShapeTypeOK
<1>6. ASSUME NEW c \in Calls, SetInitialized(c) \/ CopyShape(c)
      PROVE ShapeTypeOK'
  BY <1>1, <1>6 DEF SetInitialized, CopyShape, ShapeTypeOK, modelVars
<1>7. ASSUME NEW c \in Calls,
             \/ Call(c) \/ Fail(c) \/ ResponseNew(c) \/ Collect(c)
             \/ CollectFails(c) \/ Compute(c) \/ CheckInitialized(c)
             \/ Scatter(c) \/ Send(c) \/ Release(c) \/ Return(c)
      PROVE UNCHANGED <<shape, modelVars>>
  BY <1>7 DEF Call, Fail, ResponseNew, Collect, CollectFails, Compute,
              CheckInitialized, Scatter, Send, Release, Return
<1>8. CASE Terminating \/ UNCHANGED vars
  BY <1>1, <1>8 DEF Terminating, vars, ShapeTypeOK, modelVars
<1> QED BY <1>2, <1>3, <1>4, <1>5, <1>6, <1>7, <1>8 DEF Next, Execute
-----------------------------------------------------------------------------
(***************************************************************************)
(* A step of a call keeps the invariant of that call and leaves the others *)
(* alone.                                                                  *)
(***************************************************************************)
StepOf(c) ==
    CallTypeOK' /\ CallInv(c)' /\ \A d \in Calls \ {c} : Untouched(d)

LEMMA QuietStep ==
    ASSUME IInv, NEW c \in Calls, NEW from, NEW to,
           Goto(c, from, to), to \in Locations,
           \/ from = "idle" /\ to = "create"
           \/ /\ from \in {"compute", "shape", "batch", "dims", "flag", "copy"}
              /\ to \in {"shape", "batch", "dims", "flag", "copy", "scatter"},
           UNCHANGED <<created, live, input, serverVars>>
    PROVE  StepOf(c)
<1>1. CallTypeOK'
  BY DEF IInv, TypeOK, CallTypeOK, Goto, serverVars
<1>2. /\ pc[c] = from /\ pc'[c] = to
      /\ \A d \in Calls \ {c} : Untouched(d)
  BY DEF IInv, TypeOK, Goto, serverVars, Untouched
<1>3. CallInv(c)
  BY DEF IInv, FlowInv
<1>4. CallInv(c)'
  BY <1>2, <1>3
  DEF CallInv, CreateInv, ProcessInv, Processing, SendInv, ReleaseInv,
      ReturnInv, ResultInv, ReportInv, serverVars
<1> QED BY <1>1, <1>2, <1>4 DEF StepOf

LEMMA QuietSteps ==
    ASSUME IInv, NEW c \in Calls,
           \/ Call(c) \/ Compute(c) \/ LocalShape(c) \/ CheckInitialized(c)
           \/ PushBatchDim(c) \/ InsertDims(c) \/ SetInitialized(c)
           \/ CopyShape(c)
    PROVE  StepOf(c)
<1>1. CASE Call(c)
  BY <1>1, QuietStep DEF Call, Locations
<1>2. CASE Compute(c)
  BY <1>2, QuietStep DEF Compute, Locations
<1>3. CASE LocalShape(c)
  BY <1>3, QuietStep DEF LocalShape, Locations
<1>4. CASE CheckInitialized(c)
  BY <1>4, QuietStep DEF CheckInitialized, Locations
<1>5. CASE PushBatchDim(c)
  BY <1>5, QuietStep DEF PushBatchDim, Locations
<1>6. CASE InsertDims(c)
  BY <1>6, QuietStep DEF InsertDims, Locations
<1>7. CASE SetInitialized(c) \/ CopyShape(c)
  BY <1>7, QuietStep DEF SetInitialized, CopyShape, Locations
<1> QED BY <1>1, <1>2, <1>3, <1>4, <1>5, <1>6, <1>7

LEMMA FailStep == ASSUME IInv, NEW c \in Calls, Fail(c) PROVE StepOf(c)
<1>1. CallTypeOK'
  BY DEF IInv, TypeOK, CallTypeOK, Fail, Goto, Locations
<1>2. CallInv(c)'
  BY DEF IInv, TypeOK, FlowInv, Fail, Goto, CallInv, CreateInv, ProcessInv,
         Processing, SendInv, ReleaseInv, ReturnInv, ResultInv, ReportInv
<1>3. \A d \in Calls \ {c} : Untouched(d)
  BY DEF IInv, TypeOK, Fail, Goto, Untouched
<1> QED BY <1>1, <1>2, <1>3 DEF StepOf

LEMMA ResponseNewStep ==
    ASSUME IInv, NEW c \in Calls, ResponseNew(c) PROVE StepOf(c)
<1>1. created[c] + 1 \in 1 .. RequestCount
  BY RequestCountAssumption DEF IInv, TypeOK, ResponseNew
<1>2. CallTypeOK'
  BY <1>1 DEF IInv, TypeOK, CallTypeOK, ResponseNew, Goto, Locations,
              Requests, serverVars
<1>3. /\ pc[c] = "create" /\ pc'[c] = "create"
      /\ created'[c] = created[c] + 1
      /\ live'[c] = live[c] \cup {created[c] + 1}
  BY DEF IInv, TypeOK, ResponseNew, Goto
<1>4. CallInv(c)
  BY DEF IInv, FlowInv
<1>5. live'[c] = 1 .. created'[c]
  <2>1. live[c] = 1 .. created[c]
    BY <1>3, <1>4 DEF CallInv, CreateInv
  <2>2. created[c] \in Nat
    BY RequestCountAssumption DEF IInv, TypeOK
  <2>3. \A n \in Nat : 1 .. n + 1 = (1 .. n) \cup {n + 1}
    OBVIOUS
  <2> QED BY <1>3, <2>1, <2>2, <2>3
<1>6. CallInv(c)'
  BY <1>3, <1>4, <1>5
  DEF ResponseNew, serverVars, CallInv, CreateInv, ProcessInv, Processing,
      SendInv, ReleaseInv, ReturnInv, ResultInv, ReportInv
<1>7. \A d \in Calls \ {c} : Untouched(d)
  BY DEF IInv, TypeOK, ResponseNew, Goto, Untouched, serverVars
<1> QED BY <1>2, <1>6, <1>7 DEF StepOf

LEMMA CollectStep ==
    ASSUME IInv, NEW c \in Calls, Collect(c) \/ CollectFails(c)
    PROVE  StepOf(c)
<1>1. PICK S \in SUBSET Requests : RespondError(c, S)
  BY DEF IInv, TypeOK, Collect, CollectFails
<1>2. /\ answer' \in [Calls -> [Requests -> {"none", "ok", "error"}]]
      /\ live' \in [Calls -> SUBSET Requests]
      /\ live'[c] = live[c] \ S
      /\ \A q \in Requests : answer'[c][q] =
            IF q \in S \cap live[c] THEN "error" ELSE answer[c][q]
      /\ \A d \in Calls \ {c} : answer'[d] = answer[d] /\ live'[d] = live[d]
  BY <1>1, RespondErrorFacts DEF IInv
<1>3. CallTypeOK'
  BY <1>2
  DEF IInv, TypeOK, CallTypeOK, Collect, CollectFails, Goto, Locations
<1>4. CallInv(c)
  BY DEF IInv, FlowInv
<1>5. /\ pc[c] = "create" /\ pc'[c] = "compute" /\ created[c] = RequestCount
      /\ released'[c] = released[c] /\ reported'[c] = reported[c]
      /\ result'[c] = result[c]
  BY DEF IInv, TypeOK, Collect, CollectFails, Goto
<1>6. live[c] = Requests
  BY <1>4, <1>5 DEF CallInv, CreateInv, Requests
<1>7. ProcessInv(c)'
  BY <1>2, <1>4, <1>5, <1>6 DEF CallInv, CreateInv, ProcessInv
<1>8. CallInv(c)'
  BY <1>4, <1>5, <1>7
  DEF CallInv, CreateInv, SendInv, ReleaseInv, ReturnInv, ResultInv, ReportInv
<1>9. \A d \in Calls \ {c} : Untouched(d)
  BY <1>2 DEF IInv, TypeOK, Collect, CollectFails, Goto, Untouched
<1> QED BY <1>3, <1>8, <1>9 DEF StepOf

LEMMA ScatterStep ==
    ASSUME IInv, NEW c \in Calls, Scatter(c) PROVE StepOf(c)
<1>1. PICK S \in SUBSET Requests : RespondError(c, S)
  BY DEF IInv, TypeOK, Scatter
<1>2. /\ answer' \in [Calls -> [Requests -> {"none", "ok", "error"}]]
      /\ live' \in [Calls -> SUBSET Requests]
      /\ live'[c] = live[c] \ S
      /\ \A q \in Requests : answer'[c][q] =
            IF q \in S \cap live[c] THEN "error" ELSE answer[c][q]
      /\ \A d \in Calls \ {c} : answer'[d] = answer[d] /\ live'[d] = live[d]
  BY <1>1, RespondErrorFacts DEF IInv
<1>3. CallTypeOK'
  <2>1. created' \in [Calls -> 0 .. RequestCount]
    BY RequestCountAssumption DEF IInv, TypeOK, Scatter
  <2>2. pc' \in [Calls -> Locations]
    BY DEF IInv, TypeOK, Scatter, Goto, Locations
  <2> QED BY <1>2, <2>1, <2>2 DEF IInv, TypeOK, CallTypeOK, Scatter
<1>4. CallInv(c)
  BY DEF IInv, FlowInv
<1>5. /\ pc[c] = "scatter" /\ pc'[c] = "send" /\ created'[c] = 0
      /\ released'[c] = released[c] /\ reported'[c] = reported[c]
      /\ result'[c] = result[c]
  BY DEF IInv, TypeOK, Scatter, Goto
<1>6. SendInv(c)'
  BY <1>2, <1>4, <1>5, RequestCountAssumption
  DEF CallInv, ProcessInv, Processing, SendInv, Requests
<1>7. CallInv(c)'
  BY <1>4, <1>5, <1>6
  DEF CallInv, CreateInv, ProcessInv, Processing, ReleaseInv, ReturnInv,
      ResultInv, ReportInv
<1>8. \A d \in Calls \ {c} : Untouched(d)
  BY <1>2 DEF IInv, TypeOK, Scatter, Goto, Untouched
<1> QED BY <1>3, <1>7, <1>8 DEF StepOf

LEMMA SendStep ==
    ASSUME IInv, NEW c \in Calls, Send(c) PROVE StepOf(c)
<1>1. /\ pc[c] = "send" /\ SendInv(c) /\ CallInv(c)
      /\ created[c] \in 0 .. RequestCount /\ created[c] < RequestCount
  BY DEF IInv, TypeOK, FlowInv, CallInv, SendInv, Send, Goto
<1>2. Turn(c) \in Requests /\ Turn(c) = created[c] + 1
  BY <1>1, RequestCountAssumption DEF Turn, Requests
<1>3. /\ answer' \in [Calls -> [Requests -> {"none", "ok", "error"}]]
      /\ \A q \in Requests : answer'[c][q] =
            IF q = Turn(c) /\ q \in live[c] THEN "ok" ELSE answer[c][q]
      /\ \A d \in Calls \ {c} : answer'[d] = answer[d]
  BY <1>2 DEF IInv, TypeOK, Send
<1>4. /\ live' = live /\ input' = input /\ reported' = reported
      /\ released' = released /\ result' = result
      /\ pc'[c] = IF Turn(c) = RequestCount THEN "release" ELSE "send"
      /\ created'[c] = IF Turn(c) = RequestCount THEN 0 ELSE Turn(c)
  BY DEF IInv, TypeOK, Send, Goto, LastTurn
<1>5. CallTypeOK'
  <2>1. pc' \in [Calls -> Locations]
    BY DEF IInv, TypeOK, Send, Goto, Locations
  <2>2. created' \in [Calls -> 0 .. RequestCount]
    BY <1>2, RequestCountAssumption DEF IInv, TypeOK, Send, Requests
  <2> QED BY <1>3, <1>4, <2>1, <2>2 DEF IInv, TypeOK, CallTypeOK
<1>6. released'[c] = {} /\ ReportInv(c)' /\ result'[c] = "running"
  BY <1>1, <1>4 DEF CallInv, SendInv, ReportInv, ResultInv
<1>7. ASSUME Turn(c) = RequestCount PROVE CallInv(c)'
  <2>1. \A q \in Requests :
           answer'[c][q] # "none" /\ (q \in live[c] <=> answer'[c][q] = "ok")
    <3> TAKE q \in Requests
    <3>1. q <= created[c] \/ q = Turn(c)
      BY <1>1, <1>2, <1>7, RequestCountAssumption DEF Requests
    <3>2. ~(Turn(c) <= created[c])
      BY <1>1, <1>2
    <3> QED BY <1>1, <1>3, <3>1, <3>2 DEF SendInv
  <2>2. 1 .. 0 = {}
    OBVIOUS
  <2>3. ReleaseInv(c)'
    BY <1>4, <1>7, <1>6, <2>1, <2>2, RequestCountAssumption DEF ReleaseInv
  <2>4. pc'[c] = "release"
    BY <1>4, <1>7
  <2> QED BY <1>6, <2>3, <2>4
      DEF CallInv, CreateInv, ProcessInv, Processing, SendInv, ReturnInv,
          ResultInv
<1>8. ASSUME Turn(c) # RequestCount PROVE CallInv(c)'
  <2>1. SendInv(c)'
    BY <1>1, <1>2, <1>3, <1>4, <1>8, RequestCountAssumption
    DEF SendInv, Requests
  <2>2. pc'[c] = "send"
    BY <1>4, <1>8
  <2> QED BY <1>6, <2>1, <2>2
      DEF CallInv, CreateInv, ProcessInv, Processing, ReleaseInv, ReturnInv,
          ResultInv
<1>9. \A d \in Calls \ {c} : Untouched(d)
  BY <1>3 DEF IInv, TypeOK, Send, Goto, Untouched
<1> QED BY <1>5, <1>7, <1>8, <1>9 DEF StepOf

LEMMA ReleaseStep ==
    ASSUME IInv, NEW c \in Calls, Release(c) PROVE StepOf(c)
<1>1. /\ pc[c] = "release" /\ ReleaseInv(c) /\ CallInv(c)
      /\ created[c] \in 0 .. RequestCount /\ created[c] < RequestCount
  BY DEF IInv, TypeOK, FlowInv, CallInv, ReleaseInv, Release, Goto
<1>2. Turn(c) \in Requests /\ Turn(c) = created[c] + 1
  BY <1>1, RequestCountAssumption DEF Turn, Requests
<1>3. /\ live' = live /\ input' = input /\ answer' = answer /\ result' = result
      /\ pc'[c] = IF Turn(c) = RequestCount THEN "return" ELSE "release"
      /\ created'[c] = Turn(c)
      /\ released'[c] = released[c] \cup {Turn(c)}
      /\ reported'[c] = IF Backend[c] = "recommended" /\ Turn(c) \in live[c]
                        THEN reported[c] \cup {Turn(c)} ELSE reported[c]
  BY DEF IInv, TypeOK, Release, Report, Success, Goto, LastTurn
<1>4. CallTypeOK'
  <2>1. pc' \in [Calls -> Locations]
    BY DEF IInv, TypeOK, Release, Goto, Locations
  <2>2. created' \in [Calls -> 0 .. RequestCount]
    BY <1>2, RequestCountAssumption DEF IInv, TypeOK, Release, Requests
  <2>3. released' \in [Calls -> SUBSET Requests]
    BY <1>2 DEF IInv, TypeOK, Release
  <2>4. reported' \in [Calls -> SUBSET Requests]
    BY <1>2 DEF IInv, TypeOK, Release, Report
  <2> QED BY <1>3, <2>1, <2>2, <2>3, <2>4 DEF IInv, TypeOK, CallTypeOK
<1>5. released'[c] = 1 .. created'[c]
  <2>1. \A n \in Nat : 1 .. n + 1 = (1 .. n) \cup {n + 1}
    OBVIOUS
  <2> QED BY <1>1, <1>2, <1>3, <2>1, RequestCountAssumption DEF ReleaseInv
<1>6. ReportInv(c)'
  <2>1. Turn(c) \notin released[c]
    BY <1>1, <1>2 DEF ReleaseInv
  <2>2. Turn(c) \in live[c] <=> answer[c][Turn(c)] = "ok"
    BY <1>1, <1>2 DEF ReleaseInv
  <2> QED BY <1>1, <1>3, <2>1, <2>2 DEF CallInv, ReportInv
<1>7. ReleaseInv(c)' /\ ReturnInv(c)'
  <2>1. \A q \in Requests :
           answer[c][q] # "none" /\ (q \in live[c] <=> answer[c][q] = "ok")
    BY <1>1 DEF ReleaseInv
  <2>2. CASE Turn(c) = RequestCount
    BY <1>3, <1>5, <2>2 DEF ReleaseInv, ReturnInv, Requests
  <2>3. CASE Turn(c) # RequestCount
    BY <1>2, <1>3, <1>5, <2>1, <2>3, RequestCountAssumption
    DEF ReleaseInv, ReturnInv, Requests
  <2> QED BY <2>2, <2>3
<1>8. CallInv(c)'
  BY <1>1, <1>3, <1>6, <1>7
  DEF CallInv, CreateInv, ProcessInv, Processing, SendInv, ResultInv
<1>9. \A d \in Calls \ {c} : Untouched(d)
  BY DEF IInv, TypeOK, Release, Report, Goto, Untouched
<1> QED BY <1>4, <1>8, <1>9 DEF StepOf

LEMMA ReturnStep == ASSUME IInv, NEW c \in Calls, Return(c) PROVE StepOf(c)
<1>1. CallTypeOK'
  BY DEF IInv, TypeOK, CallTypeOK, Return, Goto, Locations
<1>2. CallInv(c)'
  BY DEF IInv, TypeOK, FlowInv, Return, Goto, CallInv, CreateInv, ProcessInv,
         Processing, SendInv, ReleaseInv, ReturnInv, ResultInv, ReportInv
<1>3. \A d \in Calls \ {c} : Untouched(d)
  BY DEF IInv, TypeOK, Return, Goto, Untouched
<1> QED BY <1>1, <1>2, <1>3 DEF StepOf
-----------------------------------------------------------------------------
LEMMA Step == IInv /\ [Next]_vars => IInv'
<1> SUFFICES ASSUME IInv, [Next]_vars PROVE IInv'
  OBVIOUS
<1>1. ShapeTypeOK'
  BY ShapeTypeStep DEF IInv
<1>2. ASSUME NEW c \in Calls, StepOf(c) PROVE CallTypeOK' /\ FlowInv'
  <2>1. ASSUME NEW d \in Calls \ {c} PROVE CallInv(d)'
    <3>1. Untouched(d)
      BY <1>2 DEF StepOf
    <3>2. CallInv(d)
      BY DEF IInv, FlowInv
    <3> QED BY <3>1, <3>2
        DEF Untouched, CallInv, CreateInv, ProcessInv, Processing, SendInv,
            ReleaseInv, ReturnInv, ResultInv, ReportInv
  <2> QED BY <1>2, <2>1 DEF StepOf, FlowInv
<1>3. ASSUME NEW c \in Calls, Execute(c) PROVE StepOf(c)
  BY <1>3, QuietSteps, FailStep, ResponseNewStep, CollectStep, ScatterStep,
     SendStep, ReleaseStep, ReturnStep
  DEF Execute
<1>4. CASE Terminating \/ UNCHANGED vars
  <2>1. UNCHANGED vars
    BY <1>4 DEF Terminating
  <2>2. CallTypeOK'
    BY <2>1 DEF IInv, TypeOK, CallTypeOK, vars, modelVars, serverVars
  <2>3. FlowInv'
    BY <2>1 DEF IInv, FlowInv, vars, modelVars, serverVars, CallInv,
       CreateInv, ProcessInv, Processing, SendInv, ReleaseInv, ReturnInv,
       ResultInv, ReportInv
  <2> QED BY <1>1, <2>2, <2>3
      DEF IInv, TypeOK, CallTypeOK, ShapeTypeOK
<1>5. CASE \E c \in Calls : Execute(c)
  BY <1>1, <1>2, <1>3, <1>5 DEF IInv, TypeOK, CallTypeOK, ShapeTypeOK
<1> QED BY <1>4, <1>5 DEF Next

LEMMA Invariance == Spec => []IInv
BY InitInvariant, Step, PTL DEF Spec

(***************************************************************************)
(* The types, for any number of calls and requests.                        *)
(***************************************************************************)
THEOREM TypeCorrect == Spec => []TypeOK
<1>1. IInv => TypeOK
  BY DEF IInv
<1> QED BY Invariance, <1>1, PTL

(***************************************************************************)
(* A response is null exactly if its request was answered, while the call  *)
(* processes its batch.                                                    *)
(***************************************************************************)
THEOREM ResponsesTrackAnswers == Spec => []NullIffAnswered
<1>1. IInv => NullIffAnswered
  BY DEF IInv, FlowInv, CallInv, ProcessInv, NullIffAnswered
<1> QED BY Invariance, <1>1, PTL

(***************************************************************************)
(* The statistics say success exactly of the requests answered with one.   *)
(***************************************************************************)
THEOREM StatisticsHonest == Spec => []ReportedAsAnswered
<1>1. IInv => ReportedAsAnswered
  BY DEF IInv, FlowInv, CallInv, ReportInv, ReportedAsAnswered
<1> QED BY Invariance, <1>1, PTL
-----------------------------------------------------------------------------
(***************************************************************************)
(* A call whose input is not the batched tensor has no response that it    *)
(* could send with outputs.                                                *)
(***************************************************************************)
Batched(c) ==
    \/ input[c] = "batched"
    \/ /\ \A q \in Requests : answer[c][q] # "ok"
       /\ pc[c] \notin {"idle", "create", "returned"} => live[c] = {}

BatchedInv == \A c \in Calls : Batched(c)

LEMMA BatchedStep ==
    ASSUME IInv, BatchedInv, NEW c \in Calls, Execute(c) PROVE BatchedInv'
<1>1. Batched(c) /\ TypeOK
  BY DEF BatchedInv, IInv
<1>2. \A d \in Calls \ {c} : Untouched(d)
  BY QuietSteps, FailStep, ResponseNewStep, CollectStep, ScatterStep,
     SendStep, ReleaseStep, ReturnStep DEF Execute, StepOf
<1>3. \A d \in Calls \ {c} : input'[d] = input[d]
  BY <1>1 DEF TypeOK, Execute, Call, Fail, ResponseNew, Collect, CollectFails, Compute,
     LocalShape, CheckInitialized, PushBatchDim, InsertDims, SetInitialized, CopyShape,
     Scatter, Send, Release, Return
<1>4. Batched(c)'
  <2>1. CASE Collect(c)
    BY <1>1, <2>1 DEF Collect, TypeOK, Batched
  <2>2. CASE CollectFails(c)
    <3>1. /\ live'[c] = live[c] \ Requests
          /\ \A q \in Requests : answer'[c][q] =
                IF q \in Requests \cap live[c] THEN "error" ELSE answer[c][q]
      BY <1>1, <2>2, RespondErrorFacts DEF CollectFails
    <3>2. live[c] \subseteq Requests /\ pc[c] = "create"
      BY <1>1, <2>2 DEF TypeOK, CollectFails, Goto
    <3>3. \A q \in Requests : answer[c][q] = "none"
      BY <3>2 DEF IInv, FlowInv, CallInv, CreateInv
    <3> QED BY <3>1, <3>2, <3>3 DEF Batched
  <2>3. CASE Scatter(c)
    <3>1. PICK S \in SUBSET Requests : RespondError(c, S)
      BY <1>1, <2>3 DEF TypeOK, Scatter
    <3>2. /\ live'[c] = live[c] \ S
          /\ \A q \in Requests : answer'[c][q] =
                IF q \in S \cap live[c] THEN "error" ELSE answer[c][q]
      BY <1>1, <3>1, RespondErrorFacts
    <3> QED BY <1>1, <2>3, <3>2 DEF Scatter, Goto, TypeOK, Batched
  <2>4. CASE Send(c)
    <3>1. input'[c] = input[c] /\ live'[c] = live[c] /\ pc[c] = "send"
      BY <2>4 DEF Send, Goto
    <3>2. live[c] = {} => answer' = answer
      BY <2>4 DEF Send
    <3> QED BY <1>1, <3>1, <3>2 DEF Batched
  <2>5. CASE \/ Call(c) \/ Fail(c) \/ ResponseNew(c) \/ Compute(c) \/ LocalShape(c)
             \/ CheckInitialized(c) \/ PushBatchDim(c) \/ InsertDims(c) \/ SetInitialized(c)
             \/ CopyShape(c) \/ Release(c) \/ Return(c)
    <3>1. input'[c] = input[c] /\ answer'[c] = answer[c]
      BY <2>5 DEF Call, Fail, ResponseNew, Compute, LocalShape, CheckInitialized,
         PushBatchDim, InsertDims, SetInitialized, CopyShape, Release, Return, serverVars
    <3>2. \/ pc'[c] \in {"idle", "create", "returned"}
          \/ /\ live'[c] = live[c]
             /\ pc[c] \notin {"idle", "create", "returned"}
      BY <1>1, <2>5 DEF TypeOK, Goto, Call, Fail, ResponseNew, Compute, LocalShape,
         CheckInitialized, PushBatchDim, InsertDims, SetInitialized, CopyShape, Release, Return
    <3> QED BY <1>1, <3>1, <3>2 DEF Batched
  <2> QED BY <2>1, <2>2, <2>3, <2>4, <2>5 DEF Execute
<1> QED BY <1>2, <1>3, <1>4 DEF BatchedInv, Batched, Untouched

(***************************************************************************)
(* Outputs that are returned were computed from the batched input tensor,  *)
(* also when a call failed to get memory for it and computed from what the *)
(* pointer was left at.                                                    *)
(***************************************************************************)
THEOREM OutputsFromBatch == Spec => []ComputedFromBatch
<1>1. Init => BatchedInv
  <2> SUFFICES ASSUME Init, NEW c \in Calls PROVE Batched(c)
    BY DEF BatchedInv
  <2>1. \A q \in Requests : answer[c][q] = "none"
    BY DEF Init
  <2>2. pc[c] = "idle"
    BY DEF Init
  <2> QED BY <2>1, <2>2 DEF Batched
<1>2. IInv /\ BatchedInv /\ [Next]_vars => BatchedInv'
  <2> SUFFICES ASSUME IInv, BatchedInv, [Next]_vars PROVE BatchedInv'
    OBVIOUS
  <2>1. CASE \E c \in Calls : Execute(c)
    BY <2>1, BatchedStep
  <2>2. CASE Terminating \/ UNCHANGED vars
    <3>1. UNCHANGED <<pc, live, input, answer>>
      BY <2>2 DEF Terminating, vars, serverVars
    <3> QED BY <3>1 DEF BatchedInv, Batched
  <2> QED BY <2>1, <2>2 DEF Next
<1>3. BatchedInv => ComputedFromBatch
  BY DEF BatchedInv, Batched, ComputedFromBatch
<1> QED BY Invariance, <1>1, <1>2, <1>3, PTL DEF Spec
-----------------------------------------------------------------------------
(***************************************************************************)
(* Every step of a call is a step of the abstract protocol, or changes     *)
(* nothing Triton sees.                                                    *)
(***************************************************************************)
LEMMA RespondErrorImplements ==
    ASSUME IInv, NEW c \in Calls, NEW S \in SUBSET Requests,
           RespondError(c, S), pc[c] # "returned",
           UNCHANGED <<released, result>>,
           \A q \in live[c] : answer[c][q] = "none"
    PROVE  Protocol!Respond(c)
<1> DEFINE T == S \cap live[c]
<1>1. result[c] = "running"
  BY DEF IInv, FlowInv, CallInv, ResultInv
<1>2. T \in SUBSET {q \in Requests : answer[c][q] = "none"}
  OBVIOUS
<1>3. answer' = [answer EXCEPT ![c] =
                    [q \in Requests |-> IF q \in T THEN "error" ELSE @[q]]]
  BY DEF RespondError
<1>4. "error" \in {"ok", "error"}
  OBVIOUS
<1> HIDE DEF T
<1> QED BY <1>1, <1>2, <1>3, <1>4 DEF Protocol!Respond

LEMMA SendImplements ==
    ASSUME IInv, NEW c \in Calls, Send(c)
    PROVE  Protocol!Respond(c) \/ UNCHANGED serverVars
<1>1. /\ pc[c] = "send" /\ SendInv(c)
      /\ created[c] \in 0 .. RequestCount /\ created[c] < RequestCount
      /\ result[c] = "running"
  BY DEF IInv, TypeOK, FlowInv, CallInv, SendInv, ResultInv, Send, Goto
<1>2. Turn(c) \in Requests /\ ~(Turn(c) <= created[c])
  BY <1>1, RequestCountAssumption DEF Turn, Requests
<1>3. CASE Turn(c) \notin live[c]
  BY <1>3 DEF Send, serverVars
<1>4. CASE Turn(c) \in live[c]
  <2>1. answer[c][Turn(c)] = "none"
    BY <1>1, <1>2, <1>4 DEF SendInv
  <2>2. {Turn(c)} \in SUBSET {q \in Requests : answer[c][q] = "none"}
    BY <1>2, <2>1
  <2>3. answer' = [answer EXCEPT ![c][Turn(c)] = "ok"]
    BY <1>4 DEF Send
  <2>4. answer' = [answer EXCEPT ![c] =
                      [q \in Requests |-> IF q \in {Turn(c)} THEN "ok" ELSE @[q]]]
    <3>1. answer[c] \in [Requests -> {"none", "ok", "error"}]
      BY DEF IInv, TypeOK
    <3>2. [answer[c] EXCEPT ![Turn(c)] = "ok"] =
             [q \in Requests |-> IF q \in {Turn(c)} THEN "ok" ELSE answer[c][q]]
      BY <1>2, <3>1
    <3> QED BY <2>3, <3>2
  <2>5. UNCHANGED <<released, result>>
    BY DEF Send
  <2> QED BY <1>1, <2>2, <2>4, <2>5 DEF Protocol!Respond
<1> QED BY <1>3, <1>4

LEMMA ReleaseImplements ==
    ASSUME IInv, NEW c \in Calls, Release(c) PROVE Protocol!Release(c)
<1>1. /\ pc[c] = "release" /\ ReleaseInv(c)
      /\ created[c] \in 0 .. RequestCount /\ created[c] < RequestCount
      /\ result[c] = "running"
  BY DEF IInv, TypeOK, FlowInv, CallInv, ReleaseInv, ResultInv, Release, Goto
<1>2. Turn(c) \in Requests \ released[c]
  BY <1>1, RequestCountAssumption DEF Turn, Requests, ReleaseInv
<1>3. answer[c][Turn(c)] # "none"
  BY <1>1, <1>2 DEF ReleaseInv
<1> QED BY <1>1, <1>2, <1>3 DEF Release, Protocol!Release

LEMMA StepImplements ==
    IInv /\ [Next]_vars => [Protocol!Next]_(Protocol!vars)
<1> SUFFICES ASSUME IInv, [Next]_vars
             PROVE  Protocol!Next \/ UNCHANGED serverVars
  BY DEF Protocol!vars, serverVars
<1>1. ASSUME NEW c \in Calls,
             \/ Call(c) \/ Compute(c) \/ LocalShape(c) \/ CheckInitialized(c)
             \/ PushBatchDim(c) \/ InsertDims(c) \/ SetInitialized(c)
             \/ CopyShape(c) \/ ResponseNew(c)
      PROVE  UNCHANGED serverVars
  BY <1>1 DEF Call, Compute, LocalShape, CheckInitialized, PushBatchDim,
              InsertDims, SetInitialized, CopyShape, ResponseNew
<1>2. ASSUME NEW c \in Calls, Fail(c) PROVE Protocol!Reject(c)
  BY <1>2 DEF Fail, Goto, IInv, FlowInv, CallInv, CreateInv, ResultInv,
              Protocol!Reject
<1>3. ASSUME NEW c \in Calls, Collect(c) \/ CollectFails(c) \/ Scatter(c)
      PROVE  Protocol!Respond(c)
  <2>1. PICK S \in SUBSET Requests : RespondError(c, S)
    BY <1>3 DEF IInv, TypeOK, Collect, CollectFails, Scatter
  <2>2. pc[c] \in {"create", "scatter"} /\ UNCHANGED <<released, result>>
    BY <1>3 DEF Collect, CollectFails, Scatter, Goto
  <2>3. CreateInv(c) /\ ProcessInv(c) /\ live[c] \in SUBSET Requests
    BY DEF IInv, TypeOK, FlowInv, CallInv
  <2>4. \A q \in live[c] : answer[c][q] = "none"
    BY <2>2, <2>3 DEF CreateInv, ProcessInv, Processing
  <2> QED BY <2>1, <2>2, <2>4, RespondErrorImplements
<1>4. ASSUME NEW c \in Calls, Return(c) PROVE Protocol!Return(c)
  BY <1>4 DEF Return, Goto, IInv, FlowInv, CallInv, ReturnInv, ResultInv,
              Protocol!Return
<1>5. CASE \E c \in Calls : Execute(c)
  BY <1>1, <1>2, <1>3, <1>4, <1>5, SendImplements, ReleaseImplements
  DEF Execute, Protocol!Next
<1>6. CASE Terminating \/ UNCHANGED vars
  BY <1>6 DEF Terminating, vars, serverVars
<1> QED BY <1>5, <1>6 DEF Next

(***************************************************************************)
(* ModelInstanceExecute implements ResponseProtocol: each request is       *)
(* answered exactly once and then released, or Execute returns an error    *)
(* and answers nobody.                                                     *)
(***************************************************************************)
THEOREM Implements == Spec => ProtocolKept
<1>1. Init => Protocol!Init
  BY DEF Init, Protocol!Init
<1> QED BY Invariance, StepImplements, <1>1, PTL
        DEF Spec, ProtocolKept, Protocol!Spec
-----------------------------------------------------------------------------
(***************************************************************************)
(* What follows from the protocol alone, for any number of calls and       *)
(* requests.                                                               *)
(***************************************************************************)
LEMMA ProtocolInit == Protocol!Init => Protocol!TypeOK /\ Protocol!Settled
BY DEF Protocol!Init, Protocol!TypeOK, Protocol!Settled, Protocol!Answers, Protocol!Results

\* Responding changes only answers that were "none", to one that is not.
LEMMA ProtocolRespond ==
    ASSUME Protocol!TypeOK, NEW c \in Calls, Protocol!Respond(c)
    PROVE  /\ answer' \in [Calls -> [Requests -> Protocol!Answers]]
           /\ \A d \in Calls, q \in Requests :
                 /\ answer[d][q] # "none" => answer'[d][q] = answer[d][q]
                 /\ d # c => answer'[d] = answer[d]
<1>1. PICK a \in {"ok", "error"} :
         \E S \in SUBSET {q \in Requests : answer[c][q] = "none"} :
            answer' = [answer EXCEPT ![c] =
                          [q \in Requests |-> IF q \in S THEN a ELSE @[q]]]
  BY DEF Protocol!Respond
<1>2. PICK S \in SUBSET {q \in Requests : answer[c][q] = "none"} :
         answer' = [answer EXCEPT ![c] =
                       [q \in Requests |-> IF q \in S THEN a ELSE @[q]]]
  BY <1>1
<1>3. [q \in Requests |-> IF q \in S THEN a ELSE answer[c][q]]
         \in [Requests -> Protocol!Answers]
  BY DEF Protocol!TypeOK, Protocol!Answers
<1> QED BY <1>2, <1>3 DEF Protocol!TypeOK

LEMMA ProtocolTypeStep == Protocol!TypeOK /\ [Protocol!Next]_(Protocol!vars) => Protocol!TypeOK'
<1> SUFFICES ASSUME Protocol!TypeOK, [Protocol!Next]_(Protocol!vars) PROVE Protocol!TypeOK'
  OBVIOUS
<1>1. CASE UNCHANGED Protocol!vars
  BY <1>1 DEF Protocol!TypeOK, Protocol!vars
<1>2. ASSUME NEW c \in Calls, Protocol!Reject(c) PROVE Protocol!TypeOK'
  BY <1>2 DEF Protocol!Reject, Protocol!TypeOK, Protocol!Results
<1>3. ASSUME NEW c \in Calls, Protocol!Respond(c) PROVE Protocol!TypeOK'
  BY <1>3, ProtocolRespond DEF Protocol!Respond, Protocol!TypeOK
<1>4. ASSUME NEW c \in Calls, Protocol!Release(c) PROVE Protocol!TypeOK'
  BY <1>4 DEF Protocol!Release, Protocol!TypeOK
<1>5. ASSUME NEW c \in Calls, Protocol!Return(c) PROVE Protocol!TypeOK'
  BY <1>5 DEF Protocol!Return, Protocol!TypeOK, Protocol!Results
<1> QED BY <1>1, <1>2, <1>3, <1>4, <1>5 DEF Protocol!Next

LEMMA ProtocolSettledStep == Protocol!TypeOK /\ Protocol!Settled /\ [Protocol!Next]_(Protocol!vars) => Protocol!Settled'
<1> SUFFICES ASSUME Protocol!TypeOK, Protocol!Settled, [Protocol!Next]_(Protocol!vars) PROVE Protocol!Settled'
  OBVIOUS
<1>1. CASE UNCHANGED Protocol!vars
  BY <1>1 DEF Protocol!Settled, Protocol!vars
<1>2. ASSUME NEW c \in Calls, Protocol!Reject(c) PROVE Protocol!Settled'
  BY <1>2 DEF Protocol!Reject, Protocol!TypeOK, Protocol!Settled
<1>3. ASSUME NEW c \in Calls, Protocol!Respond(c) PROVE Protocol!Settled'
  <2>1. UNCHANGED <<released, result>> /\ result[c] = "running"
    BY <1>3 DEF Protocol!Respond
  <2>2. \A d \in Calls, q \in Requests :
           /\ answer[d][q] # "none" => answer'[d][q] = answer[d][q]
           /\ d # c => answer'[d] = answer[d]
    BY <1>3, ProtocolRespond
  <2> QED BY <2>1, <2>2 DEF Protocol!Settled, Protocol!TypeOK
<1>4. ASSUME NEW c \in Calls, Protocol!Release(c) PROVE Protocol!Settled'
  BY <1>4 DEF Protocol!Release, Protocol!TypeOK, Protocol!Settled
<1>5. ASSUME NEW c \in Calls, Protocol!Return(c) PROVE Protocol!Settled'
  BY <1>5 DEF Protocol!Return, Protocol!TypeOK, Protocol!Settled
<1> QED BY <1>1, <1>2, <1>3, <1>4, <1>5 DEF Protocol!Next

(***************************************************************************)
(* A call that failed answered nobody, one that succeeded answered         *)
(* everybody, and only answered requests are released.                     *)
(***************************************************************************)
LEMMA ProtocolSettled == Protocol!Spec => []Protocol!Settled
<1>1. Protocol!TypeOK /\ Protocol!Settled /\ [Protocol!Next]_(Protocol!vars) => (Protocol!TypeOK /\ Protocol!Settled)'
  BY ProtocolTypeStep, ProtocolSettledStep
<1> QED BY ProtocolInit, <1>1, PTL DEF Protocol!Spec

LEMMA ProtocolFinalStep ==
    Protocol!TypeOK /\ [Protocol!Next]_(Protocol!vars) =>
        [\A c \in Calls : \A q \in Requests :
            /\ answer[c][q] # "none" => answer'[c][q] = answer[c][q]
            /\ q \in released[c] => q \in released'[c]]_(Protocol!vars)
<1> SUFFICES ASSUME Protocol!TypeOK, Protocol!Next, NEW c \in Calls, NEW q \in Requests
             PROVE  /\ answer[c][q] # "none" => answer'[c][q] = answer[c][q]
                    /\ q \in released[c] => q \in released'[c]
  OBVIOUS
<1>1. ASSUME NEW d \in Calls, Protocol!Respond(d)
      PROVE  /\ answer[c][q] # "none" => answer'[c][q] = answer[c][q]
             /\ q \in released[c] => q \in released'[c]
  BY <1>1, ProtocolRespond DEF Protocol!Respond
<1>2. ASSUME NEW d \in Calls, Protocol!Reject(d) \/ Protocol!Release(d) \/ Protocol!Return(d)
      PROVE  /\ answer[c][q] # "none" => answer'[c][q] = answer[c][q]
             /\ q \in released[c] => q \in released'[c]
  BY <1>2 DEF Protocol!Reject, Protocol!Release, Protocol!Return, Protocol!TypeOK
<1> QED BY <1>1, <1>2 DEF Protocol!Next

(***************************************************************************)
(* No request is answered twice, and none is taken back.                   *)
(***************************************************************************)
LEMMA ProtocolAnsweredOnce == Protocol!Spec => Protocol!AnswerIsFinal
<1>1. Protocol!Spec => []Protocol!TypeOK
  BY ProtocolInit, ProtocolTypeStep, PTL DEF Protocol!Spec
<1> QED BY <1>1, ProtocolFinalStep, PTL DEF Protocol!Spec, Protocol!AnswerIsFinal

(***************************************************************************)
(* A call that fails has answered nobody and keeps nothing, one that       *)
(* succeeds has answered everybody, and no request is released before it   *)
(* was answered: whatever calls run at the same time, on whatever          *)
(* instances, and whatever fails.                                          *)
(***************************************************************************)
THEOREM AlwaysSettled == Spec => []Protocol!Settled
BY Implements, ProtocolSettled, PTL DEF ProtocolKept

(***************************************************************************)
(* No answer of a call is ever changed or given twice, and no request that *)
(* was released comes back.                                                *)
(***************************************************************************)
THEOREM AnsweredOnce == Spec => Protocol!AnswerIsFinal
BY Implements, ProtocolAnsweredOnce, PTL DEF ProtocolKept
-----------------------------------------------------------------------------
(***************************************************************************)
(* 2.  ProcessBatchInput.                                                  *)
(*                                                                         *)
(* What the folds of BatchInput compute, step by step.                     *)
(***************************************************************************)
TimesDim(count, dim) == count * dim
PlusRows(total, dims) == total + dims[1]
PlusNumbers(n, dims) == n + dims[1] * (Len(dims) - 1)
LargerCount(n, dims) == IF GetElementCount(dims) > n THEN GetElementCount(dims) ELSE n
PlusCount(total, n) == n + total
Joined(a, b) == a \o b

Times == INSTANCE FoldTheorems WITH Op <- TimesDim
Rows == INSTANCE FoldTheorems WITH Op <- PlusRows
Numbered == INSTANCE FoldTheorems WITH Op <- PlusNumbers
Largest == INSTANCE FoldTheorems WITH Op <- LargerCount
Counting == INSTANCE FoldTheorems WITH Op <- PlusCount
Joining == INSTANCE FoldTheorems WITH Op <- Joined

Shapes == Seq(Nat) \ {<<>>}

LEMMA ElementCountIsFold ==
    \A dims : GetElementCount(dims)
                   = Times!FoldOver(DOMAIN Tail(dims), Tail(dims), Head(dims))[DOMAIN Tail(dims)]
BY DEF GetElementCount, FoldLeft, MapThenFoldSet, Max, Times!FoldOver, Times!Largest, TimesDim

\* No dimension being negative, neither is the number of elements.
LEMMA ElementCountType ==
    ASSUME NEW dims \in Shapes PROVE GetElementCount(dims) \in Nat
<1>1. /\ Head(dims) \in Nat /\ Tail(dims) \in Seq(Nat)
    BY DEF Shapes
<1> DEFINE rest == Tail(dims)
           base == Head(dims)
<1>2. Len(rest) \in Nat /\ DOMAIN rest = 1 .. Len(rest) /\ \A k \in 1 .. Len(rest) : rest[k] \in Nat
    BY <1>1
<1>3. base \in Nat
    BY <1>1
<1> HIDE DEF rest, base
<1>4. \A v \in Nat, k \in 1 .. Len(rest) : TimesDim(v, rest[k]) \in Nat
    BY <1>2 DEF TimesDim
<1>5. Times!FoldOver(1 .. Len(rest), rest, base)[1 .. Len(rest)] \in Nat
    BY <1>2, <1>3, <1>4, Times!FoldStays
<1> QED BY <1>2, <1>5, ElementCountIsFold DEF rest, base

\* A tensor of one dimension has as many elements as that, one of two their product.
LEMMA ElementCountOfOne ==
    ASSUME NEW n \in Nat PROVE GetElementCount(<<n>>) = n
<1>1. Tail(<<n>>) = <<>> /\ Head(<<n>>) = n
    OBVIOUS
<1>2. DOMAIN <<>> = 1 .. 0
    OBVIOUS
<1>3. Times!FoldOver(1 .. 0, <<>>, n)[1 .. 0] = n
    BY Times!FoldOfNothing
<1> QED BY <1>1, <1>2, <1>3, ElementCountIsFold

LEMMA ElementCountOfTwo ==
    ASSUME NEW n \in Nat, NEW d \in Nat PROVE GetElementCount(<<n, d>>) = n * d
<1>1. Tail(<<n, d>>) = <<d>> /\ Head(<<n, d>>) = n
    OBVIOUS
<1>2. DOMAIN <<d>> = 1 .. 0 + 1 /\ DOMAIN <<>> = 1 .. 0 /\ <<d>>[0 + 1] = d
    OBVIOUS
<1>3. Times!FoldOver(1 .. 0, <<>>, n)[1 .. 0] = n
    BY Times!FoldOfNothing
<1>4. Times!FoldOver(1 .. 0 + 1, <<d>>, n)[1 .. 0 + 1]
          = TimesDim(Times!FoldOver(1 .. 0, <<>>, n)[1 .. 0], <<d>>[0 + 1])
    <2> DEFINE u == <<d>>
               s == <<>>
    <2>1. \A k \in 1 .. 0 : s[k] = u[k]
        OBVIOUS
    <2> HIDE DEF u, s
    <2>2. Times!FoldOver(1 .. 0 + 1, u, n)[1 .. 0 + 1]
          = TimesDim(Times!FoldOver(1 .. 0, s, n)[1 .. 0], u[0 + 1])
        BY ZenonT(40), <2>1, 0 \in Nat, Times!FoldOneMore
    <2> QED BY <2>2 DEF u, s
<1> QED BY <1>1, <1>2, <1>3, <1>4, ElementCountIsFold DEF TimesDim
-----------------------------------------------------------------------------
\* The batch dimensions of the first q requests, added up.
RowsUpTo(shapes, q) == BatchSize(SubSeq(shapes, 1, q))

LEMMA BatchSizeIsFold ==
    \A shapes : BatchSize(shapes) = Rows!FoldOver(DOMAIN shapes, shapes, 0)[DOMAIN shapes]
BY DEF BatchSize, FoldLeft, MapThenFoldSet, Max, Rows!FoldOver, Rows!Largest, PlusRows

LEMMA BatchSizeType ==
    ASSUME NEW shapes \in Seq(Shapes) PROVE BatchSize(shapes) \in Nat
<1>1. /\ Len(shapes) \in Nat /\ DOMAIN shapes = 1 .. Len(shapes)
      /\ \A k \in 1 .. Len(shapes) : shapes[k] \in Shapes
    OBVIOUS
<1>2. \A dims \in Shapes : dims[1] \in Nat
    BY DEF Shapes
<1>3. \A v \in Nat, k \in 1 .. Len(shapes) : PlusRows(v, shapes[k]) \in Nat
    BY <1>1, <1>2 DEF PlusRows
<1>4. Rows!FoldOver(1 .. Len(shapes), shapes, 0)[1 .. Len(shapes)] \in Nat
    BY <1>1, <1>3, Rows!FoldStays
<1> QED BY <1>1, <1>4, BatchSizeIsFold

\* A part of the requests, and one more of them.
LEMMA PrefixFacts ==
    ASSUME NEW V, NEW s \in Seq(V), NEW q \in 1 .. Len(s)
    PROVE  LET n == q - 1
               a == SubSeq(s, 1, n)
               b == SubSeq(s, 1, q)
           IN  /\ n \in Nat /\ n + 1 = q
               /\ DOMAIN a = 1 .. n /\ DOMAIN b = 1 .. n + 1
               /\ \A k \in 1 .. n : a[k] = b[k]
               /\ b[n + 1] = s[q]
OBVIOUS

\* One shape more adds its batch dimension.
LEMMA BatchSizeOneMore ==
    ASSUME NEW n \in Nat, NEW a, NEW b, DOMAIN a = 1 .. n, DOMAIN b = 1 .. n + 1,
           \A k \in 1 .. n : a[k] = b[k]
    PROVE  BatchSize(b) = BatchSize(a) + b[n + 1][1]
<1>1. Rows!FoldOver(1 .. n + 1, b, 0)[1 .. n + 1]
          = PlusRows(Rows!FoldOver(1 .. n, a, 0)[1 .. n], b[n + 1])
    BY Rows!FoldOneMore
<1> QED BY <1>1, BatchSizeIsFold DEF PlusRows

LEMMA RowsFacts ==
    ASSUME NEW shapes \in Seq(Shapes)
    PROVE  /\ RowsUpTo(shapes, 0) = 0
           /\ \A q \in 0 .. Len(shapes) : RowsUpTo(shapes, q) \in Nat
           /\ \A q \in 1 .. Len(shapes) :
                 RowsUpTo(shapes, q) = RowsUpTo(shapes, q - 1) + shapes[q][1]
           /\ RowsUpTo(shapes, Len(shapes)) = BatchSize(shapes)
<1>1. RowsUpTo(shapes, 0) = 0
    <2>1. SubSeq(shapes, 1, 0) = <<>> /\ DOMAIN <<>> = 1 .. 0
        OBVIOUS
    <2>2. Rows!FoldOver(1 .. 0, <<>>, 0)[1 .. 0] = 0
        BY Rows!FoldOfNothing
    <2> QED BY <2>1, <2>2, BatchSizeIsFold DEF RowsUpTo
<1>2. ASSUME NEW q \in 0 .. Len(shapes) PROVE RowsUpTo(shapes, q) \in Nat
    <2>1. SubSeq(shapes, 1, q) \in Seq(Shapes)
        OBVIOUS
    <2> QED BY <2>1, BatchSizeType DEF RowsUpTo
<1>3. ASSUME NEW q \in 1 .. Len(shapes)
      PROVE  RowsUpTo(shapes, q) = RowsUpTo(shapes, q - 1) + shapes[q][1]
    <2> DEFINE n == q - 1
               a == SubSeq(shapes, 1, n)
               b == SubSeq(shapes, 1, q)
    <2>1. /\ n \in Nat /\ n + 1 = q
          /\ DOMAIN a = 1 .. n /\ DOMAIN b = 1 .. n + 1
          /\ \A k \in 1 .. n : a[k] = b[k]
          /\ b[n + 1] = shapes[q]
        BY PrefixFacts
    <2> HIDE DEF n, a, b
    <2>3. BatchSize(b) = BatchSize(a) + shapes[q][1]
        BY <2>1, BatchSizeOneMore
    <2> QED BY <2>3 DEF RowsUpTo, n, a, b
<1>4. RowsUpTo(shapes, Len(shapes)) = BatchSize(shapes)
    <2>1. SubSeq(shapes, 1, Len(shapes)) = shapes
        OBVIOUS
    <2> QED BY <2>1 DEF RowsUpTo
<1> QED BY <1>1, <1>2, <1>3, <1>4
-----------------------------------------------------------------------------
LEMMA Distributes ==
    ASSUME NEW a \in Nat, NEW b \in Nat, NEW d \in Nat
    PROVE  a * d \in Nat /\ (a + b) * d = a * d + b * d /\ 0 * d = 0
OBVIOUS

LEMMA ProductGrows ==
    ASSUME NEW a \in Nat, NEW b \in Nat, a <= b, NEW d \in Nat PROVE a * d <= b * d
<1> DEFINE e == b - a
<1>1. e \in Nat /\ b = a + e
    OBVIOUS
<1> HIDE DEF e
<1>2. a * d \in Nat /\ e * d \in Nat /\ (a + e) * d = a * d + e * d
    BY <1>1, Distributes
<1> QED BY <1>1, <1>2

\* How many numbers describe the shapes of all items: BATCH_ITEM_SHAPE_FLATTEN.
ItemNumbers(shapes) == FoldLeft(LAMBDA n, dims : n + dims[1] * (Len(dims) - 1), 0, shapes)

LEMMA ItemNumbersIsFold ==
    \A shapes : ItemNumbers(shapes)
                    = Numbered!FoldOver(DOMAIN shapes, shapes, 0)[DOMAIN shapes]
BY DEF ItemNumbers, FoldLeft, MapThenFoldSet, Max, Numbered!FoldOver, Numbered!Largest, PlusNumbers

LEMMA ItemNumbersOneMore ==
    ASSUME NEW n \in Nat, NEW a, NEW b, DOMAIN a = 1 .. n, DOMAIN b = 1 .. n + 1,
           \A k \in 1 .. n : a[k] = b[k]
    PROVE  ItemNumbers(b) = ItemNumbers(a) + b[n + 1][1] * (Len(b[n + 1]) - 1)
<1>1. Numbered!FoldOver(1 .. n + 1, b, 0)[1 .. n + 1]
          = PlusNumbers(Numbered!FoldOver(1 .. n, a, 0)[1 .. n], b[n + 1])
    BY Numbered!FoldOneMore
<1> QED BY <1>1, ItemNumbersIsFold DEF PlusNumbers

\* Of one rank, the shapes take a number for every item and dimension: the size that
\* BATCH_ITEM_SHAPE_FLATTEN computes is that of BATCH_ITEM_SHAPE.
LEMMA ItemNumbersIs ==
    ASSUME NEW shapes \in Seq(Shapes), NEW d \in Nat,
           \A k \in 1 .. Len(shapes) : Len(shapes[k]) - 1 = d
    PROVE  ItemNumbers(shapes) = BatchSize(shapes) * d
<1> DEFINE T == {q \in Nat : q <= Len(shapes) =>
                     ItemNumbers(SubSeq(shapes, 1, q)) = RowsUpTo(shapes, q) * d}
<1>1. 0 \in T
    <2>1. SubSeq(shapes, 1, 0) = <<>> /\ DOMAIN <<>> = 1 .. 0
        OBVIOUS
    <2>2. Numbered!FoldOver(1 .. 0, <<>>, 0)[1 .. 0] = 0
        BY Numbered!FoldOfNothing
    <2>3. ItemNumbers(SubSeq(shapes, 1, 0)) = 0
        BY <2>1, <2>2, ItemNumbersIsFold
    <2>4. RowsUpTo(shapes, 0) * d = 0
        BY RowsFacts, Distributes
    <2> QED BY <2>3, <2>4
<1>2. ASSUME NEW p \in Nat, p \in T, p + 1 <= Len(shapes)
      PROVE  ItemNumbers(SubSeq(shapes, 1, p + 1)) = RowsUpTo(shapes, p + 1) * d
    <2> DEFINE q == p + 1
               a == SubSeq(shapes, 1, p)
               b == SubSeq(shapes, 1, q)
    <2>0. q \in 1 .. Len(shapes) /\ q - 1 = p /\ p <= Len(shapes) /\ p \in 0 .. Len(shapes)
        BY <1>2
    <2>1. ItemNumbers(a) = RowsUpTo(shapes, p) * d
        BY <1>2, <2>0
    <2> HIDE DEF T
    <2>2. /\ DOMAIN a = 1 .. p /\ DOMAIN b = 1 .. p + 1
          /\ \A k \in 1 .. p : a[k] = b[k]
          /\ b[p + 1] = shapes[q]
        BY <2>0, PrefixFacts
    <2>3. shapes[q] \in Shapes /\ Len(shapes[q]) - 1 = d /\ shapes[q][1] \in Nat
        BY SMTT(30), <2>0 DEF Shapes
    <2>4. RowsUpTo(shapes, q) = RowsUpTo(shapes, p) + shapes[q][1] /\ RowsUpTo(shapes, p) \in Nat
        BY <2>0, RowsFacts
    <2> HIDE DEF q, a, b
    <2>5. ItemNumbers(b) = ItemNumbers(a) + shapes[q][1] * d
        <3>1. ItemNumbers(b) = ItemNumbers(a) + b[p + 1][1] * (Len(b[p + 1]) - 1)
            BY <2>2, ItemNumbersOneMore
        <3> QED BY <2>2, <2>3, <3>1
    <2>6. (RowsUpTo(shapes, p) + shapes[q][1]) * d = RowsUpTo(shapes, p) * d + shapes[q][1] * d
        BY <2>3, <2>4, Distributes
    <2> QED BY <2>1, <2>4, <2>5, <2>6 DEF q, a, b
<1>3. \A p \in Nat : p \in T => p + 1 \in T
    BY <1>2
<1> HIDE DEF T
<1>4. \A p \in Nat : p \in T
    BY <1>1, <1>3, Numbered!NaturalInduction
<1>5. Len(shapes) \in T /\ Len(shapes) <= Len(shapes) /\ SubSeq(shapes, 1, Len(shapes)) = shapes
    BY <1>4
<1>6. ItemNumbers(shapes) = RowsUpTo(shapes, Len(shapes)) * d
    BY <1>5 DEF T
<1> QED BY <1>6, RowsFacts
-----------------------------------------------------------------------------
\* The largest number of elements, which is a shape of BATCH_MAX_ELEMENT_COUNT_AS_SHAPE.
LargestCount(shapes) ==
    FoldLeft(LAMBDA n, dims : IF GetElementCount(dims) > n THEN GetElementCount(dims) ELSE n,
             0, shapes)

LEMMA LargestCountType ==
    ASSUME NEW shapes \in Seq(Shapes) PROVE LargestCount(shapes) \in Nat
<1>0. LargestCount(shapes) = Largest!FoldOver(DOMAIN shapes, shapes, 0)[DOMAIN shapes]
    BY DEF LargestCount, FoldLeft, MapThenFoldSet, Max, Largest!FoldOver, Largest!Largest, LargerCount
<1>1. /\ Len(shapes) \in Nat /\ DOMAIN shapes = 1 .. Len(shapes)
      /\ \A k \in 1 .. Len(shapes) : shapes[k] \in Shapes
    OBVIOUS
<1>2. \A v \in Nat, k \in 1 .. Len(shapes) : LargerCount(v, shapes[k]) \in Nat
    BY <1>1, ElementCountType DEF LargerCount
<1>3. Largest!FoldOver(1 .. Len(shapes), shapes, 0)[1 .. Len(shapes)] \in Nat
    BY <1>1, <1>2, Largest!FoldStays
<1> QED BY <1>0, <1>1, <1>3

Counts(shapes) == [p \in DOMAIN shapes |-> GetElementCount(shapes[p])]

LEMMA CountsUpToIsFold ==
    \A shapes, q : CountsUpTo(shapes, q) = Counting!SetValue(1 .. q, Counts(shapes), 0)
BY DEF CountsUpTo, FoldFunctionOnSet, MapThenFoldSet, Counts, Counting!SetValue, Counting!SetFold,
       Counting!Any, PlusCount

\* The accumulated element counts are running sums.
LEMMA CountsFacts ==
    ASSUME NEW shapes \in Seq(Shapes)
    PROVE  /\ CountsUpTo(shapes, 0) = 0
           /\ \A q \in 0 .. Len(shapes) : CountsUpTo(shapes, q) \in Nat
           /\ \A q \in 1 .. Len(shapes) :
                 CountsUpTo(shapes, q) = CountsUpTo(shapes, q - 1) + GetElementCount(shapes[q])
<1> DEFINE counts == Counts(shapes)
           n == Len(shapes)
<1>1. n \in Nat /\ \A q \in 1 .. n : counts[q] = GetElementCount(shapes[q]) /\ counts[q] \in Nat
    <2>1. n \in Nat /\ DOMAIN shapes = 1 .. n /\ \A q \in 1 .. n : shapes[q] \in Shapes
        OBVIOUS
    <2> HIDE DEF n
    <2> QED BY <2>1, ElementCountType DEF Counts
<1>2. \A q : CountsUpTo(shapes, q) = Counting!SetValue(1 .. q, counts, 0)
    BY CountsUpToIsFold
<1> HIDE DEF counts
<1>3. ASSUME NEW S \in SUBSET (1 .. n) PROVE Counting!Commutes(Nat, S, counts)
    <2>1. \A v \in Nat, x \in S : PlusCount(v, counts[x]) \in Nat
        BY <1>1 DEF PlusCount
    <2>2. ASSUME NEW v \in Nat, NEW x \in S, NEW y \in S
          PROVE  PlusCount(PlusCount(v, counts[x]), counts[y])
                     = PlusCount(PlusCount(v, counts[y]), counts[x])
        <3>1. counts[x] \in Nat /\ counts[y] \in Nat
            BY <1>1
        <3> QED BY <3>1 DEF PlusCount
    <2> QED BY <2>1, <2>2 DEF Counting!Commutes
<1>4. ASSUME NEW k \in Nat PROVE Counting!IsFiniteSet(1 .. k)
    <2>1. IsFiniteSet(1 .. k)
        BY FS_Interval
    <2> QED BY <2>1 DEF IsFiniteSet, Counting!IsFiniteSet
<1>5. CountsUpTo(shapes, 0) = 0
    <2>1. 1 .. 0 = {}
        OBVIOUS
    <2> QED BY <1>2, <2>1, Counting!SetValueEmpty
<1>6. ASSUME NEW q \in 0 .. n PROVE CountsUpTo(shapes, q) \in Nat
    <2>1. 1 .. q \in SUBSET (1 .. n) /\ q \in Nat
        BY <1>1
    <2>2. Counting!Commutes(Nat, 1 .. q, counts) /\ Counting!IsFiniteSet(1 .. q) /\ 0 \in Nat
        BY <1>3, <1>4, <2>1
    <2> QED BY <1>2, <2>2, Counting!SetValueType
<1>7. ASSUME NEW q \in 1 .. n
      PROVE  CountsUpTo(shapes, q) = CountsUpTo(shapes, q - 1) + GetElementCount(shapes[q])
    <2> DEFINE S == 1 .. q - 1
               V == Nat
    <2>1. /\ q - 1 \in 0 .. n /\ q - 1 \in Nat /\ q \notin S /\ S \cup {q} = 1 .. q
          /\ S \cup {q} \in SUBSET (1 .. n)
        BY <1>1
    <2>2. /\ Counting!IsFiniteSet(S) /\ 0 \in V /\ q \notin S
          /\ Counting!Commutes(V, S \cup {q}, counts)
        BY <1>3, <1>4, <2>1
    <2>3. \A y \in S : counts[y] = counts[y]
        OBVIOUS
    <2>6. CountsUpTo(shapes, q - 1) = Counting!SetValue(S, counts, 0)
        BY <1>2
    <2> HIDE DEF S, V
    <2>4. Counting!SetValue(S \cup {q}, counts, 0)
              = PlusCount(Counting!SetValue(S, counts, 0), counts[q])
        BY <2>2, <2>3, Counting!SetValueWithElement
    <2>5. CountsUpTo(shapes, q) = Counting!SetValue(S \cup {q}, counts, 0)
        BY <1>2, <2>1
    <2>7. counts[q] = GetElementCount(shapes[q]) /\ counts[q] \in Nat
             /\ CountsUpTo(shapes, q - 1) \in Nat
        BY <1>1, <1>6, <2>1
    <2> QED BY <2>4, <2>5, <2>6, <2>7 DEF PlusCount
<1> QED BY <1>5, <1>6, <1>7
-----------------------------------------------------------------------------
(***************************************************************************)
(* Sequences joined one after the other: f[i] is the first i of them.      *)
(***************************************************************************)
JoinedBy(f, seqs) ==
    /\ f[1] = seqs[1]
    /\ \A i \in 2 .. Len(seqs) : f[i] = f[i - 1] \o seqs[i]

LEMMA FlattenRuns ==
    ASSUME NEW V, NEW seqs \in Seq(Seq(V)), Len(seqs) # 0
    PROVE  \E f : /\ JoinedBy(f, seqs)
                  /\ \A i \in 1 .. Len(seqs) : f[i] \in Seq(V)
                  /\ FlattenSeq(seqs) = f[Len(seqs)]
<1> DEFINE n == Len(seqs)
           Is(f) == f = [i \in 1 .. n |-> IF i = 1 THEN seqs[i] ELSE f[i - 1] \o seqs[i]]
           joined == CHOOSE f : Is(f)
<1>1. FlattenSeq(seqs) = joined[n]
    BY DEF FlattenSeq
<1>2. n \in Nat \ {0} /\ \A k \in 1 .. n : seqs[k] \in Seq(V)
    OBVIOUS
<1>3. n = Len(seqs)
    OBVIOUS
<1> HIDE DEF n
<1>4. \A f : Is(f) <=> Joining!IsRunning(f, n, seqs)
    BY DEF Joining!IsRunning, Joined
<1> HIDE DEF Is
<1>5. Joining!IsRunning(joined, n, seqs)
    <2>1. \E f : Is(f)
        BY <1>2, <1>4, Joining!RunningExists
    <2> QED BY <1>4, <2>1
<1> HIDE DEF joined
<1>6. \A i \in 1 .. n : joined[i] \in Seq(V)
    <2>1. seqs[1] \in Seq(V) /\ \A v \in Seq(V), k \in 2 .. n : Joined(v, seqs[k]) \in Seq(V)
        BY <1>2 DEF Joined
    <2> QED BY <1>2, <1>5, <2>1, Joining!RunningStays
<1>7. JoinedBy(joined, seqs)
    <2>1. joined[1] = seqs[1]
        BY <1>2, <1>5 DEF Joining!IsRunning
    <2>2. ASSUME NEW i \in 2 .. n PROVE joined[i] = joined[i - 1] \o seqs[i]
        <3>1. i \in 1 .. n /\ i # 1
            BY <1>2
        <3> QED BY <1>5, <3>1 DEF Joining!IsRunning, Joined
    <2> QED BY <1>3, <2>1, <2>2 DEF JoinedBy
<1> QED BY <1>1, <1>3, <1>6, <1>7

\* What grows from step to step grows over many.
LEMMA GrowsAll ==
    ASSUME NEW n \in Nat, NEW h, \A i \in 0 .. n : h[i] \in Nat,
           \A i \in 1 .. n : h[i - 1] <= h[i], NEW j \in 0 .. n, NEW i \in 0 .. j
    PROVE  h[i] <= h[j]
<1> DEFINE T == {d \in Nat : i + d <= n => h[i] <= h[i + d]}
<1>1. 0 \in T
    <2>1. h[i] \in Nat /\ i + 0 = i
        OBVIOUS
    <2> QED BY <2>1
<1>2. \A d \in Nat : d \in T => d + 1 \in T
    <2> SUFFICES ASSUME NEW d \in Nat, d \in T, i + (d + 1) <= n PROVE h[i] <= h[i + (d + 1)]
        OBVIOUS
    <2>1. /\ i + (d + 1) \in 1 .. n /\ (i + (d + 1)) - 1 = i + d /\ i + d \in 0 .. n
          /\ i \in 0 .. n /\ i + (d + 1) \in 0 .. n
        OBVIOUS
    <2>2. h[i] <= h[i + d]
        BY <2>1
    <2>3. h[i + d] <= h[i + (d + 1)]
        BY <2>1
    <2>4. h[i] \in Nat /\ h[i + d] \in Nat /\ h[i + (d + 1)] \in Nat
        BY <2>1
    <2> HIDE DEF T
    <2> QED BY <2>2, <2>3, <2>4
<1> HIDE DEF T
<1>3. \A d \in Nat : d \in T
    BY <1>1, <1>2, Joining!NaturalInduction
<1>4. j - i \in T /\ i + (j - i) = j /\ j <= n
    BY <1>3
<1> QED BY <1>4 DEF T

\* Where the elements of the joined sequences are, h[i] being the length of the first i.
Measures(h, seqs) ==
    /\ h[0] = 0 /\ \A i \in 0 .. Len(seqs) : h[i] \in Nat
    /\ \A i \in 1 .. Len(seqs) : h[i] = h[i - 1] + Len(seqs[i])

Locates(flat, h, seqs) ==
    \A i \in 1 .. Len(seqs) : \A k \in 1 .. Len(seqs[i]) : flat[h[i - 1] + k] = seqs[i][k]

LEMMA FlattenPlaces ==
    ASSUME NEW V, NEW seqs \in Seq(Seq(V)), NEW h, Measures(h, seqs)
    PROVE  /\ FlattenSeq(seqs) \in Seq(V) /\ Len(FlattenSeq(seqs)) = h[Len(seqs)]
           /\ Locates(FlattenSeq(seqs), h, seqs)
<1> DEFINE n == Len(seqs)
<1>1. n \in Nat /\ \A i \in 1 .. n : seqs[i] \in Seq(V) /\ Len(seqs[i]) \in Nat
    OBVIOUS
<1>2. CASE n = 0
    <2>1. seqs = <<>>
        BY <1>2
    <2>2. FlattenSeq(seqs) = <<>>
        BY <1>2, <2>1 DEF FlattenSeq
    <2>3. <<>> \in Seq(V) /\ Len(<<>>) = 0
        OBVIOUS
    <2> QED BY <1>2, <2>2, <2>3 DEF Measures, Locates
<1>3. CASE n # 0
    <2>1. PICK f : /\ JoinedBy(f, seqs)
                   /\ \A i \in 1 .. n : f[i] \in Seq(V)
                   /\ FlattenSeq(seqs) = f[n]
        BY <1>3, FlattenRuns
    <2> DEFINE Run(m) ==
                   /\ Len(f[m]) = h[m]
                   /\ \A i \in 1 .. m : \A k \in 1 .. Len(seqs[i]) : f[m][h[i - 1] + k] = seqs[i][k]
               T == {p \in Nat : p + 1 <= n => Run(p + 1)}
    <2>2. /\ h[0] = 0 /\ \A i \in 0 .. n : h[i] \in Nat
          /\ \A i \in 1 .. n : h[i] = h[i - 1] + Len(seqs[i])
        BY DEF Measures
    <2>3. f[1] = seqs[1] /\ \A i \in 2 .. n : f[i] = f[i - 1] \o seqs[i]
        BY <2>1 DEF JoinedBy
    <2> HIDE DEF n
    <2>4. \A i \in 1 .. n : h[i - 1] <= h[i]
        <3> SUFFICES ASSUME NEW i \in 1 .. n PROVE h[i - 1] <= h[i]
            OBVIOUS
        <3>1. i - 1 \in 0 .. n
            BY <1>1
        <3> QED BY <1>1, <2>2, <3>1
    <2>5. Run(1)
        <3>1. 1 \in 1 .. n /\ 1 - 1 = 0
            BY <1>1, <1>3
        <3>2. Len(f[1]) = h[1]
            BY <1>1, <2>2, <2>3, <3>1
        <3>3. ASSUME NEW i \in 1 .. 1, NEW k \in 1 .. Len(seqs[i]) PROVE f[1][h[i - 1] + k] = seqs[i][k]
            <4>1. i = 1 /\ h[i - 1] + k = k
                BY <1>1, <2>2, <3>1
            <4> QED BY <2>3, <4>1
        <3> QED BY <3>2, <3>3
    <2>6. ASSUME NEW p \in Nat, p \in T, (p + 1) + 1 <= n PROVE Run((p + 1) + 1)
        <3> DEFINE m == p + 1
                   l == m + 1
        <3>1. l \in 2 .. n /\ l \in 1 .. n /\ l - 1 = m /\ m \in 1 .. n /\ m \in 0 .. n /\ m <= n
            BY <1>1, <2>6
        <3>2. Run(m)
            <4> HIDE DEF Run
            <4> QED BY <2>6, <3>1
        <3> HIDE DEF T, m
        <3> DEFINE a == f[m]
                   b == seqs[l]
                   c == f[l]
        <3>3. c = a \o b /\ a \in Seq(V) /\ b \in Seq(V)
            <4> HIDE DEF l
            <4> QED BY <1>1, <2>1, <2>3, <3>1
        <3>4. /\ h[l] = h[m] + Len(b) /\ Len(a) = h[m] /\ h[m] \in Nat
              /\ \A i \in 1 .. m : \A k \in 1 .. Len(seqs[i]) : a[h[i - 1] + k] = seqs[i][k]
            <4> HIDE DEF l
            <4> QED BY <2>2, <3>1, <3>2
        <3> HIDE DEF l, a, b, c
        <3>5. /\ Len(c) = Len(a) + Len(b) /\ Len(b) \in Nat
              /\ \A x \in 1 .. Len(a) : c[x] = a[x]
              /\ \A k \in 1 .. Len(b) : c[Len(a) + k] = b[k]
            BY <3>3
        <3>6. Len(c) = h[l]
            BY <3>4, <3>5
        <3>7. ASSUME NEW i \in 1 .. l, NEW k \in 1 .. Len(seqs[i])
              PROVE  c[h[i - 1] + k] = seqs[i][k]
            <4>1. CASE i = l
                BY <3>1, <3>4, <3>5, <4>1 DEF b
            <4>2. CASE i # l
                <5>1. i \in 1 .. m /\ i \in 1 .. n /\ i \in 0 .. m /\ i - 1 \in 0 .. n
                    BY <1>1, <3>1, <4>2 DEF l
                <5>2. h[i] <= h[m]
                    BY <1>1, <2>2, <2>4, <3>1, <5>1, GrowsAll
                <5>3. /\ h[i] = h[i - 1] + Len(seqs[i]) /\ h[i - 1] \in Nat
                      /\ Len(seqs[i]) \in Nat
                    BY <1>1, <2>2, <5>1
                <5>4. h[i - 1] + k \in 1 .. Len(a)
                    BY SMTT(30), <3>4, <5>2, <5>3
                <5> QED BY <3>4, <3>5, <5>1, <5>4
            <4> QED BY <4>1, <4>2
        <3> QED BY <3>6, <3>7 DEF c, l, m
    <2>7. 0 \in T
        <3> HIDE DEF Run
        <3> QED BY <2>5
    <2>8. \A p \in Nat : p \in T => p + 1 \in T
        <3> HIDE DEF Run
        <3> QED BY <2>6
    <2> HIDE DEF T
    <2>9. \A p \in Nat : p \in T
        BY <2>7, <2>8, Joining!NaturalInduction
    <2>10. Run(n)
        <3>1. n - 1 \in T /\ (n - 1) + 1 = n /\ n <= n
            BY <1>1, <1>3, <2>9
        <3> HIDE DEF Run
        <3> QED BY <3>1 DEF T
    <2>11. n \in 1 .. n
        BY <1>1, <1>3
    <2> QED BY <2>1, <2>10, <2>11 DEF Locates, n
<1> QED BY <1>2, <1>3
-----------------------------------------------------------------------------
\* Sequences of the same length, joined.
LEMMA FlattenEqual ==
    ASSUME NEW V, NEW seqs \in Seq(Seq(V)), NEW d \in Nat,
           \A i \in 1 .. Len(seqs) : Len(seqs[i]) = d
    PROVE  FlattenSeq(seqs) \in Seq(V) /\ Len(FlattenSeq(seqs)) = Len(seqs) * d
<1> DEFINE n == Len(seqs)
           h == [i \in 0 .. n |-> i * d]
<1>1. n \in Nat /\ n = Len(seqs) /\ n \in 0 .. n
    OBVIOUS
<1> HIDE DEF n
<1>2. \A i \in 0 .. n : h[i] = i * d
    OBVIOUS
<1> HIDE DEF h
<1>3. ASSUME NEW i \in 0 .. n PROVE h[i] \in Nat
    <2>1. i \in Nat /\ i * d \in Nat
        BY <1>1, Distributes
    <2> QED BY <1>2, <2>1
<1>4. ASSUME NEW i \in 1 .. n PROVE h[i] = h[i - 1] + Len(seqs[i])
    <2>1. i - 1 \in Nat /\ i - 1 \in 0 .. n /\ i \in 0 .. n /\ (i - 1) + 1 = i
        BY <1>1
    <2>2. ((i - 1) + 1) * d = (i - 1) * d + 1 * d /\ 1 * d = d
        <3> DEFINE p == i - 1
        <3>1. p \in Nat
            BY <2>1
        <3> HIDE DEF p
        <3>2. (p + 1) * d = p * d + 1 * d
            BY <3>1, Distributes
        <3> QED BY <3>2 DEF p
    <2>3. Len(seqs[i]) = d
        BY <1>1
    <2> QED BY <1>2, <2>1, <2>2, <2>3
<1>5. h[0] = 0
    <2>1. 0 \in 0 .. n /\ 0 * d = 0
        BY <1>1
    <2> QED BY <1>2, <2>1
<1>6. Measures(h, seqs)
    BY <1>1, <1>3, <1>4, <1>5 DEF Measures
<1>7. FlattenSeq(seqs) \in Seq(V) /\ Len(FlattenSeq(seqs)) = h[n]
    BY <1>1, <1>6, FlattenPlaces
<1> QED BY <1>1, <1>2, <1>7

\* The attempts to allocate a destination are for the allowed places, two for each that is
\* not pageable memory; there is one at least if a place is allowed.
LEMMA AttemptsFacts ==
    ASSUME ThisCall.allowed \in Seq(Places)
    PROVE  Attempts \in Seq(Places) /\ (ThisCall.allowed # <<>> => Len(Attempts) > 0)
<1> DEFINE allowed == ThisCall.allowed
           types(k) == AllocationTypes(MemoryType(allowed[k]))
           seqs == [k \in DOMAIN allowed |-> [a \in DOMAIN types(k) |-> allowed[k]]]
           n == Len(allowed)
<1>1. n \in Nat /\ DOMAIN allowed = 1 .. n /\ \A k \in 1 .. n : allowed[k] \in Places
    OBVIOUS
<1>2. \A k \in 1 .. n : DOMAIN types(k) = 1 .. 1 \/ DOMAIN types(k) = 1 .. 2
    <2> SUFFICES ASSUME NEW k \in 1 .. n PROVE DOMAIN types(k) = 1 .. 1 \/ DOMAIN types(k) = 1 .. 2
        OBVIOUS
    <2>1. MemoryType(allowed[k]) \in {"GPU", "CPU_PINNED", "CPU"}
        BY <1>1 DEF MemoryType, Places
    <2>2. types(k) \in {<<"GPU_POOL", "GPU">>, <<"CPU_PINNED_POOL", "CPU_PINNED">>, <<"CPU">>}
        BY <2>1 DEF AllocationTypes
    <2> HIDE DEF types
    <2>3. CASE types(k) = <<"CPU">>
        <3>1. DOMAIN <<"CPU">> = 1 .. 1
            OBVIOUS
        <3> QED BY <2>3, <3>1
    <2>4. CASE types(k) = <<"GPU_POOL", "GPU">>
        <3>1. DOMAIN <<"GPU_POOL", "GPU">> = 1 .. 2
            OBVIOUS
        <3> QED BY <2>4, <3>1
    <2>5. CASE types(k) = <<"CPU_PINNED_POOL", "CPU_PINNED">>
        <3>1. DOMAIN <<"CPU_PINNED_POOL", "CPU_PINNED">> = 1 .. 2
            OBVIOUS
        <3> QED BY <2>5, <3>1
    <2> QED BY <2>2, <2>3, <2>4, <2>5
<1>3. Attempts = FlattenSeq(seqs)
    BY DEF Attempts
<1> HIDE DEF types, allowed
<1>4. \A k \in 1 .. n : seqs[k] \in Seq(Places) /\ Len(seqs[k]) >= 1
    <2> SUFFICES ASSUME NEW k \in 1 .. n PROVE seqs[k] \in Seq(Places) /\ Len(seqs[k]) >= 1
        OBVIOUS
    <2>1. PICK m \in {1, 2} : DOMAIN types(k) = 1 .. m
        BY <1>2
    <2>2. seqs[k] = [a \in 1 .. m |-> allowed[k]] /\ allowed[k] \in Places
        BY <1>1, <2>1
    <2> HIDE DEF seqs
    <2>3. \A e \in Places : [a \in 1 .. m |-> e] \in Seq(Places) /\ Len([a \in 1 .. m |-> e]) = m
        OBVIOUS
    <2> QED BY <2>2, <2>3
<1>5. seqs \in Seq(Seq(Places)) /\ Len(seqs) = n
    <2>1. seqs = [k \in 1 .. n |-> seqs[k]]
        BY <1>1
    <2> HIDE DEF seqs, n
    <2> QED BY <1>1, <1>4, <2>1
<1> HIDE DEF seqs, n
<1>6. CASE n = 0
    <2>1. seqs = <<>>
        BY <1>5, <1>6
    <2>2. FlattenSeq(seqs) = <<>>
        BY <1>5, <1>6, <2>1 DEF FlattenSeq
    <2>3. <<>> \in Seq(Places) /\ allowed = <<>>
        BY <1>6 DEF n, allowed
    <2> QED BY <1>3, <2>2, <2>3 DEF allowed
<1>7. CASE n # 0
    <2>1. PICK f : /\ JoinedBy(f, seqs)
                   /\ \A i \in 1 .. n : f[i] \in Seq(Places)
                   /\ FlattenSeq(seqs) = f[n]
        BY <1>5, <1>7, FlattenRuns
    <2> DEFINE h == [i \in 0 .. n |-> IF i = 0 THEN 0 ELSE Len(f[i])]
    <2>2. h[0] = 0 /\ (\A i \in 1 .. n : h[i] = Len(f[i]) /\ h[i] \in Nat) /\ \A i \in 0 .. n : h[i] \in Nat
        BY <1>1, <2>1
    <2> HIDE DEF h
    <2>3. ASSUME NEW i \in 1 .. n PROVE h[i - 1] <= h[i]
        <3>1. CASE i = 1
            BY <2>2, <3>1
        <3>2. CASE i # 1
            <4>1. i \in 2 .. n /\ i - 1 \in 1 .. n /\ i \in 2 .. Len(seqs)
                BY <1>1, <1>5, <3>2
            <4> DEFINE a == f[i - 1]
                       b == seqs[i]
                       c == f[i]
            <4>2. c = a \o b /\ a \in Seq(Places) /\ b \in Seq(Places)
                BY <1>4, <2>1, <4>1 DEF JoinedBy
            <4> HIDE DEF a, b, c
            <4>3. Len(c) = Len(a) + Len(b) /\ Len(a) \in Nat /\ Len(b) \in Nat
                BY <4>2
            <4>4. h[i - 1] = Len(a) /\ h[i] = Len(c)
                BY <2>2, <4>1 DEF a, c
            <4> QED BY <4>3, <4>4
        <3> QED BY <3>1, <3>2
    <2>4. n \in 0 .. n /\ 1 \in 0 .. n /\ 1 \in 1 .. n /\ n \in 1 .. n
        BY <1>1, <1>7
    <2>5. h[1] <= h[n]
        BY <1>1, <2>2, <2>3, <2>4, GrowsAll
    <2>6. f[1] = seqs[1]
        BY <2>1 DEF JoinedBy
    <2>7. h[1] >= 1 /\ h[n] = Len(f[n]) /\ h[1] \in Nat /\ h[n] \in Nat
        BY <1>4, <2>2, <2>4, <2>6
    <2> QED BY <1>3, <2>1, <2>4, <2>5, <2>7
<1> QED BY <1>1, <1>6, <1>7
-----------------------------------------------------------------------------
(***************************************************************************)
(* The cells of a batch input, request by request.                         *)
(***************************************************************************)
Valid(call) ==
    /\ call \in CallRecords /\ call.shapes # <<>>
    /\ \A q \in DOMAIN call.shapes :
          call.shapes[q] # <<>> /\ Len(call.shapes[q]) = Len(call.shapes[1])

\* The shape of a request's input for each of its items.
ItemShapes(dims) == FlattenSeq([i \in 1 .. dims[1] |-> Tail(dims)])

PartOf(call, q) ==
    IF call.kind \in ItemKinds THEN ItemShapes(call.shapes[q])
    ELSE IF call.kind \in Accumulating THEN <<CountsUpTo(call.shapes, q)>>
    ELSE <<GetElementCount(call.shapes[q])>>

\* The cells that the first q requests take.
PartsUpTo(call, q) ==
    IF call.kind \in ItemKinds
    THEN RowsUpTo(call.shapes, q) * (Len(call.shapes[1]) - 1) ELSE q

Lead(call) == IF call.kind = "BATCH_ACCUMULATED_ELEMENT_COUNT_WITH_ZERO" THEN 1 ELSE 0

AsShape == "BATCH_MAX_ELEMENT_COUNT_AS_SHAPE"

LEMMA ValidFacts ==
    ASSUME NEW call, Valid(call)
    PROVE  /\ call.shapes \in Seq(Shapes) /\ Len(call.shapes) \in Nat \ {0}
           /\ DOMAIN call.shapes = 1 .. Len(call.shapes)
           /\ Len(call.shapes[1]) - 1 \in Nat
           /\ \A q \in 1 .. Len(call.shapes) :
                 /\ call.shapes[q] \in Shapes /\ call.shapes[q][1] \in Nat
                 /\ Len(call.shapes[q]) - 1 = Len(call.shapes[1]) - 1
           /\ call.kind \in Kinds /\ call.cells \in Nat /\ call.given \in BOOLEAN
           /\ call.allowed \in Seq(Places)
<1> DEFINE shapes == call.shapes
<1>1. /\ shapes \in Seq(Seq(Nat)) /\ shapes # <<>>
      /\ call.kind \in Kinds /\ call.cells \in Nat /\ call.given \in BOOLEAN
      /\ call.allowed \in Seq(Places)
    BY DEF Valid, CallRecords
<1>2. \A q \in DOMAIN shapes : shapes[q] # <<>> /\ Len(shapes[q]) = Len(shapes[1])
    BY DEF Valid
<1> HIDE DEF shapes
<1>3. DOMAIN shapes = 1 .. Len(shapes) /\ Len(shapes) \in Nat \ {0} /\ 1 \in 1 .. Len(shapes)
    BY <1>1
<1>4. \A q \in 1 .. Len(shapes) : shapes[q] \in Shapes
    <2> SUFFICES ASSUME NEW q \in 1 .. Len(shapes) PROVE shapes[q] \in Shapes
        OBVIOUS
    <2>1. shapes[q] \in Seq(Nat)
        BY <1>1
    <2>2. shapes[q] # <<>>
        BY <1>2, <1>3
    <2> QED BY <2>1, <2>2 DEF Shapes
<1>5. shapes \in Seq(Shapes)
    BY <1>1, <1>3, <1>4
<1>6. \A dims \in Shapes : dims[1] \in Nat /\ Len(dims) - 1 \in Nat
    BY DEF Shapes
<1> QED BY <1>1, <1>2, <1>3, <1>4, <1>5, <1>6 DEF shapes

LEMMA ItemShapesFacts ==
    ASSUME NEW dims \in Shapes
    PROVE  ItemShapes(dims) \in Seq(Nat) /\ Len(ItemShapes(dims)) = dims[1] * (Len(dims) - 1)
<1> DEFINE n == dims[1]
           t == Tail(dims)
           d == Len(dims) - 1
           seqs == [i \in 1 .. n |-> t]
<1>1. n \in Nat /\ d \in Nat /\ t \in Seq(Nat) /\ Len(t) = d
    BY DEF Shapes
<1>2. ItemShapes(dims) = FlattenSeq(seqs)
    BY DEF ItemShapes
<1> HIDE DEF n, t, d
<1>3. seqs \in Seq(Seq(Nat)) /\ Len(seqs) = n /\ \A i \in 1 .. n : seqs[i] = t
    BY <1>1
<1> HIDE DEF seqs
<1>4. FlattenSeq(seqs) \in Seq(Nat) /\ Len(FlattenSeq(seqs)) = n * d
    BY <1>1, <1>3, FlattenEqual
<1> QED BY <1>2, <1>4 DEF n, d

LEMMA PartFacts ==
    ASSUME NEW call, Valid(call), call.kind # AsShape
    PROVE  /\ PartsUpTo(call, 0) = 0
           /\ \A q \in 0 .. Len(call.shapes) : PartsUpTo(call, q) \in Nat
           /\ \A q \in 1 .. Len(call.shapes) :
                 /\ PartOf(call, q) \in Seq(Nat)
                 /\ PartsUpTo(call, q) = PartsUpTo(call, q - 1) + Len(PartOf(call, q))
<1> DEFINE shapes == call.shapes
           n == Len(shapes)
           d == Len(shapes[1]) - 1
<1>1. /\ shapes \in Seq(Shapes) /\ n \in Nat /\ d \in Nat
      /\ \A q \in 1 .. n : shapes[q] \in Shapes /\ shapes[q][1] \in Nat /\ Len(shapes[q]) - 1 = d
    BY ValidFacts
<1>2. CASE call.kind \in ItemKinds
    <2>1. \A q : PartsUpTo(call, q) = RowsUpTo(shapes, q) * d /\ PartOf(call, q) = ItemShapes(shapes[q])
        BY <1>2 DEF PartsUpTo, PartOf
    <2> HIDE DEF d, n, shapes
    <2>2. /\ RowsUpTo(shapes, 0) = 0
          /\ \A q \in 0 .. n : RowsUpTo(shapes, q) \in Nat
          /\ \A q \in 1 .. n : RowsUpTo(shapes, q) = RowsUpTo(shapes, q - 1) + shapes[q][1]
        BY <1>1, RowsFacts DEF n
    <2>3. PartsUpTo(call, 0) = 0
        BY <1>1, <2>1, <2>2, Distributes
    <2>4. \A q \in 0 .. n : PartsUpTo(call, q) \in Nat
        BY <1>1, <2>1, <2>2, Distributes
    <2>5. ASSUME NEW q \in 1 .. n
          PROVE  /\ PartOf(call, q) \in Seq(Nat)
                 /\ PartsUpTo(call, q) = PartsUpTo(call, q - 1) + Len(PartOf(call, q))
        <3>1. q - 1 \in 0 .. n
            BY <1>1
        <3>2. PartOf(call, q) \in Seq(Nat) /\ Len(PartOf(call, q)) = shapes[q][1] * d
            BY <1>1, <2>1, ItemShapesFacts
        <3>3. RowsUpTo(shapes, q - 1) \in Nat /\ shapes[q][1] \in Nat
            BY <1>1, <2>2, <3>1
        <3>4. (RowsUpTo(shapes, q - 1) + shapes[q][1]) * d
                  = RowsUpTo(shapes, q - 1) * d + shapes[q][1] * d
            BY <1>1, <3>3, Distributes
        <3> QED BY <2>1, <2>2, <3>2, <3>4
    <2> QED BY <2>3, <2>4, <2>5 DEF n, shapes
<1>3. CASE call.kind \notin ItemKinds
    <2>1. \A q : PartsUpTo(call, q) = q
        BY <1>3 DEF PartsUpTo
    <2> HIDE DEF d, n, shapes
    <2>2. ASSUME NEW q \in 1 .. n PROVE PartOf(call, q) \in Seq(Nat) /\ Len(PartOf(call, q)) = 1
        <3>1. CountsUpTo(shapes, q) \in Nat /\ GetElementCount(shapes[q]) \in Nat
            <4>1. q \in 0 .. n
                BY <1>1
            <4> QED BY <1>1, <4>1, CountsFacts, ElementCountType DEF n
        <3>2. \A x \in Nat : <<x>> \in Seq(Nat) /\ Len(<<x>>) = 1
            OBVIOUS
        <3> QED BY <1>3, <3>1, <3>2 DEF PartOf, shapes
    <2>3. ASSUME NEW q \in 1 .. n
          PROVE  PartsUpTo(call, q) = PartsUpTo(call, q - 1) + Len(PartOf(call, q))
        <3>1. PartsUpTo(call, q) = q /\ PartsUpTo(call, q - 1) = q - 1 /\ q = (q - 1) + 1
            BY <1>1, <2>1
        <3> QED BY <2>2, <3>1
    <2>4. PartsUpTo(call, 0) = 0 /\ \A q \in 0 .. n : PartsUpTo(call, q) \in Nat
        BY <1>1, <2>1
    <2> QED BY <2>2, <2>3, <2>4 DEF n, shapes
<1> QED BY <1>2, <1>3

LEMMA PartsGrow ==
    ASSUME NEW call, Valid(call), call.kind # AsShape,
           NEW q \in 0 .. Len(call.shapes), NEW p \in 0 .. q
    PROVE  PartsUpTo(call, p) <= PartsUpTo(call, q)
<1> DEFINE n == Len(call.shapes)
           h == [i \in 0 .. n |-> PartsUpTo(call, i)]
<1>1. n \in Nat
    BY ValidFacts
<1>2. /\ \A i \in 0 .. n : h[i] \in Nat
      /\ \A i \in 1 .. n : Len(PartOf(call, i)) \in Nat /\ h[i] = h[i - 1] + Len(PartOf(call, i))
    <2> HIDE DEF h
    <2>1. \A i \in 0 .. n : h[i] = PartsUpTo(call, i)
        BY DEF h
    <2>2. \A i \in 1 .. n : i \in 0 .. n /\ i - 1 \in 0 .. n
        BY <1>1
    <2>3. \A i \in 0 .. n : h[i] \in Nat
        BY <2>1, PartFacts
    <2>4. ASSUME NEW i \in 1 .. n
          PROVE  Len(PartOf(call, i)) \in Nat /\ h[i] = h[i - 1] + Len(PartOf(call, i))
        <3>1. /\ PartOf(call, i) \in Seq(Nat)
              /\ PartsUpTo(call, i) = PartsUpTo(call, i - 1) + Len(PartOf(call, i))
            BY PartFacts
        <3>2. h[i] = PartsUpTo(call, i) /\ h[i - 1] = PartsUpTo(call, i - 1)
            BY <2>1, <2>2
        <3>3. Len(PartOf(call, i)) \in Nat
            <4> DEFINE part == PartOf(call, i)
            <4>1. part \in Seq(Nat)
                BY <3>1
            <4> HIDE DEF part
            <4>2. Len(part) \in Nat
                BY <4>1
            <4> QED BY <4>2 DEF part
        <3> QED BY <3>1, <3>2, <3>3
    <2> QED BY <2>3, <2>4
<1>3. \A i \in 1 .. n : h[i - 1] <= h[i]
    <2> SUFFICES ASSUME NEW i \in 1 .. n PROVE h[i - 1] <= h[i]
        OBVIOUS
    <2>1. i - 1 \in 0 .. n
        BY <1>1
    <2> HIDE DEF h
    <2> QED BY SMTT(30), <1>2, <2>1
<1> HIDE DEF h, n
<1>4. h[p] <= h[q]
    BY <1>1, <1>2, <1>3, GrowsAll DEF n
<1> QED BY <1>1, <1>4 DEF h, n
-----------------------------------------------------------------------------
\* Sequences given cell by cell.
LEMMA TableIsSequence ==
    ASSUME NEW n \in Nat, NEW V, NEW f \in [1 .. n -> V]
    PROVE  f \in Seq(V) /\ Len(f) = n
OBVIOUS

\* The parts of the requests are where the content has them.
Located(content, call) ==
    \A q \in 1 .. Len(call.shapes) : \A k \in 1 .. Len(PartOf(call, q)) :
        content[Lead(call) + PartsUpTo(call, q - 1) + k] = PartOf(call, q)[k]

LEMMA ContentFacts ==
    ASSUME NEW call, Valid(call), call.kind # AsShape
    PROVE  /\ Content(call) \in Seq(Nat)
           /\ Len(Content(call)) = Lead(call) + PartsUpTo(call, Len(call.shapes))
           /\ Located(Content(call), call)
           /\ Lead(call) = 1 => Content(call)[1] = 0
<1> DEFINE shapes == call.shapes
           n == Len(shapes)
           counts == [q \in DOMAIN shapes |-> GetElementCount(shapes[q])]
           sums == [q \in DOMAIN shapes |-> CountsUpTo(shapes, q)]
           parts == [q \in DOMAIN shapes |->
                        FlattenSeq([i \in 1 .. shapes[q][1] |-> Tail(shapes[q])])]
<1>1. /\ shapes \in Seq(Shapes) /\ n \in Nat \ {0} /\ DOMAIN shapes = 1 .. n
      /\ \A q \in 1 .. n : shapes[q] \in Shapes
    BY ValidFacts
<1>2. /\ PartsUpTo(call, 0) = 0 /\ \A q \in 0 .. n : PartsUpTo(call, q) \in Nat
      /\ \A q \in 1 .. n : /\ PartOf(call, q) \in Seq(Nat)
                           /\ PartsUpTo(call, q) = PartsUpTo(call, q - 1) + Len(PartOf(call, q))
    BY PartFacts
<1>3. CASE call.kind \in ItemKinds
    <2>1. Content(call) = FlattenSeq(parts) /\ Lead(call) = 0
        BY <1>3 DEF Content, ItemKinds, Lead
    <2>2. \A q \in 1 .. n : parts[q] = PartOf(call, q)
        BY <1>1, <1>3 DEF PartOf, ItemShapes
    <2>3. parts = [q \in 1 .. n |-> parts[q]]
        BY <1>1
    <2> DEFINE h == [q \in 0 .. n |-> PartsUpTo(call, q)]
    <2> HIDE DEF parts, n
    <2>4. parts \in Seq(Seq(Nat)) /\ Len(parts) = n
        BY <1>1, <1>2, <2>2, <2>3
    <2>5. \A q \in 0 .. n : h[q] = PartsUpTo(call, q)
        OBVIOUS
    <2> HIDE DEF h
    <2>6. Measures(h, parts)
        <3>1. 0 \in 0 .. n /\ \A q \in 1 .. n : q - 1 \in 0 .. n /\ q \in 0 .. n
            BY <1>1
        <3> QED BY <1>2, <2>2, <2>4, <2>5, <3>1 DEF Measures
    <2>7. /\ FlattenSeq(parts) \in Seq(Nat) /\ Len(FlattenSeq(parts)) = h[n]
          /\ Locates(FlattenSeq(parts), h, parts)
        BY <2>4, <2>6, FlattenPlaces
    <2>8. n \in 0 .. n /\ h[n] = PartsUpTo(call, n)
        BY <1>1, <2>5
    <2>9. Located(Content(call), call)
        <3> SUFFICES ASSUME NEW q \in 1 .. n, NEW k \in 1 .. Len(PartOf(call, q))
                     PROVE  Content(call)[Lead(call) + PartsUpTo(call, q - 1) + k] = PartOf(call, q)[k]
            BY DEF Located, n
        <3>1. q - 1 \in 0 .. n /\ h[q - 1] = PartsUpTo(call, q - 1) /\ PartsUpTo(call, q - 1) \in Nat
            <4>1. q - 1 \in 0 .. n
                BY <1>1
            <4> QED BY <1>2, <2>5, <4>1
        <3>2. parts[q] = PartOf(call, q)
            BY <2>2
        <3>3. FlattenSeq(parts)[h[q - 1] + k] = parts[q][k]
            BY <2>4, <2>7, <3>2 DEF Locates
        <3>4. Lead(call) + PartsUpTo(call, q - 1) + k = h[q - 1] + k
            BY <2>1, <3>1
        <3> QED BY <2>1, <3>2, <3>3, <3>4
    <2>10. Lead(call) + PartsUpTo(call, n) = PartsUpTo(call, n)
        BY <1>2, <2>1, <2>8
    <2> QED BY <2>1, <2>7, <2>8, <2>9, <2>10 DEF n
<1>4. CASE call.kind \notin ItemKinds
    <2> DEFINE numbers == IF call.kind \in Accumulating THEN sums ELSE counts
    <2>1. /\ \A q : PartsUpTo(call, q) = q
          /\ \A q \in 1 .. n : PartOf(call, q) = <<numbers[q]>>
        BY <1>1, <1>4 DEF PartsUpTo, PartOf
    <2>2. numbers \in Seq(Nat) /\ Len(numbers) = n /\ \A q \in 1 .. n : numbers[q] \in Nat
        <3>1. ASSUME NEW q \in 1 .. n
              PROVE  CountsUpTo(shapes, q) \in Nat /\ GetElementCount(shapes[q]) \in Nat
            <4>1. q \in 0 .. n
                BY <1>1
            <4> QED BY <1>1, <4>1, CountsFacts, ElementCountType
        <3>2. numbers \in [1 .. n -> Nat]
            BY <1>1, <3>1
        <3> HIDE DEF numbers, n
        <3> QED BY <1>1, <3>2, TableIsSequence
    <2>3. CASE call.kind = "BATCH_ACCUMULATED_ELEMENT_COUNT_WITH_ZERO"
        <3> DEFINE content == <<0>> \o numbers
        <3>1. Content(call) = content /\ Lead(call) = 1
            BY <2>3 DEF Content, Accumulating, ItemKinds, Lead
        <3> HIDE DEF numbers
        <3>2. /\ content \in Seq(Nat) /\ Len(content) = 1 + n /\ content[1] = 0
              /\ \A q \in 1 .. n : content[1 + q] = numbers[q]
            BY <1>1, <2>2
        <3> HIDE DEF content
        <3>3. Located(content, call)
            <4> SUFFICES ASSUME NEW q \in 1 .. n, NEW k \in 1 .. Len(PartOf(call, q))
                         PROVE  content[Lead(call) + PartsUpTo(call, q - 1) + k] = PartOf(call, q)[k]
                BY DEF Located
            <4>1. PartOf(call, q) = <<numbers[q]>> /\ k = 1
                <5>1. PartOf(call, q) = <<numbers[q]>>
                    BY <2>1
                <5>2. \A x : Len(<<x>>) = 1
                    OBVIOUS
                <5> QED BY <5>1, <5>2
            <4>2. Lead(call) + PartsUpTo(call, q - 1) + k = 1 + q
                BY <1>1, <2>1, <3>1, <4>1
            <4> QED BY <3>2, <4>1, <4>2
        <3> QED BY <2>1, <3>1, <3>2, <3>3
    <2>4. CASE call.kind # "BATCH_ACCUMULATED_ELEMENT_COUNT_WITH_ZERO"
        <3>0. call.kind \in {"BATCH_ACCUMULATED_ELEMENT_COUNT", "BATCH_ELEMENT_COUNT"}
            BY <1>4, <2>4, ValidFacts DEF Kinds, Accumulating, AsShape
        <3>1. Content(call) = numbers /\ Lead(call) = 0
            BY <3>0 DEF Content, Accumulating, ItemKinds, Lead
        <3> HIDE DEF numbers
        <3>3. Located(numbers, call)
            <4> SUFFICES ASSUME NEW q \in 1 .. n, NEW k \in 1 .. Len(PartOf(call, q))
                         PROVE  numbers[Lead(call) + PartsUpTo(call, q - 1) + k] = PartOf(call, q)[k]
                BY DEF Located
            <4>1. PartOf(call, q) = <<numbers[q]>> /\ k = 1
                <5>1. PartOf(call, q) = <<numbers[q]>>
                    BY <2>1
                <5>2. \A x : Len(<<x>>) = 1
                    OBVIOUS
                <5> QED BY <5>1, <5>2
            <4>2. Lead(call) + PartsUpTo(call, q - 1) + k = q
                BY <1>1, <2>1, <3>1, <4>1
            <4> QED BY <4>1, <4>2
        <3> QED BY <1>1, <2>1, <2>2, <3>1, <3>3
    <2> QED BY <2>3, <2>4
<1> QED BY <1>3, <1>4
-----------------------------------------------------------------------------
\* What the Set functions write for a request starts with its part of the
\* content, by which the offset advances; more than that they write only for a
\* request without items.
LEMMA EntryIs ==
    ASSUME Valid(ThisCall), Kind # AsShape, NEW q \in 1 .. Len(ThisCall.shapes),
           sum = CountsUpTo(ThisCall.shapes, q - 1)
    PROVE  /\ sum + Count(q) = CountsUpTo(ThisCall.shapes, q)
           /\ Taken(q) = Len(PartOf(ThisCall, q)) /\ Entry(q) \in Seq(Nat)
           /\ \/ Entry(q) = PartOf(ThisCall, q)
              \/ /\ Kind \in ItemKinds /\ ThisCall.shapes[q][1] = 0 /\ Taken(q) = 0
                 /\ Len(Entry(q)) = Len(ThisCall.shapes[1]) - 1
<1> DEFINE dims == ThisCall.shapes[q]
<1>1. /\ ThisCall.shapes \in Seq(Shapes) /\ Kind \in Kinds /\ Kind = ThisCall.kind
      /\ dims \in Shapes /\ dims[1] \in Nat
      /\ Len(dims) - 1 = Len(ThisCall.shapes[1]) - 1
    BY ValidFacts DEF Kind
<1>2. sum + Count(q) = CountsUpTo(ThisCall.shapes, q)
    BY <1>1, CountsFacts DEF Count
<1>3. PartOf(ThisCall, q) \in Seq(Nat)
    BY <1>1, PartFacts
<1>4. CASE Kind \in ItemKinds
    <2>1. PartOf(ThisCall, q) = ItemShapes(dims) /\ Taken(q) = dims[1] * (Len(dims) - 1)
        BY <1>1, <1>4 DEF PartOf, Taken
    <2>2. /\ Kind \notin Accumulating /\ Kind # "BATCH_ELEMENT_COUNT"
        BY <1>4 DEF ItemKinds, Accumulating
    <2>3. Taken(q) = Len(PartOf(ThisCall, q))
        BY <2>1, <1>1, ItemShapesFacts
    <2>4. CASE dims[1] = 0
        <3>1. Entry(q) = Tail(dims)
            BY <2>2, <2>4, <1>4 DEF Entry
        <3>2. Tail(dims) \in Seq(Nat) /\ Len(Tail(dims)) = Len(dims) - 1
            BY <1>1 DEF Shapes
        <3>3. \A d \in Nat : 0 * d = 0
            OBVIOUS
        <3>4. Taken(q) = 0
            <4>1. Len(dims) - 1 \in Nat
                BY <1>1 DEF Shapes
            <4> QED BY <4>1, <3>3, <2>1, <2>4
        <3> QED BY <3>1, <3>2, <3>4, <2>3, <2>4, <1>1, <1>2, <1>4
    <2>5. CASE dims[1] # 0
        <3>1. Entry(q) = PartOf(ThisCall, q)
            BY <2>1, <2>2, <2>5, <1>4 DEF Entry, ItemShapes
        <3> QED BY <3>1, <2>3, <1>2, <1>3
    <2> QED BY <2>4, <2>5
<1>5. CASE Kind \notin ItemKinds
    <2>1. Taken(q) = 1
        BY <1>5 DEF Taken
    <2>2. Entry(q) = PartOf(ThisCall, q)
        <3>1. CASE Kind \in Accumulating
            BY <1>1, <1>2, <1>5, <3>1 DEF Entry, PartOf, ItemKinds, Accumulating
        <3>2. CASE Kind = "BATCH_ELEMENT_COUNT"
            BY <1>1, <1>2, <1>5, <3>2 DEF Entry, PartOf, ItemKinds, Accumulating, Count
        <3> QED BY <1>1, <1>5, <3>1, <3>2 DEF Kinds, AsShape
    <2>3. Len(PartOf(ThisCall, q)) = 1
        BY <1>1, <1>5 DEF PartOf
    <2> QED BY <2>1, <2>2, <2>3, <1>2, <1>3
<1> QED BY <1>4, <1>5

\* The size that is computed for a destination is that of the content.
LEMMA SizeIs ==
    ASSUME Valid(ThisCall), request_count = Len(ThisCall.shapes)
    PROVE  /\ GetByteSize(BatchInputShape) \in Nat
           /\ Kind # AsShape =>
                 GetByteSize(BatchInputShape)
                     = Lead(ThisCall) + PartsUpTo(ThisCall, Len(ThisCall.shapes))
<1> DEFINE shapes == ThisCall.shapes
           n == Len(shapes)
           d == Len(shapes[1]) - 1
<1>1. /\ shapes \in Seq(Shapes) /\ n \in Nat \ {0} /\ d \in Nat
      /\ \A q \in 1 .. n : Len(shapes[q]) - 1 = d
      /\ Kind \in Kinds /\ Kind = ThisCall.kind
    BY ValidFacts DEF Kind
<1>2. BatchSize(shapes) \in Nat /\ RowsUpTo(shapes, n) = BatchSize(shapes)
    BY <1>1, RowsFacts, BatchSizeType
<1>3. BatchSize(shapes) * d \in Nat
    BY <1>1, <1>2, Distributes
<1>4. CASE Kind \in Accumulating \cup {"BATCH_ELEMENT_COUNT"}
    <2>1. BatchInputShape = <<Numbers(Kind)>>
        BY <1>4 DEF BatchInputShape, Accumulating, ItemKinds
    <2>2. Numbers(Kind) \in Nat /\ Numbers(Kind) = Lead(ThisCall) + n
        <3>1. request_count = n /\ Kind = ThisCall.kind
            BY <1>1
        <3> HIDE DEF n
        <3> QED BY <1>1, <3>1 DEF Numbers, Lead
    <2>3. PartsUpTo(ThisCall, n) = n
        BY <1>1, <1>4 DEF PartsUpTo, ItemKinds, Accumulating
    <2> QED BY <2>1, <2>2, <2>3, ElementCountOfOne DEF GetByteSize
<1>5. CASE Kind = AsShape
    <2>1. BatchInputShape = <<LargestCount(shapes)>>
        BY <1>5 DEF BatchInputShape, LargestCount, AsShape, Accumulating
    <2> QED BY <1>1, <1>5, <2>1, LargestCountType, ElementCountOfOne DEF GetByteSize
<1>6. CASE Kind \in ItemKinds
    <2>1. PartsUpTo(ThisCall, n) = BatchSize(shapes) * d /\ Lead(ThisCall) = 0
        BY <1>1, <1>2, <1>6 DEF PartsUpTo, Lead, ItemKinds
    <2>2. CASE Kind = "BATCH_ITEM_SHAPE"
        <3>1. BatchInputShape = <<BatchSize(shapes), Len(Last(shapes)) - 1>>
            BY <2>2 DEF BatchInputShape, Accumulating
        <3>2. Len(Last(shapes)) - 1 = d
            <4>1. n \in 1 .. n
                BY <1>1
            <4> QED BY <1>1, <4>1 DEF Last
        <3> HIDE DEF d, shapes, n
        <3>3. GetByteSize(BatchInputShape) = BatchSize(shapes) * d
            BY <1>1, <1>2, <3>1, <3>2, ElementCountOfTwo DEF GetByteSize
        <3> QED BY <1>3, <2>1, <3>3 DEF n, shapes
    <2>3. CASE Kind = "BATCH_ITEM_SHAPE_FLATTEN"
        <3>1. BatchInputShape = <<ItemNumbers(shapes)>>
            BY <2>3 DEF BatchInputShape, Accumulating, ItemNumbers
        <3> HIDE DEF d, shapes, n
        <3>2. ItemNumbers(shapes) = BatchSize(shapes) * d
            BY <1>1, ItemNumbersIs DEF n
        <3>3. GetByteSize(BatchInputShape) = BatchSize(shapes) * d
            BY <1>3, <3>1, <3>2, ElementCountOfOne DEF GetByteSize
        <3> QED BY <1>3, <2>1, <3>3 DEF n, shapes
    <2> QED BY <1>6, <2>2, <2>3 DEF ItemKinds
<1> QED BY <1>1, <1>4, <1>5, <1>6 DEF Kinds, AsShape
-----------------------------------------------------------------------------
(***************************************************************************)
(* The strengthening for BatchInput.  A call is handled while its buffers  *)
(* are made and filled; calls that were not handled yet have no buffers.   *)
(***************************************************************************)
Handling == step \in {"internal", "start", "fill", "copy"}

AheadOf(i) == i > cur \/ (i = cur /\ ~Handling)

NotMade(i) ==
    /\ view[i] = NoView /\ mem[i] = <<>> /\ internal[i] = <<>>
    /\ i \notin held /\ i \notin stray

AheadInv == \A i \in DOMAIN calls : AheadOf(i) => NotMade(i)

Views == [kind : {"none", "buffer", "error"}, place : Places \cup {"NONE"}]
Cells == Seq(Int)

ScenarioInv == \E s \in Scenarios : calls = s[1] /\ cfg = s[2]

WhereInv ==
    /\ step \in {"begin", "internal", "start", "fill", "copy", "finalize",
                 "returned", "consumed"}
    /\ cur \in 1 .. Len(calls) + 1
    /\ step = "begin" \/ Handling => cur \in DOMAIN calls

TableInv ==
    /\ view \in [DOMAIN calls -> Views]
    /\ mem \in [DOMAIN calls -> Cells] /\ internal \in [DOMAIN calls -> Cells]
    /\ held \subseteq DOMAIN calls /\ stream \in Seq(held)
    /\ stray \subseteq DOMAIN calls
    /\ \A i \in stray : Unchecked(calls[i], Len(mem[i]))

CounterInv ==
    /\ next \in 1 .. request_count + 1 /\ at \in Nat /\ sum \in Nat
    /\ needSync \in BOOLEAN /\ eventSet \in BOOLEAN /\ bufferReady \in BOOLEAN
    /\ faults \in 0 .. cfg.maxFaults

\* How large the buffers of the call that is handled are.
Wanted(size) ==
    IF ThisCall.given THEN Len(ThisCall.allowed) = 1 /\ size = ThisCall.cells
                      ELSE size = GetByteSize(BatchInputShape)

HandledInv ==
    Handling =>
        /\ view[cur].kind = "none" /\ view[cur].place \in Places
        /\ cur \notin held
        /\ Wanted(Size)
        /\ internal[cur] = <<>> \/ Len(internal[cur]) = Size
        /\ step \in {"internal", "copy"} => OnDevice
        /\ step # "internal" /\ OnDevice => Len(internal[cur]) = Size

(***************************************************************************)
(* The Set functions have written the parts of the requests before next;   *)
(* buffers without a cell are not looked at.                               *)
(***************************************************************************)
Work == IF OnDevice THEN internal[cur] ELSE mem[cur]

FillInv ==
    step = "fill" =>
        /\ Kind # AsShape
        /\ at = PartsUpTo(ThisCall, next - 1)
        /\ sum = CountsUpTo(ThisCall.shapes, next - 1)
        /\ Size >= Base => Base + at <= Size
        /\ Size # 0 => \A k \in 1 .. Base + at : Work[k] = Content(ThisCall)[k]

\* Describes(i), of any buffer.
Holds(buffer, call) ==
    LET content == Content(call) IN
    /\ SubSeq(buffer, 1, Len(content)) = content
    /\ call.kind \notin ItemKinds =>
          \A k \in Len(content) + 1 .. Len(buffer) : buffer[k] = Padding(call)

CopyInv ==
    step = "copy" => Kind # AsShape /\ (Size # 0 => Holds(internal[cur], ThisCall))

(***************************************************************************)
(* A call that returned a buffer in GPU memory left a filled internal      *)
(* buffer behind, whose copy is queued or done.                            *)
(***************************************************************************)
Queued(i) == \E j \in DOMAIN stream : stream[j] = i
OnGpu(i) == MemoryType(view[i].place) = "GPU"

Behind(i) ==
    /\ internal[i] = <<>> \/ Len(internal[i]) = Len(mem[i])
    /\ i \in held => Len(internal[i]) = Len(mem[i])
    /\ Queued(i) => OnGpu(i)
    /\ Returned(i) /\ mem[i] # <<>> =>
          IF OnGpu(i)
          THEN /\ i \in held /\ Holds(internal[i], calls[i])
               /\ Queued(i) \/ mem[i] = internal[i]
          ELSE Holds(mem[i], calls[i])

BehindInv == \A i \in 1 .. cur - 1 : Behind(i)

SyncInv ==
    /\ stream # <<>> => needSync
    /\ step = "consumed" /\ ~cfg.event => stream = <<>>

TypesInv == ScenarioInv /\ WhereInv /\ TableInv /\ CounterInv
BatchInv == TypesInv /\ AheadInv /\ HandledInv /\ FillInv /\ CopyInv /\ BehindInv /\ SyncInv
-----------------------------------------------------------------------------
LEMMA ScenarioFacts ==
    ASSUME ScenarioInv
    PROVE  /\ calls \in Seq(CallRecords) /\ Len(calls) \in Nat \ {0}
           /\ DOMAIN calls = 1 .. Len(calls)
           /\ cfg.event \in BOOLEAN /\ cfg.ready \in BOOLEAN /\ cfg.maxFaults \in Nat
           /\ request_count \in Nat \ {0}
           /\ \A i \in DOMAIN calls : Valid(calls[i]) /\ Len(calls[i].shapes) = request_count
<1> PICK s \in Scenarios : calls = s[1] /\ cfg = s[2]
    BY DEF ScenarioInv
<1>1. /\ calls \in Seq(CallRecords) /\ calls # <<>> /\ cfg \in Configs
      /\ \A i \in DOMAIN calls :
            /\ calls[i].shapes # <<>>
            /\ Len(calls[i].shapes) = Len(calls[1].shapes)
            /\ \A q \in DOMAIN calls[i].shapes :
                  /\ calls[i].shapes[q] # <<>>
                  /\ Len(calls[i].shapes[q]) = Len(calls[i].shapes[1])
    BY ScenarioAssumption
<1>2. Len(calls) \in Nat \ {0} /\ DOMAIN calls = 1 .. Len(calls) /\ 1 \in DOMAIN calls
    BY <1>1
<1>3. \A i \in DOMAIN calls : calls[i] \in CallRecords
    BY <1>1
<1>4. \A i \in DOMAIN calls : Valid(calls[i]) /\ Len(calls[i].shapes) = request_count
    BY <1>1, <1>3 DEF Valid, request_count
<1>5. request_count \in Nat \ {0}
    <2>1. Valid(calls[1])
        BY <1>2, <1>4
    <2> QED BY <2>1, ValidFacts DEF request_count
<1>6. cfg.event \in BOOLEAN /\ cfg.ready \in BOOLEAN /\ cfg.maxFaults \in Nat
    BY <1>1 DEF Configs
<1> QED BY <1>1, <1>2, <1>4, <1>5, <1>6

\* The call that is handled.
LEMMA ThisCallFacts ==
    ASSUME ScenarioInv, cur \in DOMAIN calls
    PROVE  /\ Valid(ThisCall) /\ Len(ThisCall.shapes) = request_count /\ request_count \in Nat \ {0}
           /\ Kind = ThisCall.kind /\ Base = Lead(ThisCall) /\ Base \in {0, 1}
BY ScenarioFacts DEF ThisCall, Kind, Base, Lead

LEMMA BatchInitInv == BatchInit => BatchInv
<1> SUFFICES ASSUME BatchInit PROVE BatchInv
    OBVIOUS
<1> USE DEF BatchInit
<1>1. ScenarioInv
    BY DEF ScenarioInv
<1>2. /\ Len(calls) \in Nat \ {0} /\ DOMAIN calls = 1 .. Len(calls)
      /\ cfg.event \in BOOLEAN /\ cfg.ready \in BOOLEAN /\ cfg.maxFaults \in Nat
      /\ request_count \in Nat \ {0}
    BY <1>1, ScenarioFacts
<1>3. WhereInv
    BY <1>2 DEF WhereInv, Handling
<1>4. TableInv
    <2>1. NoView \in Views
        BY DEF NoView, Views
    <2>2. <<>> \in Cells /\ <<>> \in Seq({})
        BY DEF Cells
    <2> QED BY <2>1, <2>2 DEF TableInv
<1>5. CounterInv
    <2>1. next \in 1 .. request_count + 1
        BY <1>2
    <2>2. eventSet \in BOOLEAN /\ bufferReady \in BOOLEAN
        BY <1>2, Zenon
    <2>3. faults \in 0 .. cfg.maxFaults
        BY <1>2
    <2> QED BY <2>1, <2>2, <2>3 DEF CounterInv
<1>6. AheadInv
    BY DEF AheadInv, NotMade
<1>7. HandledInv /\ FillInv /\ CopyInv
    BY DEF HandledInv, Handling, FillInv, CopyInv
<1>8. BehindInv /\ SyncInv
    BY DEF BehindInv, SyncInv
<1> QED BY <1>1, <1>3, <1>4, <1>5, <1>6, <1>7, <1>8 DEF BatchInv, TypesInv
-----------------------------------------------------------------------------
(***************************************************************************)
(* A step of the thread touches nothing of the other calls.                *)
(***************************************************************************)
OthersSame ==
    /\ calls' = calls /\ cfg' = cfg
    /\ \A i \in DOMAIN calls : i # cur =>
          /\ view'[i] = view[i] /\ mem'[i] = mem[i] /\ internal'[i] = internal[i]
          /\ i \in held' <=> i \in held
          /\ i \in stray' <=> i \in stray
          /\ Queued(i)' <=> Queued(i)

LEMMA OthersBehind ==
    ASSUME ScenarioInv, WhereInv, BehindInv, OthersSame
    PROVE  \A i \in 1 .. cur - 1 : Behind(i)'
<1> SUFFICES ASSUME NEW i \in 1 .. cur - 1 PROVE Behind(i)'
    OBVIOUS
<1>1. Len(calls) \in Nat /\ DOMAIN calls = 1 .. Len(calls) /\ cur \in 1 .. Len(calls) + 1
    BY ScenarioFacts DEF WhereInv
<1>2. i \in DOMAIN calls /\ i # cur
    BY <1>1
<1>3. Behind(i)
    BY DEF BehindInv
<1>4. /\ view'[i] = view[i] /\ mem'[i] = mem[i] /\ internal'[i] = internal[i]
      /\ i \in held' <=> i \in held
      /\ Queued(i)' <=> Queued(i)
      /\ calls' = calls
    BY <1>2 DEF OthersSame
<1>5. OnGpu(i)' = OnGpu(i) /\ Returned(i)' = Returned(i)
    BY <1>4 DEF OnGpu, Returned
<1> QED BY <1>3, <1>4, <1>5 DEF Behind

LEMMA OthersAhead ==
    ASSUME ScenarioInv, WhereInv, AheadInv, OthersSame,
           (cur' = cur /\ Handling') \/ cur' = cur + 1
    PROVE  AheadInv'
<1> SUFFICES ASSUME NEW i \in DOMAIN calls, AheadOf(i)' PROVE NotMade(i)'
    BY DEF AheadInv, OthersSame
<1>1. Len(calls) \in Nat /\ DOMAIN calls = 1 .. Len(calls) /\ cur \in 1 .. Len(calls) + 1
    BY ScenarioFacts DEF WhereInv
<1>2. i > cur
    BY <1>1 DEF AheadOf
<1>3. i # cur /\ NotMade(i)
    BY <1>1, <1>2 DEF AheadInv, AheadOf
<1> QED BY <1>3 DEF OthersSame, NotMade

\* Nothing about the buffers changes.
LEMMA QuietInv ==
    ASSUME TypesInv, AheadInv, BehindInv,
           UNCHANGED <<calls, cfg, cur, view, mem, internal, stray, held, stream>>,
           Handling' <=> Handling
    PROVE  AheadInv' /\ BehindInv' /\ (TableInv /\ ScenarioInv)'
<1>1. \A i : NotMade(i)' = NotMade(i) /\ AheadOf(i)' = AheadOf(i) /\ Behind(i)' = Behind(i)
    BY DEF NotMade, AheadOf, Behind, Queued, OnGpu, Returned, Holds, Content, Padding
<1>2. AheadInv'
    BY <1>1 DEF AheadInv
<1>3. BehindInv'
    BY <1>1 DEF BehindInv
<1>4. (TableInv /\ ScenarioInv)'
    BY DEF TypesInv, TableInv, ScenarioInv
<1> QED BY <1>2, <1>3, <1>4
-----------------------------------------------------------------------------
(***************************************************************************)
(* What a step of the thread has to show: in the call it is in, or when it *)
(* leaves that call behind.                                                *)
(***************************************************************************)
LEMMA CallInRange ==
    ASSUME BatchInv, step = "begin" \/ Handling
    PROVE  /\ ScenarioInv /\ cur \in DOMAIN calls /\ DOMAIN calls = 1 .. Len(calls)
           /\ Len(calls) \in Nat /\ cur \in Nat
           /\ DOMAIN view = DOMAIN calls /\ DOMAIN mem = DOMAIN calls
           /\ DOMAIN internal = DOMAIN calls
           /\ mem[cur] \in Cells /\ internal[cur] \in Cells /\ Size \in Nat
<1>1. ScenarioInv /\ WhereInv /\ TableInv
    BY DEF BatchInv, TypesInv
<1>2. cur \in DOMAIN calls
    BY <1>1 DEF WhereInv
<1>3. /\ mem[cur] \in Cells /\ internal[cur] \in Cells
      /\ DOMAIN view = DOMAIN calls /\ DOMAIN mem = DOMAIN calls
      /\ DOMAIN internal = DOMAIN calls
    BY <1>1, <1>2 DEF TableInv
<1>4. Size \in Nat
    BY <1>3 DEF Size, Cells
<1>5. DOMAIN calls = 1 .. Len(calls) /\ Len(calls) \in Nat
    BY <1>1, ScenarioFacts
<1> QED BY <1>1, <1>2, <1>3, <1>4, <1>5

LEMMA StaysInv ==
    ASSUME BatchInv, step = "begin" \/ Handling, OthersSame, cur' = cur, Handling',
           TableInv', CounterInv', HandledInv', FillInv', CopyInv',
           stream' = stream, needSync' = needSync
    PROVE  BatchInv'
<1>1. ScenarioInv /\ WhereInv /\ AheadInv /\ BehindInv /\ SyncInv
    BY DEF BatchInv, TypesInv
<1>2. ScenarioInv'
    BY <1>1 DEF ScenarioInv, OthersSame
<1>3. WhereInv'
    BY <1>1, CallInRange DEF WhereInv, OthersSame, Handling
<1>4. AheadInv'
    BY <1>1, OthersAhead
<1>5. BehindInv'
    BY <1>1, OthersBehind DEF BehindInv
<1>6. SyncInv'
    BY <1>1 DEF SyncInv, Handling
<1> QED BY <1>2, <1>3, <1>4, <1>5, <1>6 DEF BatchInv, TypesInv

LEMMA ReturnsInv ==
    ASSUME BatchInv, step = "begin" \/ Handling, OthersSame,
           NEW kind, CallReturns(kind), TableInv', CounterInv',
           NEW d, d = cur, Behind(d)', stream' # <<>> => needSync'
    PROVE  BatchInv'
<1>1. ScenarioInv /\ WhereInv /\ AheadInv /\ BehindInv
    BY DEF BatchInv, TypesInv
<1>2. cur' = cur + 1 /\ step' \in {"begin", "finalize"}
      /\ (step' = "begin" => cur # Len(calls)) /\ calls' = calls
    BY DEF CallReturns, OthersSame
<1>3. ~Handling'
    BY <1>2 DEF Handling
<1>4. ScenarioInv'
    BY <1>1 DEF ScenarioInv, OthersSame
<1>5. cur \in 1 .. Len(calls) /\ Len(calls) \in Nat /\ DOMAIN calls = 1 .. Len(calls)
    BY CallInRange
<1>6. cur + 1 \in 1 .. Len(calls) + 1 /\ (cur # Len(calls) => cur + 1 \in DOMAIN calls)
    <2> DEFINE n == Len(calls)
    <2>1. n \in Nat /\ cur \in 1 .. n /\ DOMAIN calls = 1 .. n
        BY <1>5
    <2> HIDE DEF n
    <2>2. cur + 1 \in 1 .. n + 1 /\ (cur # n => cur + 1 \in 1 .. n)
        BY <2>1
    <2> QED BY <2>1, <2>2 DEF n
<1>7. WhereInv'
    BY <1>2, <1>3, <1>6 DEF WhereInv
<1>8. AheadInv'
    BY <1>1, <1>2, OthersAhead
<1>9. BehindInv'
    <2> SUFFICES ASSUME NEW i \in 1 .. cur' - 1 PROVE Behind(i)'
        BY DEF BehindInv
    <2>1. i \in 1 .. cur - 1 \/ i = cur
        <3>1. cur \in Nat
            BY CallInRange
        <3>2. i \in 1 .. (cur + 1) - 1
            BY <1>2
        <3> QED BY <3>1, <3>2
    <2>2. CASE i \in 1 .. cur - 1
        BY <2>2, <1>1, OthersBehind
    <2>3. CASE i = cur
        BY <2>3
    <2> QED BY <2>1, <2>2, <2>3
<1>10. HandledInv' /\ FillInv' /\ CopyInv' /\ SyncInv'
    BY <1>2, <1>3 DEF HandledInv, FillInv, CopyInv, SyncInv
<1> QED BY <1>4, <1>7, <1>8, <1>9, <1>10 DEF BatchInv, TypesInv

LEMMA FailingFacts ==
    ASSUME BatchInv, NEW n \in Nat, Failing(n)
    PROVE  faults' = faults + n /\ faults' \in 0 .. cfg.maxFaults
<1>1. faults \in 0 .. cfg.maxFaults /\ cfg.maxFaults \in Nat
    BY ScenarioFacts DEF BatchInv, TypesInv, CounterInv
<1> QED BY <1>1 DEF Failing

\* The buffers of the call that the thread is in.
LEMMA CurBuffers ==
    ASSUME BatchInv, step = "begin" \/ Handling
    PROVE  /\ cur \notin held /\ ~Queued(cur)
           /\ internal[cur] = <<>> \/ Len(internal[cur]) = Size
           /\ step = "begin" => NotMade(cur)
           /\ view[cur] \in Views
<1>1. /\ ScenarioInv /\ cur \in DOMAIN calls
      /\ TableInv /\ AheadInv /\ HandledInv
    BY CallInRange DEF BatchInv, TypesInv
<1>2. step = "begin" => NotMade(cur)
    BY <1>1 DEF AheadInv, AheadOf, Handling
<1>3. cur \notin held
    BY <1>1, <1>2 DEF HandledInv, NotMade
<1>4. ~Queued(cur)
    BY <1>1, <1>3 DEF Queued, TableInv
<1>5. internal[cur] = <<>> \/ Len(internal[cur]) = Size
    BY <1>1, <1>2 DEF HandledInv, NotMade
<1> QED BY <1>1, <1>2, <1>3, <1>4, <1>5 DEF TableInv

\* The view that a call returns.
LEMMA ReturnedView ==
    ASSUME BatchInv, step = "begin" \/ Handling,
           NEW kind \in {"buffer", "error"}, CallReturns(kind)
    PROVE  /\ view' \in [DOMAIN calls -> Views]
           /\ view'[cur].kind = kind /\ view'[cur].place = view[cur].place
           /\ \A i \in DOMAIN calls : i # cur => view'[i] = view[i]
<1>1. cur \in DOMAIN calls /\ view \in [DOMAIN calls -> Views]
    BY CallInRange DEF BatchInv, TypesInv, TableInv
<1>2. view[cur] \in Views
    BY <1>1
<1>3. view' = [view EXCEPT ![cur] = [view[cur] EXCEPT !.kind = kind]]
    BY <1>1 DEF CallReturns
<1>4. [view[cur] EXCEPT !.kind = kind] \in Views
    BY <1>2 DEF Views
<1>5. /\ [view[cur] EXCEPT !.kind = kind].kind = kind
      /\ [view[cur] EXCEPT !.kind = kind].place = view[cur].place
    BY <1>2 DEF Views
<1> QED BY <1>1, <1>3, <1>4, <1>5

\* A call returns and leaves the buffers alone.
LEMMA ReturnQuietly ==
    ASSUME BatchInv, step = "begin" \/ Handling,
           NEW kind \in {"buffer", "error"}, CallReturns(kind),
           kind = "buffer" => Kind = AsShape,
           UNCHANGED <<calls, cfg, bufVars, fillVars, copyVars, bufferReady>>,
           eventSet' \in BOOLEAN, faults' \in 0 .. cfg.maxFaults
    PROVE  BatchInv'
<1> DEFINE d == cur
<1>1. /\ ScenarioInv /\ cur \in DOMAIN calls /\ TableInv /\ CounterInv /\ SyncInv
    BY CallInRange DEF BatchInv, TypesInv
<1>2. /\ calls' = calls /\ cfg' = cfg /\ mem' = mem /\ internal' = internal /\ stray' = stray
      /\ held' = held /\ stream' = stream /\ needSync' = needSync
      /\ next' = next /\ at' = at /\ sum' = sum
    BY DEF bufVars, fillVars, copyVars
<1>3. /\ view' \in [DOMAIN calls -> Views]
      /\ view'[cur].kind = kind /\ view'[cur].place = view[cur].place
      /\ \A i \in DOMAIN calls : i # cur => view'[i] = view[i]
    BY ReturnedView
<1>4. TableInv'
    BY <1>1, <1>2, <1>3 DEF TableInv
<1>5. CounterInv'
    BY <1>1, <1>2 DEF CounterInv, request_count
<1>6. OthersSame
    BY <1>2, <1>3 DEF OthersSame, Queued
<1>7. ASSUME NEW e, e = cur PROVE Behind(e)'
    <2>1. /\ e \notin held /\ ~Queued(e)
          /\ internal[e] = <<>> \/ Len(internal[e]) = Len(mem[e])
        BY <1>7, CurBuffers DEF Size
    <2>2. ~Returned(e)'
        BY <1>7, <1>2, <1>3 DEF Returned, Kind, ThisCall, AsShape
    <2>3. ~Queued(e)'
        BY <2>1, <1>2 DEF Queued
    <2> QED BY <2>1, <2>2, <2>3, <1>2 DEF Behind
<1>8. stream' # <<>> => needSync'
    BY <1>1, <1>2 DEF SyncInv
<1> QED BY <1>4, <1>5, <1>6, <1>7, <1>8, ReturnsInv
-----------------------------------------------------------------------------
(***************************************************************************)
(* Getting the buffers.                                                    *)
(***************************************************************************)
LEMMA NextsSame ==
    ASSUME BatchInv, UNCHANGED <<calls, cfg, fillVars, needSync, bufferReady>>,
           eventSet' \in BOOLEAN, faults' \in 0 .. cfg.maxFaults
    PROVE  CounterInv'
<1>1. CounterInv
    BY DEF BatchInv, TypesInv
<1>2. next' = next /\ at' = at /\ sum' = sum
    BY DEF fillVars
<1> QED BY <1>1, <1>2 DEF CounterInv, request_count

\* BatchInputShape, with what it depends on.
ShapeFor(call, n) ==
    CASE call.kind \in Accumulating \cup {"BATCH_ELEMENT_COUNT"} ->
            <<IF call.kind = "BATCH_ACCUMULATED_ELEMENT_COUNT_WITH_ZERO" THEN n + 1 ELSE n>>
      [] call.kind = "BATCH_MAX_ELEMENT_COUNT_AS_SHAPE" -> <<LargestCount(call.shapes)>>
      [] call.kind = "BATCH_ITEM_SHAPE" ->
            <<BatchSize(call.shapes), Len(Last(call.shapes)) - 1>>
      [] call.kind = "BATCH_ITEM_SHAPE_FLATTEN" -> <<ItemNumbers(call.shapes)>>

LEMMA ShapeIs == BatchInputShape = ShapeFor(ThisCall, request_count)
BY Zenon DEF BatchInputShape, ShapeFor, Kind, Numbers, LargestCount, ItemNumbers

LEMMA SameWanted ==
    ASSUME calls' = calls, cur' = cur
    PROVE  /\ ThisCall' = ThisCall /\ request_count' = request_count /\ Kind' = Kind
           /\ Base' = Base
           /\ \A size : Wanted(size)' <=> Wanted(size)
<1>1. (BatchInputShape = ShapeFor(ThisCall, request_count))'
    BY ShapeIs, PTL
<1>2. /\ ThisCall' = ThisCall /\ request_count' = request_count /\ Kind' = Kind
      /\ Base' = Base
    BY DEF ThisCall, request_count, Kind, Base
<1>3. BatchInputShape' = BatchInputShape
    BY <1>1, <1>2, ShapeIs
<1> QED BY <1>2, <1>3 DEF Wanted, GetByteSize

LEMMA EnterInv ==
    ASSUME BatchInv, step = "begin", NEW place \in Places, NEW cells \in Nat,
           Enter(place, cells), Wanted(cells),
           UNCHANGED <<calls, cfg, cur, internal, stray, fillVars, copyVars, bufferReady>>,
           eventSet' \in BOOLEAN, faults' \in 0 .. cfg.maxFaults
    PROVE  BatchInv'
<1>1. /\ ScenarioInv /\ cur \in DOMAIN calls /\ TableInv /\ CounterInv
    BY CallInRange DEF BatchInv, TypesInv
<1>2. /\ calls' = calls /\ cfg' = cfg /\ internal' = internal /\ stray' = stray
      /\ held' = held /\ stream' = stream /\ needSync' = needSync /\ cur' = cur
    BY DEF copyVars
<1>3. NotMade(cur) /\ view[cur] \in Views
    BY CurBuffers
<1> DEFINE new == [i \in 1 .. cells |-> Junk]
           seen == [view[cur] EXCEPT !.place = place]
<1>4. new \in Cells /\ Len(new) = cells
    BY DEF Cells, Junk
<1>5. view' = [view EXCEPT ![cur] = seen] /\ mem' = [mem EXCEPT ![cur] = new]
    BY <1>1 DEF Enter, TableInv
<1>6. seen \in Views /\ seen.kind = "none" /\ seen.place = place
    BY <1>3 DEF NotMade, NoView, Views
<1> HIDE DEF new, seen
<1>7. /\ view' \in [DOMAIN calls -> Views] /\ mem' \in [DOMAIN calls -> Cells]
      /\ view'[cur] = seen /\ mem'[cur] = new
      /\ \A i \in DOMAIN calls : i # cur => view'[i] = view[i] /\ mem'[i] = mem[i]
    BY <1>1, <1>4, <1>5, <1>6 DEF TableInv
<1>8. TableInv'
    <2>1. \A i \in stray : i # cur /\ mem'[i] = mem[i]
        BY <1>1, <1>3, <1>7 DEF TableInv, NotMade
    <2> QED BY <2>1, <1>1, <1>2, <1>7 DEF TableInv
<1>9. OthersSame
    BY <1>2, <1>7 DEF OthersSame, Queued
<1>10. CounterInv'
    BY <1>2, NextsSame
<1>11. Handling' /\ step' \in {"internal", "start"}
       /\ (step' = "internal" <=> MemoryType(place) = "GPU")
    BY DEF Enter, Handling
<1>12. Size' = cells /\ OnDevice' = (MemoryType(place) = "GPU") /\ internal'[cur] = <<>>
    BY <1>2, <1>3, <1>4, <1>6, <1>7 DEF Size, OnDevice, NotMade
<1>13. Wanted(cells)'
    BY <1>2, SameWanted
<1>14. HandledInv'
    <2>1. Wanted(Size)'
        BY <1>12, <1>13 DEF Wanted
    <2>2. cur' \notin held'
        BY <1>2, <1>3 DEF NotMade
    <2>3. view'[cur'].kind = "none" /\ view'[cur'].place \in Places
        BY <1>2, <1>6, <1>7
    <2> QED BY <2>1, <2>2, <2>3, <1>2, <1>11, <1>12 DEF HandledInv
<1>15. FillInv' /\ CopyInv'
    BY <1>11 DEF FillInv, CopyInv
<1> QED BY <1>2, <1>8, <1>9, <1>10, <1>11, <1>14, <1>15, StaysInv

LEMMA WaitFacts ==
    ASSUME BatchInv, WaitBufferReady PROVE eventSet' \in BOOLEAN /\ bufferReady' = bufferReady
BY DEF WaitBufferReady

LEMMA BeginGivenInv == ASSUME BatchInv, BeginGiven PROVE BatchInv'
<1>1. Valid(ThisCall)
    BY CallInRange, ThisCallFacts DEF BeginGiven
<1>2. ThisCall.allowed[1] \in Places /\ ThisCall.cells \in Nat
    BY <1>1, ValidFacts DEF BeginGiven
<1>3. Wanted(ThisCall.cells)
    BY DEF Wanted, BeginGiven
<1>4. faults' \in 0 .. cfg.maxFaults
    BY DEF BeginGiven, BatchInv, TypesInv, CounterInv
<1> QED BY <1>2, <1>3, <1>4, WaitFacts, EnterInv DEF BeginGiven

LEMMA BeginAllocatedInv == ASSUME BatchInv, BeginAllocated PROVE BatchInv'
<1>1. Valid(ThisCall) /\ request_count = Len(ThisCall.shapes)
    BY CallInRange, ThisCallFacts DEF BeginAllocated
<1>2. Attempts \in Seq(Places)
    BY <1>1, ValidFacts, AttemptsFacts
<1>3. GetByteSize(BatchInputShape) \in Nat
    BY <1>1, SizeIs
<1>4. Wanted(GetByteSize(BatchInputShape))
    BY DEF Wanted, BeginAllocated
<1> PICK k \in DOMAIN Attempts :
        CreateAt(k) /\ Enter(Attempts[k], GetByteSize(BatchInputShape))
    BY DEF BeginAllocated
<1>5. k - 1 \in Nat /\ Attempts[k] \in Places
    BY <1>2
<1>6. faults' \in 0 .. cfg.maxFaults
    BY <1>5, FailingFacts DEF CreateAt
<1> QED BY <1>3, <1>4, <1>5, <1>6, WaitFacts, EnterInv DEF BeginAllocated

LEMMA BeginFailedInv == ASSUME BatchInv, BeginFailed PROVE BatchInv'
<1>1. Attempts \in Seq(Places)
    BY CallInRange, ThisCallFacts, ValidFacts, AttemptsFacts DEF BeginFailed
<1>2. Len(Attempts) \in Nat
    BY <1>1
<1>3. faults \in 0 .. cfg.maxFaults
    BY DEF BatchInv, TypesInv, CounterInv
<1>4. faults' \in 0 .. cfg.maxFaults
    BY <1>2, <1>3, FailingFacts DEF BeginFailed, CreateFails
<1> QED BY <1>4, WaitFacts, ReturnQuietly DEF BeginFailed

LEMMA CreateInternalInv == ASSUME BatchInv, CreateInternal PROVE BatchInv'
<1>1. Handling /\ step = "internal"
    BY DEF CreateInternal, Handling
<1>2. /\ ScenarioInv /\ cur \in DOMAIN calls /\ TableInv /\ CounterInv /\ HandledInv
      /\ mem[cur] \in Cells
    BY <1>1, CallInRange DEF BatchInv, TypesInv
<1>3. /\ calls' = calls /\ cfg' = cfg /\ mem' = mem /\ stray' = stray /\ view' = view
      /\ held' = held /\ stream' = stream /\ needSync' = needSync /\ cur' = cur
      /\ eventSet' = eventSet /\ bufferReady' = bufferReady /\ step' = "start"
    BY DEF CreateInternal, copyVars, eventVars
<1> DEFINE new == [i \in DOMAIN mem[cur] |-> Junk]
<1>4. new \in Cells /\ Len(new) = Size
    <2>1. DOMAIN mem[cur] = 1 .. Len(mem[cur]) /\ Len(mem[cur]) \in Nat
        BY <1>2 DEF Cells
    <2> QED BY <2>1 DEF Cells, Junk, Size
<1>5. internal' = [internal EXCEPT ![cur] = new]
    BY DEF CreateInternal
<1> HIDE DEF new
<1>6. /\ internal' \in [DOMAIN calls -> Cells] /\ internal'[cur] = new
      /\ \A i \in DOMAIN calls : i # cur => internal'[i] = internal[i]
    BY <1>2, <1>4, <1>5 DEF TableInv
<1>7. TableInv'
    BY <1>2, <1>3, <1>6 DEF TableInv
<1>8. OthersSame
    BY <1>3, <1>6 DEF OthersSame, Queued
<1>9. faults' \in 0 .. cfg.maxFaults
    <2> PICK k \in DOMAIN InternalTypes : CreateAt(k)
        BY DEF CreateInternal
    <2>1. k - 1 \in Nat
        BY DEF InternalTypes
    <2> QED BY <2>1, FailingFacts DEF CreateAt
<1>10. CounterInv'
    <2>1. eventSet' \in BOOLEAN
        BY <1>2, <1>3 DEF CounterInv
    <2> QED BY <2>1, <1>3, <1>9, NextsSame DEF CreateInternal
<1>11. Handling'
    BY <1>3 DEF Handling
<1>12. HandledInv'
    <2>1. Size' = Size /\ OnDevice' = OnDevice
        BY <1>3 DEF Size, OnDevice
    <2>2. Wanted(Size)'
        BY <1>1, <1>2, <1>3, <2>1, SameWanted DEF HandledInv
    <2> QED BY <2>1, <2>2, <1>1, <1>2, <1>3, <1>4, <1>6 DEF HandledInv
<1>13. FillInv' /\ CopyInv'
    BY <1>3 DEF FillInv, CopyInv
<1> QED BY <1>1, <1>3, <1>7, <1>8, <1>10, <1>11, <1>12, <1>13, StaysInv

LEMMA CreateInternalFailsInv == ASSUME BatchInv, CreateInternalFails PROVE BatchInv'
<1>1. Handling
    BY DEF CreateInternalFails, Handling
<1>2. Len(InternalTypes) \in Nat
    BY DEF InternalTypes
<1>3. faults' \in 0 .. cfg.maxFaults
    BY <1>2, FailingFacts DEF CreateInternalFails, CreateFails
<1>4. eventSet' \in BOOLEAN /\ bufferReady' = bufferReady
    BY DEF CreateInternalFails, eventVars, BatchInv, TypesInv, CounterInv
<1> QED BY <1>1, <1>3, <1>4, ReturnQuietly DEF CreateInternalFails
-----------------------------------------------------------------------------
(***************************************************************************)
(* Writing numbers to the CPU buffer.                                      *)
(***************************************************************************)
Overwritten(buffer, first, numbers) ==
    [i \in DOMAIN buffer |->
        IF i \in first .. first + Len(numbers) - 1 THEN numbers[i - first + 1] ELSE buffer[i]]

LEMMA OverwrittenFacts ==
    ASSUME NEW buffer \in Cells, NEW first \in Nat \ {0}, NEW numbers \in Cells
    PROVE  /\ Overwritten(buffer, first, numbers) \in Cells
           /\ Len(Overwritten(buffer, first, numbers)) = Len(buffer)
           /\ \A k \in 1 .. Len(buffer) :
                 /\ k < first \/ first + Len(numbers) <= k =>
                       Overwritten(buffer, first, numbers)[k] = buffer[k]
                 /\ first <= k /\ k < first + Len(numbers) =>
                       Overwritten(buffer, first, numbers)[k] = numbers[k - first + 1]
<1> DEFINE n == Len(buffer)  m == Len(numbers)
           new == Overwritten(buffer, first, numbers)
<1>1. n \in Nat /\ DOMAIN buffer = 1 .. n /\ m \in Nat
    BY DEF Cells
<1>2. \A k \in 1 .. n : buffer[k] \in Int
    BY DEF Cells
<1>3. \A k \in 1 .. m : numbers[k] \in Int
    BY DEF Cells
<1>4. new = [k \in 1 .. n |->
                IF k \in first .. first + m - 1 THEN numbers[k - first + 1] ELSE buffer[k]]
    BY <1>1 DEF Overwritten
<1> HIDE DEF n, m, new
<1>5. ASSUME NEW k \in 1 .. n
      PROVE  /\ k < first \/ first + m <= k => new[k] = buffer[k]
             /\ first <= k /\ k < first + m => new[k] = numbers[k - first + 1]
             /\ new[k] \in Int
    <2>1. k \in first .. first + m - 1 => k - first + 1 \in 1 .. m
        BY <1>1
    <2>2. k \in first .. first + m - 1 <=> first <= k /\ k < first + m
        BY <1>1
    <2>3. k < first \/ first + m <= k => k \notin first .. first + m - 1
        BY <1>1
    <2> QED BY <2>1, <2>2, <2>3, <1>2, <1>3, <1>4
<1>6. DOMAIN new = 1 .. n /\ new \in [1 .. n -> Int]
    BY <1>4, <1>5
<1>7. new \in Seq(Int) /\ Len(new) = n
    BY <1>1, <1>6, TableIsSequence
<1> QED BY <1>5, <1>7 DEF Cells, n, m, new

\* The CPU buffer after a step.
Filled == IF OnDevice THEN internal'[cur] ELSE mem'[cur]

LEMMA WriteFacts ==
    ASSUME BatchInv, Handling, OnDevice => Len(internal[cur]) = Size,
           NEW first \in Nat \ {0}, NEW numbers \in Cells, Write(first, numbers),
           first + Len(numbers) - 1 <= Size \/ Unchecked(ThisCall, Size)
    PROVE  /\ mem' \in [DOMAIN calls -> Cells] /\ internal' \in [DOMAIN calls -> Cells]
           /\ \A i \in DOMAIN calls : i # cur =>
                 /\ mem'[i] = mem[i] /\ internal'[i] = internal[i]
                 /\ i \in stray' <=> i \in stray
           /\ Len(mem'[cur]) = Size /\ Len(internal'[cur]) = Len(internal[cur])
           /\ stray' \subseteq DOMAIN calls /\ \A i \in stray' : Unchecked(calls[i], Len(mem'[i]))
           /\ Filled = Overwritten(Work, first, numbers) /\ Work \in Cells /\ Len(Work) = Size
<1>1. /\ cur \in DOMAIN calls /\ TableInv /\ mem[cur] \in Cells /\ internal[cur] \in Cells
      /\ Size \in Nat
    BY CallInRange DEF BatchInv, TypesInv
<1>2. Work \in Cells /\ Len(Work) = Size
    BY <1>1 DEF Work, Size
<1> DEFINE new == Overwritten(Work, first, numbers)
<1>3. new \in Cells /\ Len(new) = Size
    BY <1>2, OverwrittenFacts
<1>4. IF OnDevice
      THEN internal' = [internal EXCEPT ![cur] = new] /\ mem' = mem
      ELSE mem' = [mem EXCEPT ![cur] = new] /\ internal' = internal
    BY <1>1 DEF Write, Work, Overwritten, TableInv
<1>5. stray' = IF first + Len(numbers) - 1 > Size THEN stray \cup {cur} ELSE stray
    BY DEF Write
<1> HIDE DEF new
<1>6. /\ mem' \in [DOMAIN calls -> Cells] /\ internal' \in [DOMAIN calls -> Cells]
      /\ \A i \in DOMAIN calls : i # cur => mem'[i] = mem[i] /\ internal'[i] = internal[i]
    BY <1>1, <1>3, <1>4 DEF TableInv
<1>7. Len(mem'[cur]) = Size /\ Len(internal'[cur]) = Len(internal[cur])
    BY <1>1, <1>2, <1>3, <1>4 DEF TableInv, Size, Work
<1>8. Filled = new
    BY <1>1, <1>4 DEF Filled, TableInv
<1>9. /\ stray' \subseteq DOMAIN calls /\ \A i \in stray' : Unchecked(calls[i], Len(mem'[i]))
      /\ \A i \in DOMAIN calls : i # cur => (i \in stray' <=> i \in stray)
    <2>1. Unchecked(ThisCall, Size) => Unchecked(calls[cur], Len(mem'[cur]))
        BY <1>7 DEF ThisCall
    <2>2. Len(numbers) \in Nat
        BY DEF Cells
    <2>3. \A i \in stray' : i \in stray \/ (i = cur /\ Unchecked(ThisCall, Size))
        BY <1>5, <1>1, <2>2
    <2>4. \A i \in stray : Unchecked(calls[i], Len(mem'[i]))
        <3>1. \A i \in stray : i \in DOMAIN calls /\ Unchecked(calls[i], Len(mem[i]))
            BY <1>1 DEF TableInv
        <3>2. \A i \in DOMAIN calls : Len(mem'[i]) = Len(mem[i])
            BY <1>6, <1>7 DEF Size
        <3> QED BY <3>1, <3>2
    <2>5. \A i \in stray' : Unchecked(calls[i], Len(mem'[i]))
        BY <2>1, <2>3, <2>4
    <2>6. stray' \subseteq DOMAIN calls
        BY <2>3, <1>1 DEF TableInv
    <2>7. stray \subseteq stray'
        BY <1>5
    <2> QED BY <2>3, <2>5, <2>6, <2>7
<1> QED BY <1>2, <1>6, <1>7, <1>8, <1>9 DEF new
-----------------------------------------------------------------------------
(***************************************************************************)
(* Filling the buffer.                                                     *)
(***************************************************************************)
\* A step of the fill that stays in the call: what is left to show.
LEMMA FillsOn ==
    ASSUME BatchInv, step \in {"start", "fill"},
           UNCHANGED <<calls, cfg, cur, view, copyVars, eventVars, faults>>,
           step' \in {"fill", "copy"}, step' = "copy" => OnDevice,
           mem' \in [DOMAIN calls -> Cells], internal' \in [DOMAIN calls -> Cells],
           \A i \in DOMAIN calls : i # cur =>
              /\ mem'[i] = mem[i] /\ internal'[i] = internal[i]
              /\ i \in stray' <=> i \in stray,
           Len(mem'[cur]) = Size, Len(internal'[cur]) = Len(internal[cur]),
           stray' \subseteq DOMAIN calls,
           \A i \in stray' : Unchecked(calls[i], Len(mem'[i])),
           next' \in 1 .. request_count + 1, at' \in Nat, sum' \in Nat,
           FillInv', CopyInv'
    PROVE  BatchInv'
<1>1. Handling /\ Handling'
    BY DEF Handling
<1>2. /\ cur \in DOMAIN calls /\ TableInv /\ CounterInv /\ HandledInv
      /\ mem[cur] \in Cells /\ internal[cur] \in Cells
    BY <1>1, CallInRange DEF BatchInv, TypesInv
<1>3. /\ calls' = calls /\ cfg' = cfg /\ cur' = cur /\ view' = view /\ held' = held
      /\ stream' = stream /\ needSync' = needSync
      /\ eventSet' = eventSet /\ bufferReady' = bufferReady /\ faults' = faults
    BY DEF copyVars, eventVars
<1>4. TableInv'
    BY <1>2, <1>3 DEF TableInv
<1>5. CounterInv'
    BY <1>2, <1>3 DEF CounterInv, request_count
<1>6. OthersSame
    BY <1>3 DEF OthersSame, Queued
<1>7. HandledInv'
    <2>1. Size' = Size /\ OnDevice' = OnDevice
        BY <1>3 DEF Size, OnDevice
    <2>2. Wanted(Size)'
        BY <1>1, <1>2, <1>3, <2>1, SameWanted DEF HandledInv
    <2>3. internal'[cur] \in Cells
        BY <1>2
    <2>4. Len(internal[cur]) = 0 => internal'[cur] = <<>>
        BY <2>3 DEF Cells
    <2>5. internal'[cur] = <<>> \/ Len(internal'[cur]) = Size
        BY <2>4, <1>1, <1>2 DEF HandledInv
    <2> QED BY <2>1, <2>2, <2>5, <1>1, <1>2, <1>3 DEF HandledInv
<1> QED BY <1>1, <1>3, <1>4, <1>5, <1>6, <1>7, StaysInv

\* The content that the call is to write.
LEMMA WantedContent ==
    ASSUME BatchInv, Handling, Kind # AsShape
    PROVE  /\ Content(ThisCall) \in Cells /\ Base \in {0, 1}
           /\ Len(Content(ThisCall)) = Base + PartsUpTo(ThisCall, request_count)
           /\ Located(Content(ThisCall), ThisCall)
           /\ Base = 1 => Content(ThisCall)[1] = 0
           /\ PartsUpTo(ThisCall, 0) = 0 /\ CountsUpTo(ThisCall.shapes, 0) = 0
           /\ Valid(ThisCall) /\ Len(ThisCall.shapes) = request_count
           /\ request_count \in Nat \ {0} /\ Kind = ThisCall.kind /\ Base = Lead(ThisCall)
           /\ ThisCall.shapes \in Seq(Shapes)
           /\ \A q \in 0 .. request_count :
                 PartsUpTo(ThisCall, q) \in Nat /\ CountsUpTo(ThisCall.shapes, q) \in Nat
<1>1. /\ Valid(ThisCall) /\ Len(ThisCall.shapes) = request_count
      /\ request_count \in Nat \ {0} /\ Kind = ThisCall.kind /\ Base = Lead(ThisCall)
      /\ Base \in {0, 1}
    BY CallInRange, ThisCallFacts
<1>2. /\ Content(ThisCall) \in Seq(Nat)
      /\ Len(Content(ThisCall)) = Base + PartsUpTo(ThisCall, request_count)
      /\ Located(Content(ThisCall), ThisCall)
      /\ Base = 1 => Content(ThisCall)[1] = 0
    BY <1>1, ContentFacts
<1>3. /\ PartsUpTo(ThisCall, 0) = 0
      /\ \A q \in 0 .. request_count : PartsUpTo(ThisCall, q) \in Nat
    BY <1>1, PartFacts
<1>4. ThisCall.shapes \in Seq(Shapes)
    BY <1>1, ValidFacts
<1>5. /\ CountsUpTo(ThisCall.shapes, 0) = 0
      /\ \A q \in 0 .. request_count : CountsUpTo(ThisCall.shapes, q) \in Nat
    BY <1>1, <1>4, CountsFacts
<1>6. Content(ThisCall) \in Cells
    BY <1>2 DEF Cells
<1> QED BY <1>1, <1>2, <1>3, <1>4, <1>5, <1>6

LEMMA StartZeroInv == ASSUME BatchInv, StartZero PROVE BatchInv'
<1> DEFINE zero == <<0>>  one == 1
<1>1. Handling /\ step = "start" /\ step' = "fill" /\ Write(one, zero)
    BY DEF StartZero, Handling
<1>2. Kind # AsShape
    BY DEF StartZero, AsShape, ItemKinds
<1>3. OnDevice => Len(internal[cur]) = Size
    BY <1>1 DEF BatchInv, HandledInv
<1>4. zero \in Cells /\ Len(zero) = 1 /\ zero[1] = 0 /\ one \in Nat \ {0} /\ one = 1
    BY DEF Cells
<1> HIDE DEF zero, one
<1>5. one + Len(zero) - 1 <= Size \/ Unchecked(ThisCall, Size)
    <2>1. one + Len(zero) - 1 <= Size \/ Size = 0
        BY <1>1, <1>4, CallInRange
    <2>2. Size = 0 => Unchecked(ThisCall, Size)
        BY DEF StartZero, Kind, Unchecked
    <2> QED BY <2>1, <2>2
<1>6. /\ mem' \in [DOMAIN calls -> Cells] /\ internal' \in [DOMAIN calls -> Cells]
      /\ \A i \in DOMAIN calls : i # cur =>
            /\ mem'[i] = mem[i] /\ internal'[i] = internal[i]
            /\ i \in stray' <=> i \in stray
      /\ Len(mem'[cur]) = Size /\ Len(internal'[cur]) = Len(internal[cur])
      /\ stray' \subseteq DOMAIN calls /\ \A i \in stray' : Unchecked(calls[i], Len(mem'[i]))
      /\ Filled = Overwritten(Work, one, zero) /\ Work \in Cells /\ Len(Work) = Size
    BY <1>1, <1>3, <1>4, <1>5, WriteFacts
<1>7. /\ Base \in {0, 1} /\ (Base = 1 => Content(ThisCall)[1] = 0)
      /\ PartsUpTo(ThisCall, 0) = 0 /\ CountsUpTo(ThisCall.shapes, 0) = 0
      /\ request_count \in Nat
    BY <1>1, <1>2, WantedContent
<1>8. /\ calls' = calls /\ cur' = cur /\ view' = view /\ next' = 1 /\ at' = 0 /\ sum' = 0
      /\ ThisCall' = ThisCall /\ Kind' = Kind /\ Base' = Base /\ Work' = Filled
      /\ Size' = Size
    <2>1. calls' = calls /\ cur' = cur /\ view' = view /\ next' = 1 /\ at' = 0 /\ sum' = 0
        BY DEF StartZero
    <2> QED BY <2>1, <1>6, SameWanted DEF Work, Filled, OnDevice, Size
<1>9. Size # 0 => \A k \in 1 .. Base + 0 : Filled[k] = Content(ThisCall)[k]
    <2> SUFFICES ASSUME Size # 0, NEW k \in 1 .. Base + 0
                 PROVE  Filled[k] = Content(ThisCall)[k]
        OBVIOUS
    <2>1. k = 1 /\ Base = 1 /\ 1 \in 1 .. Size /\ Size \in Nat
        BY <1>7, <1>1, CallInRange
    <2>2. Filled[1] = zero[1]
        <3>1. \A j \in 1 .. Size : one <= j /\ j < one + Len(zero) =>
                    Overwritten(Work, one, zero)[j] = zero[j - one + 1]
            BY SMTT(30), <1>4, <1>6, OverwrittenFacts
        <3> QED BY <3>1, <2>1, <1>4, <1>6
    <2> QED BY <2>1, <2>2, <1>4, <1>7
<1>10. FillInv'
    BY <1>2, <1>7, <1>8, <1>9 DEF FillInv, Base
<1>11. CopyInv'
    BY <1>1 DEF CopyInv
<1>12. next' \in 1 .. request_count + 1 /\ at' \in Nat /\ sum' \in Nat
    BY <1>7, <1>8
<1> QED BY <1>1, <1>6, <1>10, <1>11, <1>12, FillsOn DEF StartZero

LEMMA StartPlainInv == ASSUME BatchInv, StartPlain PROVE BatchInv'
<1>1. Handling /\ step = "start" /\ step' = "fill"
    BY DEF StartPlain, Handling
<1>2. Kind # AsShape /\ Base = 0
    BY DEF StartPlain, AsShape, Base
<1>3. /\ calls' = calls /\ cur' = cur /\ view' = view /\ next' = 1 /\ at' = 0 /\ sum' = 0
      /\ mem' = mem /\ internal' = internal /\ stray' = stray
    BY DEF StartPlain, bufVars
<1>4. cur \in DOMAIN calls /\ TableInv
    BY <1>1, CallInRange DEF BatchInv, TypesInv
<1>5. /\ PartsUpTo(ThisCall, 0) = 0 /\ CountsUpTo(ThisCall.shapes, 0) = 0
      /\ request_count \in Nat
    BY <1>1, <1>2, WantedContent
<1>6. ThisCall' = ThisCall /\ Kind' = Kind /\ Base' = Base /\ Size' = Size
    BY <1>3, SameWanted DEF Size
<1>7. Size \in Nat
    BY <1>1, CallInRange
<1>8. FillInv'
    BY <1>2, <1>3, <1>5, <1>6, <1>7 DEF FillInv
<1>9. CopyInv'
    BY <1>1 DEF CopyInv
<1>10. next' \in 1 .. request_count + 1 /\ at' \in Nat /\ sum' \in Nat
    BY <1>3, <1>5
<1> QED BY <1>1, <1>3, <1>4, <1>8, <1>9, <1>10, FillsOn DEF StartPlain, TableInv, Size

LEMMA StartShapeInv == ASSUME BatchInv, StartShape PROVE BatchInv'
<1>1. Handling /\ Kind = AsShape
    BY DEF StartShape, Handling, AsShape
<1>2. /\ eventSet' \in BOOLEAN /\ bufferReady' = bufferReady /\ faults' \in 0 .. cfg.maxFaults
    BY DEF StartShape, eventVars, BatchInv, TypesInv, CounterInv
<1> QED BY <1>1, <1>2, ReturnQuietly DEF StartShape
-----------------------------------------------------------------------------
\* What is written for the next request, where it goes, and that what is more
\* than its part of the content is written without a check.
LEMMA NextPart ==
    ASSUME BatchInv, step = "fill", next <= request_count
    PROVE  /\ next \in 1 .. request_count /\ next - 1 \in 0 .. request_count
           /\ Entry(next) \in Cells /\ Len(Entry(next)) \in Nat
           /\ Taken(next) \in Nat /\ Taken(next) = Len(PartOf(ThisCall, next))
           /\ Taken(next) <= Len(Entry(next))
           /\ \A k \in 1 .. Taken(next) : Entry(next)[k] = PartOf(ThisCall, next)[k]
           /\ \/ Taken(next) = Len(Entry(next))
              \/ \A size \in Nat : Base + at + Len(Entry(next)) <= size
                                       \/ Unchecked(ThisCall, size)
           /\ at = PartsUpTo(ThisCall, next - 1) /\ at \in Nat
           /\ at + Taken(next) = PartsUpTo(ThisCall, next)
           /\ sum + Count(next) = CountsUpTo(ThisCall.shapes, next)
<1>1. Handling /\ FillInv /\ CounterInv /\ Kind # AsShape
    BY DEF Handling, BatchInv, TypesInv, FillInv
<1>2. /\ Valid(ThisCall) /\ Len(ThisCall.shapes) = request_count
      /\ request_count \in Nat \ {0} /\ Kind = ThisCall.kind
      /\ ThisCall.shapes \in Seq(Shapes)
    BY <1>1, WantedContent
<1>3. next \in 1 .. request_count /\ at \in Nat
    BY <1>1, <1>2 DEF CounterInv
<1>4. next - 1 \in 0 .. request_count /\ next \in 0 .. request_count
    BY <1>2, <1>3
<1>5. at = PartsUpTo(ThisCall, next - 1) /\ sum = CountsUpTo(ThisCall.shapes, next - 1)
    BY <1>1 DEF FillInv
<1> DEFINE entry == Entry(next)  part == PartOf(ThisCall, next)  taken == Taken(next)
           width == Len(ThisCall.shapes[1]) - 1  rows == RowsUpTo(ThisCall.shapes, next)
<1>6. /\ sum + Count(next) = CountsUpTo(ThisCall.shapes, next)
      /\ taken = Len(part) /\ entry \in Seq(Nat)
      /\ \/ entry = part
         \/ /\ Kind \in ItemKinds /\ ThisCall.shapes[next][1] = 0 /\ taken = 0
            /\ Len(entry) = width
    BY <1>1, <1>2, <1>3, <1>5, EntryIs
<1>7. /\ part \in Seq(Nat)
      /\ PartsUpTo(ThisCall, next) = PartsUpTo(ThisCall, next - 1) + Len(part)
    BY <1>1, <1>2, <1>3, PartFacts
<1>8. Kind \in ItemKinds =>
          /\ PartsUpTo(ThisCall, next) = rows * width
          /\ rows \in Nat /\ width \in Nat /\ Base = 0
    <2>1. rows \in Nat
        BY <1>2, <1>4, RowsFacts
    <2>2. width \in Nat
        BY <1>2, ValidFacts
    <2> QED BY <2>1, <2>2, <1>2 DEF PartsUpTo, Base, ItemKinds
<1>9. /\ entry \in Cells /\ Len(entry) \in Nat /\ Len(part) \in Nat
    <2> HIDE DEF entry, part
    <2> QED BY <1>6, <1>7 DEF Cells
<1>10. ASSUME Kind \in ItemKinds, ThisCall.shapes[next][1] = 0, taken = 0, Len(entry) = width,
              NEW size \in Nat, ~(Base + at + Len(entry) <= size)
       PROVE  Unchecked(ThisCall, size)
    <2>1. at = rows * width
        BY <1>3, <1>5, <1>6, <1>7, <1>8, <1>10
    <2>2. (rows + 1) * width = rows * width + width
        <3> HIDE DEF rows, width
        <3>1. \A a, b \in Nat : (a + 1) * b = a * b + b
            BY Distributes
        <3> QED BY <3>1, <1>8, <1>10
    <2>3. (rows + 1) * width > size
        <3> HIDE DEF rows, width, entry
        <3>1. /\ at + width = (rows + 1) * width /\ at \in Nat /\ width \in Nat
              /\ ~(0 + at + width <= size)
            BY <2>1, <2>2, <1>3, <1>8, <1>10
        <3> DEFINE end == (rows + 1) * width
        <3>2. at + width = end
            BY <3>1
        <3> HIDE DEF end
        <3>3. end > size
            BY <3>1, <3>2
        <3> QED BY <3>3 DEF end
    <2>4. next \in DOMAIN ThisCall.shapes
        BY <1>2, <1>3
    <2>5. (BatchSize(SubSeq(ThisCall.shapes, 1, next)) + 1) * (Len(ThisCall.shapes[1]) - 1) > size
        BY <2>3 DEF RowsUpTo
    <2> QED BY <2>4, <2>5, <1>2, <1>10 DEF Unchecked
<1> HIDE DEF entry, part, taken
<1>11. taken = Len(entry) \/ \A size \in Nat : Base + at + Len(entry) <= size
                                               \/ Unchecked(ThisCall, size)
    BY <1>6, <1>10
<1>12. taken \in Nat /\ taken <= Len(entry) /\ \A k \in 1 .. taken : entry[k] = part[k]
    BY <1>6, <1>9
<1> QED BY <1>3, <1>4, <1>5, <1>6, <1>7, <1>9, <1>11, <1>12 DEF entry, part, taken

LEMMA FillRequestInv == ASSUME BatchInv, FillRequest PROVE BatchInv'
<1>1. /\ Handling /\ step = "fill" /\ step' = "fill" /\ next <= request_count
      /\ FillInv /\ CounterInv /\ Kind # AsShape
    BY DEF FillRequest, Handling, BatchInv, TypesInv, FillInv
<1> DEFINE q == next  numbers == Entry(next)  first == Base + at + 1
           taken == Taken(next)  end == at + Taken(next)  total == sum + Count(next)
<1>2. /\ q \in 1 .. request_count /\ q - 1 \in 0 .. request_count
      /\ numbers \in Cells /\ Len(numbers) \in Nat /\ taken \in Nat
      /\ taken = Len(PartOf(ThisCall, q)) /\ taken <= Len(numbers)
      /\ \A k \in 1 .. taken : numbers[k] = PartOf(ThisCall, q)[k]
      /\ \/ taken = Len(numbers)
         \/ \A size \in Nat : Base + at + Len(numbers) <= size \/ Unchecked(ThisCall, size)
      /\ at = PartsUpTo(ThisCall, q - 1) /\ at \in Nat /\ end = at + taken
      /\ end = PartsUpTo(ThisCall, q) /\ total = CountsUpTo(ThisCall.shapes, q)
    BY <1>1, NextPart
<1>3. /\ Base \in {0, 1} /\ Base = Lead(ThisCall) /\ request_count \in Nat \ {0}
      /\ Located(Content(ThisCall), ThisCall)
      /\ Len(ThisCall.shapes) = request_count
      /\ PartsUpTo(ThisCall, q) \in Nat /\ CountsUpTo(ThisCall.shapes, q) \in Nat
    BY <1>1, <1>2, WantedContent
<1>4. OnDevice => Len(internal[cur]) = Size
    BY <1>1 DEF BatchInv, HandledInv
<1>5. /\ Fits(end) /\ Write(first, numbers) /\ at' = end /\ sum' = total /\ next' = q + 1
      /\ calls' = calls /\ cur' = cur /\ view' = view
    BY DEF FillRequest
<1> HIDE DEF q, numbers, first, taken, end, total
<1>6. Size \in Nat
    BY <1>1, CallInRange
<1>7. first = Base + at + 1 /\ first \in Nat \ {0} /\ end \in Nat
    BY <1>2, <1>3 DEF first
<1>8. (Size >= Base => Base + end <= Size) /\ (Size < Base => Size = 0)
    BY <1>3, <1>5, <1>6, <1>7 DEF Fits
<1>9. /\ first + taken - 1 = Base + end
      /\ first + Len(numbers) - 1 = Base + at + Len(numbers)
    BY SMTT(30), <1>2, <1>3, <1>7
<1>10. first + Len(numbers) - 1 <= Size \/ Unchecked(ThisCall, Size)
    <2>1. CASE taken = Len(numbers)
        <3>1. first + Len(numbers) - 1 <= Size \/ (Size = 0 /\ Size < Base)
            BY <2>1, <1>3, <1>6, <1>7, <1>8, <1>9
        <3>2. Size = 0 /\ Size < Base => Unchecked(ThisCall, Size)
            BY DEF Base, Kind, Unchecked
        <3> QED BY <3>1, <3>2
    <2>2. CASE taken # Len(numbers)
        BY <2>2, <1>2, <1>6, <1>9
    <2> QED BY <2>1, <2>2
<1>11. /\ mem' \in [DOMAIN calls -> Cells] /\ internal' \in [DOMAIN calls -> Cells]
       /\ \A i \in DOMAIN calls : i # cur =>
             /\ mem'[i] = mem[i] /\ internal'[i] = internal[i]
             /\ i \in stray' <=> i \in stray
       /\ Len(mem'[cur]) = Size /\ Len(internal'[cur]) = Len(internal[cur])
       /\ stray' \subseteq DOMAIN calls /\ \A i \in stray' : Unchecked(calls[i], Len(mem'[i]))
       /\ Filled = Overwritten(Work, first, numbers) /\ Work \in Cells /\ Len(Work) = Size
    BY <1>1, <1>2, <1>4, <1>5, <1>7, <1>10, WriteFacts
<1>12. ThisCall' = ThisCall /\ Kind' = Kind /\ Base' = Base /\ Work' = Filled /\ Size' = Size
    BY <1>5, <1>11, SameWanted DEF Work, Filled, OnDevice, Size
<1>13. ASSUME Size # 0, NEW k \in 1 .. Base + end PROVE Filled[k] = Content(ThisCall)[k]
    <2>1. k \in 1 .. Size /\ k \in Nat
        BY <1>3, <1>6, <1>7, <1>8, <1>13
    <2>2. \A i \in 1 .. Size :
             /\ i < first => Filled[i] = Work[i]
             /\ first <= i /\ i < first + Len(numbers) => Filled[i] = numbers[i - first + 1]
        <3>1. /\ Work \in Cells /\ first \in Nat \ {0} /\ numbers \in Cells
              /\ Len(Work) = Size /\ Filled = Overwritten(Work, first, numbers)
            BY <1>2, <1>7, <1>11
        <3>2. \A i \in 1 .. Len(Work) :
                 /\ i < first => Overwritten(Work, first, numbers)[i] = Work[i]
                 /\ first <= i /\ i < first + Len(numbers) =>
                       Overwritten(Work, first, numbers)[i] = numbers[i - first + 1]
            BY <3>1, OverwrittenFacts
        <3> QED BY <3>1, <3>2
    <2>3. CASE k < first
        <3>1. k \in 1 .. Base + at
            BY SMTT(30), <2>1, <2>3, <1>2, <1>3, <1>7
        <3>2. Work[k] = Content(ThisCall)[k]
            BY <3>1, <1>1, <1>13 DEF FillInv
        <3> QED BY <3>2, <2>1, <2>2, <2>3
    <2>4. CASE first <= k
        <3> DEFINE j == k - first + 1
        <3> DEFINE m == taken  base == Base
        <3>1. /\ m \in Nat /\ base \in Nat /\ at \in Nat /\ k \in Nat
              /\ first = base + at + 1 /\ first + m - 1 = base + end
              /\ k <= base + end /\ end \in Nat
            <4>1. Base \in Nat
                BY <1>3
            <4>2. k <= Base + end
                BY <4>1, <1>7, <1>13
            <4> QED BY <4>1, <4>2, <2>1, <1>2, <1>7, <1>9
        <3> HIDE DEF m, base
        <3>4. j \in 1 .. m /\ k = base + at + j /\ k < first + m
            BY <3>1, <2>4
        <3>5. j \in 1 .. taken /\ k = Base + at + j /\ k < first + Len(numbers)
            <4>1. j \in 1 .. taken /\ k = Base + at + j /\ k < first + taken
                BY <3>4 DEF m, base
            <4> HIDE DEF j
            <4>2. k < first + Len(numbers)
                BY <4>1, <2>1, <1>2, <1>7
            <4> QED BY <4>1, <4>2
        <3> HIDE DEF j
        <3>2. Content(ThisCall)[Lead(ThisCall) + PartsUpTo(ThisCall, q - 1) + j]
                  = PartOf(ThisCall, q)[j]
            BY <3>5, <1>2, <1>3 DEF Located
        <3>3. Content(ThisCall)[k] = numbers[j]
            BY <3>5, <3>2, <1>2, <1>3
        <3> QED BY <3>5, <3>3, <2>1, <2>2, <2>4 DEF j
    <2> QED BY <2>1, <2>3, <2>4, <1>7
<1>14. FillInv'
    <2>1. next' - 1 = q
        BY <1>2, <1>3, <1>5
    <2>2. at' = PartsUpTo(ThisCall, q) /\ sum' = CountsUpTo(ThisCall.shapes, q)
        BY <1>2, <1>5
    <2>3. Size # 0 => \A k \in 1 .. Base + at' : Filled[k] = Content(ThisCall)[k]
        BY <1>5, <1>13
    <2>4. Size >= Base => Base + at' <= Size
        BY <1>5, <1>8
    <2> QED BY <2>1, <2>2, <2>3, <2>4, <1>1, <1>12 DEF FillInv
<1>15. CopyInv'
    BY <1>1 DEF CopyInv
<1>16. next' \in 1 .. request_count + 1 /\ at' \in Nat /\ sum' \in Nat
    BY <1>2, <1>3, <1>5
<1> QED BY <1>1, <1>11, <1>14, <1>15, <1>16, FillsOn DEF FillRequest

LEMMA FillFailsInv == ASSUME BatchInv, FillFails PROVE BatchInv'
<1>1. Handling
    BY DEF FillFails, Handling
<1>2. faults' \in 0 .. cfg.maxFaults
    BY FailingFacts DEF FillFails, BatchInv, TypesInv, CounterInv
<1>3. eventSet' \in BOOLEAN /\ bufferReady' = bufferReady
    BY DEF FillFails, eventVars, BatchInv, TypesInv, CounterInv
<1> QED BY <1>1, <1>2, <1>3, ReturnQuietly DEF FillFails

LEMMA CopyFailsInv == ASSUME BatchInv, CopyFails PROVE BatchInv'
<1>1. Handling
    BY DEF CopyFails, Handling
<1>2. faults' \in 0 .. cfg.maxFaults
    BY FailingFacts DEF CopyFails
<1>3. eventSet' \in BOOLEAN /\ bufferReady' = bufferReady
    BY DEF CopyFails, eventVars, BatchInv, TypesInv, CounterInv
<1> QED BY <1>1, <1>2, <1>3, ReturnQuietly DEF CopyFails
-----------------------------------------------------------------------------
(***************************************************************************)
(* After the last request the rest of the buffer is filled up.             *)
(***************************************************************************)
\* A buffer holds what its call describes when it starts with the content.
LEMMA HoldsWhen ==
    ASSUME NEW call, NEW buffer \in Cells, Content(call) \in Cells,
           Len(Content(call)) <= Len(buffer),
           \A k \in 1 .. Len(Content(call)) : buffer[k] = Content(call)[k],
           call.kind \in ItemKinds
              \/ \A k \in Len(Content(call)) + 1 .. Len(buffer) : buffer[k] = Padding(call)
    PROVE  Holds(buffer, call)
<1> DEFINE content == Content(call)
<1>1. content \in Seq(Int) /\ buffer \in Seq(Int)
    BY DEF Cells
<1>2. SubSeq(buffer, 1, Len(content)) = content
    <2> HIDE DEF content
    <2> DEFINE n == Len(content)
    <2>1. n \in Nat /\ content = [k \in 1 .. n |-> content[k]]
        BY <1>1
    <2>2. SubSeq(buffer, 1, n) = [k \in 1 .. n |-> buffer[k]]
        BY <1>1, <2>1
    <2>3. \A k \in 1 .. n : buffer[k] = content[k]
        BY DEF content
    <2> QED BY <2>1, <2>2, <2>3
<1> QED BY <1>2 DEF Holds

LEMMA FillRestFacts ==
    ASSUME BatchInv, FillRest
    PROVE  /\ mem' \in [DOMAIN calls -> Cells] /\ internal' \in [DOMAIN calls -> Cells]
           /\ \A i \in DOMAIN calls : i # cur =>
                 /\ mem'[i] = mem[i] /\ internal'[i] = internal[i]
                 /\ i \in stray' <=> i \in stray
           /\ Len(mem'[cur]) = Size /\ Len(internal'[cur]) = Len(internal[cur])
           /\ stray' \subseteq DOMAIN calls /\ \A i \in stray' : Unchecked(calls[i], Len(mem'[i]))
           /\ Size # 0 => Holds(Filled, ThisCall)
<1>1. /\ Handling /\ step = "fill" /\ next > request_count
      /\ FillInv /\ CounterInv /\ TableInv /\ Kind # AsShape
      /\ cur \in DOMAIN calls /\ Size \in Nat
    BY CallInRange DEF FillRest, Handling, BatchInv, TypesInv, FillInv
<1> DEFINE n == request_count  content == Content(ThisCall)
<1>2. /\ content \in Cells /\ Base \in {0, 1} /\ Len(content) = Base + PartsUpTo(ThisCall, n)
      /\ n \in Nat \ {0} /\ Kind = ThisCall.kind /\ PartsUpTo(ThisCall, n) \in Nat
      /\ Len(ThisCall.shapes) = n
    BY <1>1, WantedContent
<1>3. next - 1 = n
    BY <1>1, <1>2 DEF CounterInv
<1>4. at = PartsUpTo(ThisCall, n) /\ sum = CountsUpTo(ThisCall.shapes, n)
    BY <1>1, <1>3 DEF FillInv
<1>5. OnDevice => Len(internal[cur]) = Size
    BY <1>1 DEF BatchInv, HandledInv
<1>6. Len(content) = Base + at /\ at \in Nat
    BY <1>2, <1>4
<1>7. /\ Size # 0 => Base + at <= Size
      /\ Size # 0 => \A k \in 1 .. Base + at : Work[k] = content[k]
    BY <1>1, <1>2 DEF FillInv
<1>8. Work \in Cells /\ Len(Work) = Size /\ mem[cur] \in Cells
    BY <1>1, <1>5, CallInRange DEF Work, Size
<1> HIDE DEF n, content
<1>9. CASE Kind \in ItemKinds \/ Size < Base
    <2>1. mem' = mem /\ internal' = internal /\ stray' = stray
        BY <1>9 DEF FillRest, bufVars
    <2>2. Filled = Work
        BY <2>1 DEF Filled, Work
    <2>3. ASSUME Size # 0 PROVE Holds(Filled, ThisCall)
        <3>1. ThisCall.kind \in ItemKinds
            BY <2>3, <1>1, <1>2, <1>9
        <3> QED BY <3>1, <2>2, <2>3, <1>2, <1>6, <1>7, <1>8, HoldsWhen DEF content
    <2> QED BY <2>1, <2>3, <1>1 DEF TableInv, Size
<1>10. CASE ~(Kind \in ItemKinds \/ Size < Base)
    <2> DEFINE first == Base + at + 1  left == Size - Base - at
               numbers == [i \in 1 .. left |-> Rest]
    <2>1. Write(first, numbers)
        BY <1>10 DEF FillRest
    <2>2. first \in Nat \ {0} /\ left \in Nat /\ first + left - 1 = Size
        <3>1. Size >= Base
            BY <1>1, <1>2, <1>10
        <3>2. Base + at <= Size
            BY <3>1, <1>1 DEF FillInv
        <3> QED BY <3>2, <1>1, <1>2, <1>6
    <2>3. Rest = Padding(ThisCall) /\ Rest \in Int
        <3>1. Kind \in Accumulating \/ Kind = "BATCH_ELEMENT_COUNT"
            <4>1. Kind \in Kinds
                BY <1>1, WantedContent, ValidFacts
            <4> QED BY <4>1, <1>1, <1>10 DEF Kinds, AsShape
        <3>2. Kind = "BATCH_ELEMENT_COUNT" => Kind \notin Accumulating
            BY DEF Accumulating
        <3>3. sum \in Nat
            BY <1>1 DEF CounterInv
        <3>4. Padding(ThisCall) = IF Kind = "BATCH_ELEMENT_COUNT" THEN 0 ELSE sum
            BY <1>2, <1>4 DEF Padding
        <3> QED BY <3>1, <3>2, <3>3, <3>4 DEF Rest
    <2>4. numbers \in Cells /\ Len(numbers) = left /\ \A i \in 1 .. left : numbers[i] = Rest
        <3> HIDE DEF left
        <3> QED BY <2>2, <2>3 DEF Cells
    <2> HIDE DEF first, left, numbers
    <2>5. first + Len(numbers) - 1 <= Size
        BY <2>2, <2>4, <1>1
    <2>6. /\ mem' \in [DOMAIN calls -> Cells] /\ internal' \in [DOMAIN calls -> Cells]
          /\ \A i \in DOMAIN calls : i # cur =>
                /\ mem'[i] = mem[i] /\ internal'[i] = internal[i]
                /\ i \in stray' <=> i \in stray
          /\ Len(mem'[cur]) = Size /\ Len(internal'[cur]) = Len(internal[cur])
          /\ stray' \subseteq DOMAIN calls /\ \A i \in stray' : Unchecked(calls[i], Len(mem'[i]))
          /\ Filled = Overwritten(Work, first, numbers)
        BY <2>1, <2>2, <2>4, <2>5, <1>1, <1>5, WriteFacts
    <2>7. ASSUME Size # 0 PROVE Holds(Filled, ThisCall)
        <3>1. /\ Filled \in Cells /\ Len(Filled) = Size
              /\ \A k \in 1 .. Size :
                    /\ k < first => Filled[k] = Work[k]
                    /\ first <= k /\ k < first + Len(numbers) =>
                          Filled[k] = numbers[k - first + 1]
            <4> DEFINE new == Overwritten(Work, first, numbers)
            <4>1. /\ Work \in Cells /\ first \in Nat \ {0} /\ numbers \in Cells
                  /\ Len(Work) = Size /\ Filled = new
                BY <2>2, <2>4, <2>6, <1>8
            <4>2. /\ new \in Cells /\ Len(new) = Len(Work)
                  /\ \A k \in 1 .. Len(Work) :
                        /\ k < first => new[k] = Work[k]
                        /\ first <= k /\ k < first + Len(numbers) =>
                              new[k] = numbers[k - first + 1]
                BY <4>1, OverwrittenFacts
            <4> HIDE DEF new
            <4> QED BY <4>1, <4>2
        <3>2. first = Len(content) + 1 /\ Len(content) <= Size /\ Len(content) \in Nat
            BY <2>7, <1>2, <1>6, <1>7 DEF first
        <3>3. ASSUME NEW k \in 1 .. Len(content) PROVE Filled[k] = content[k]
            <4>1. k \in 1 .. Size /\ k < first /\ k \in 1 .. Base + at
                BY <3>2, <1>1, <1>6
            <4> QED BY <4>1, <3>1, <1>7, <2>7
        <3>4. ASSUME NEW k \in Len(content) + 1 .. Size PROVE Filled[k] = Padding(ThisCall)
            <4>1. k \in 1 .. Size /\ first <= k /\ k < first + Len(numbers)
                BY <3>2, <2>2, <2>4, <1>1
            <4>2. k - first + 1 \in 1 .. left
                BY <4>1, <2>2, <2>4, <1>1
            <4> QED BY <4>1, <4>2, <3>1, <2>3, <2>4
        <3> QED BY <3>1, <3>2, <3>3, <3>4, <1>2, HoldsWhen DEF content
    <2> QED BY <2>6, <2>7
<1> QED BY <1>9, <1>10
-----------------------------------------------------------------------------
LEMMA FillRestInv == ASSUME BatchInv, FillRest PROVE BatchInv'
<1>1. /\ Handling /\ step = "fill" /\ next > request_count /\ Kind # AsShape
      /\ TableInv /\ CounterInv /\ SyncInv /\ HandledInv /\ cur \in DOMAIN calls /\ Size \in Nat
    BY CallInRange DEF FillRest, Handling, BatchInv, TypesInv, FillInv
<1>2. /\ mem' \in [DOMAIN calls -> Cells] /\ internal' \in [DOMAIN calls -> Cells]
      /\ \A i \in DOMAIN calls : i # cur =>
            /\ mem'[i] = mem[i] /\ internal'[i] = internal[i]
            /\ i \in stray' <=> i \in stray
      /\ Len(mem'[cur]) = Size /\ Len(internal'[cur]) = Len(internal[cur])
      /\ stray' \subseteq DOMAIN calls /\ \A i \in stray' : Unchecked(calls[i], Len(mem'[i]))
      /\ Size # 0 => Holds(Filled, ThisCall)
    BY FillRestFacts
<1>3. /\ calls' = calls /\ cfg' = cfg /\ next' = next /\ at' = at /\ sum' = sum
      /\ held' = held /\ stream' = stream /\ needSync' = needSync
      /\ eventSet' = eventSet /\ bufferReady' = bufferReady /\ faults' = faults
    BY DEF FillRest, fillVars, copyVars, eventVars
<1>4. CASE OnDevice
    <2>1. step' = "copy" /\ cur' = cur /\ view' = view
        BY <1>4 DEF FillRest
    <2>2. ThisCall' = ThisCall /\ Kind' = Kind
        BY <2>1, <1>3, SameWanted
    <2>3. Size' = Size /\ Filled = internal'[cur]
        BY <2>1, <1>2, <1>4 DEF Size, Filled
    <2>4. CopyInv'
        BY <2>1, <2>2, <2>3, <1>1, <1>2 DEF CopyInv
    <2>5. FillInv'
        BY <2>1 DEF FillInv
    <2>6. next' \in 1 .. request_count + 1 /\ at' \in Nat /\ sum' \in Nat
        BY <1>1, <1>3 DEF CounterInv
    <2> QED BY <2>1, <2>4, <2>5, <2>6, <1>1, <1>2, <1>3, <1>4, FillsOn DEF FillRest
<1>5. CASE ~OnDevice
    <2>1. CallReturns("buffer")
        BY <1>5 DEF FillRest
    <2>2. /\ view' \in [DOMAIN calls -> Views]
          /\ view'[cur].kind = "buffer" /\ view'[cur].place = view[cur].place
          /\ \A i \in DOMAIN calls : i # cur => view'[i] = view[i]
        BY <2>1, <1>1, ReturnedView
    <2>3. TableInv'
        BY <2>2, <1>1, <1>2, <1>3 DEF TableInv
    <2>4. CounterInv'
        BY <1>1, <1>3 DEF CounterInv, request_count
    <2>5. OthersSame
        BY <2>2, <1>2, <1>3 DEF OthersSame, Queued
    <2>6. ASSUME NEW e, e = cur PROVE Behind(e)'
        <3>1. /\ e \notin held /\ ~Queued(e)
              /\ internal[e] = <<>> \/ Len(internal[e]) = Size
            BY <2>6, <1>1, CurBuffers
        <3>2. e \notin held' /\ ~Queued(e)'
            BY <3>1, <1>3 DEF Queued
        <3>3. ~OnGpu(e)'
            BY <2>2, <2>6, <1>5 DEF OnGpu, OnDevice
        <3>4. internal'[e] = <<>> \/ Len(internal'[e]) = Len(mem'[e])
            <4>1. internal'[e] \in Cells
                BY <2>6, <1>1, <1>2
            <4>2. Len(internal[e]) = 0 => internal'[e] = <<>>
                BY <4>1, <2>6, <1>2 DEF Cells
            <4> QED BY <4>2, <3>1, <2>6, <1>2
        <3>5. Filled = mem'[e] /\ calls'[e] = ThisCall
            BY <2>6, <1>3, <1>5 DEF Filled, ThisCall
        <3>6. mem'[e] # <<>> => Size # 0
            <4>1. mem'[e] \in Cells /\ Len(mem'[e]) = Size
                BY <2>6, <1>1, <1>2
            <4> QED BY <4>1 DEF Cells
        <3>7. mem'[e] # <<>> => Holds(mem'[e], calls'[e])
            BY <3>5, <3>6, <1>2
        <3> QED BY <3>2, <3>3, <3>4, <3>7 DEF Behind
    <2>7. stream' # <<>> => needSync'
        BY <1>1, <1>3 DEF SyncInv
    <2> QED BY <2>1, <2>3, <2>4, <2>5, <2>6, <2>7, <1>1, ReturnsInv
<1> QED BY <1>4, <1>5

LEMMA CopyToDeviceInv == ASSUME BatchInv, CopyToDevice PROVE BatchInv'
<1>1. /\ Handling /\ step = "copy" /\ CopyInv
      /\ TableInv /\ CounterInv /\ HandledInv /\ cur \in DOMAIN calls /\ Size \in Nat
      /\ mem[cur] \in Cells
    BY CallInRange DEF CopyToDevice, Handling, BatchInv, TypesInv
<1>2. /\ calls' = calls /\ cfg' = cfg /\ next' = next /\ at' = at /\ sum' = sum
      /\ mem' = mem /\ internal' = internal /\ stray' = stray
      /\ eventSet' = eventSet /\ bufferReady' = bufferReady /\ faults' = faults
      /\ held' = held \cup {cur} /\ stream' = Append(stream, cur) /\ needSync' = TRUE
      /\ CallReturns("buffer")
    BY DEF CopyToDevice, KeepInternal, fillVars, bufVars, eventVars
<1>3. /\ view' \in [DOMAIN calls -> Views]
      /\ view'[cur].kind = "buffer" /\ view'[cur].place = view[cur].place
      /\ \A i \in DOMAIN calls : i # cur => view'[i] = view[i]
    BY <1>1, <1>2, ReturnedView
<1>4. stream \in Seq(held')
    BY <1>1, <1>2 DEF TableInv
<1>5. /\ stream' \in Seq(held') /\ DOMAIN stream' = 1 .. Len(stream) + 1
      /\ stream'[Len(stream) + 1] = cur /\ DOMAIN stream = 1 .. Len(stream)
      /\ \A j \in 1 .. Len(stream) : stream'[j] = stream[j]
      /\ Len(stream) \in Nat
    BY <1>2, <1>4
<1>6. TableInv'
    BY <1>1, <1>2, <1>3, <1>5 DEF TableInv
<1>7. CounterInv'
    BY <1>1, <1>2 DEF CounterInv, request_count
<1>8. ASSUME NEW i, i # cur PROVE Queued(i)' <=> Queued(i)
    <2>1. \A j \in 1 .. Len(stream) + 1 : j \in 1 .. Len(stream) \/ j = Len(stream) + 1
        BY <1>5
    <2>2. \A j \in 1 .. Len(stream) : j \in 1 .. Len(stream) + 1
        BY <1>5
    <2> QED BY <2>1, <2>2, <1>5, <1>8 DEF Queued
<1>9. OthersSame
    BY <1>2, <1>3, <1>8 DEF OthersSame
<1>10. ASSUME NEW e, e = cur PROVE Behind(e)'
    <2>1. Len(internal[e]) = Len(mem[e]) /\ OnDevice
        BY <1>1, <1>10 DEF HandledInv, Size
    <2>2. OnGpu(e)'
        BY <2>1, <1>3, <1>10 DEF OnGpu, OnDevice
    <2>3. Queued(e)'
        <3>1. Len(stream) + 1 \in DOMAIN stream'
            BY <1>5
        <3> QED BY <3>1, <1>5, <1>10 DEF Queued
    <2>4. mem[e] # <<>> => Holds(internal[e], calls[e])
        <3>1. mem[e] # <<>> => Size # 0
            BY <1>1, <1>10 DEF Cells, Size
        <3> QED BY <3>1, <1>1, <1>10 DEF CopyInv, ThisCall
    <2>5. e \in held' /\ mem'[e] = mem[e] /\ internal'[e] = internal[e] /\ calls'[e] = calls[e]
        BY <1>2, <1>10
    <2> QED BY <2>1, <2>2, <2>3, <2>4, <2>5 DEF Behind
<1> QED BY <1>1, <1>2, <1>6, <1>7, <1>9, <1>10, ReturnsInv
-----------------------------------------------------------------------------
(***************************************************************************)
(* The steps that are not part of a call.                                  *)
(***************************************************************************)
LEMMA CalmInv ==
    ASSUME BatchInv, ~Handling, ~Handling', step' # "begin" \/ step = "begin",
           step' \in {"begin", "finalize", "returned", "consumed"},
           UNCHANGED <<calls, cfg, cur, view, mem, internal, stray, held, stream, needSync>>,
           UNCHANGED <<next, at, sum, faults>>,
           eventSet' \in BOOLEAN, bufferReady' \in BOOLEAN,
           step' = "consumed" /\ ~cfg.event => stream = <<>>
    PROVE  BatchInv'
<1>1. TypesInv /\ AheadInv /\ BehindInv /\ SyncInv
    BY DEF BatchInv
<1>2. AheadInv' /\ BehindInv' /\ TableInv' /\ ScenarioInv'
    BY <1>1, QuietInv
<1>3. WhereInv'
    BY <1>1 DEF TypesInv, WhereInv
<1>4. CounterInv'
    BY <1>1 DEF TypesInv, CounterInv, request_count
<1>5. HandledInv' /\ FillInv' /\ CopyInv'
    BY DEF HandledInv, FillInv, CopyInv, Handling
<1>6. SyncInv'
    BY <1>1 DEF SyncInv
<1> QED BY <1>2, <1>3, <1>4, <1>5, <1>6 DEF BatchInv, TypesInv

LEMMA FinalizeInv == ASSUME BatchInv, Finalize PROVE BatchInv'
<1>1. step = "finalize" /\ step' = "returned" /\ ~Handling /\ ~Handling'
    BY DEF Finalize, Handling
<1>2. eventSet' \in BOOLEAN /\ bufferReady' \in BOOLEAN
    BY DEF Finalize, WaitBufferReady, BatchInv, TypesInv, CounterInv
<1> QED BY <1>1, <1>2, CalmInv DEF Finalize, bufVars, fillVars, copyVars

LEMMA CallerSyncInv == ASSUME BatchInv, CallerSync PROVE BatchInv'
<1>1. step = "returned" /\ step' = "consumed" /\ ~Handling /\ ~Handling'
    BY DEF CallerSync, Handling
<1>2. eventSet' \in BOOLEAN /\ bufferReady' \in BOOLEAN
    BY DEF CallerSync, eventVars, BatchInv, TypesInv, CounterInv
<1>3. ~cfg.event => stream = <<>>
    BY DEF CallerSync, BatchInv, SyncInv
<1> QED BY <1>1, <1>2, <1>3, CalmInv DEF CallerSync, bufVars, fillVars, copyVars

LEMMA RunCopyInv == ASSUME BatchInv, RunCopy PROVE BatchInv'
<1>1. /\ ScenarioInv /\ WhereInv /\ TableInv /\ CounterInv /\ AheadInv /\ HandledInv
      /\ FillInv /\ CopyInv /\ BehindInv /\ SyncInv
      /\ DOMAIN calls = 1 .. Len(calls) /\ Len(calls) \in Nat
    BY ScenarioFacts DEF BatchInv, TypesInv
<1> PICK i : i = Head(stream)
    OBVIOUS
<1>2. /\ i \in held /\ i \in DOMAIN calls /\ Queued(i) /\ stream' \in Seq(held)
      /\ \A j \in DOMAIN stream' : \E k \in DOMAIN stream : stream'[j] = stream[k]
      /\ \A j \in DOMAIN stream : stream[j] = i \/ \E k \in DOMAIN stream' : stream'[k] = stream[j]
    <2>1. stream # <<>> /\ stream \in Seq(held) /\ stream' = Tail(stream) /\ i = stream[1]
        BY <1>1 DEF RunCopy, TableInv
    <2> DEFINE n == Len(stream)
    <2>2. /\ n \in Nat \ {0} /\ DOMAIN stream = 1 .. n /\ DOMAIN stream' = 1 .. n - 1
          /\ \A j \in 1 .. n - 1 : stream'[j] = stream[j + 1]
          /\ stream' \in Seq(held)
        BY <2>1
    <2> HIDE DEF n
    <2>3. i \in held /\ i \in DOMAIN calls /\ Queued(i)
        <3>1. 1 \in 1 .. n
            BY <2>2
        <3>2. stream[1] \in held
            BY <3>1, <2>1, <2>2
        <3> QED BY <3>1, <3>2, <2>1, <2>2, <1>1 DEF Queued, TableInv
    <2>4. \A j \in 1 .. n - 1 : j + 1 \in 1 .. n
        BY <2>2
    <2>5. \A j \in 1 .. n : j = 1 \/ (j - 1 \in 1 .. n - 1 /\ (j - 1) + 1 = j)
        BY <2>2
    <2>6. \A j \in DOMAIN stream : stream[j] = i \/ \E k \in DOMAIN stream' : stream'[k] = stream[j]
        <3> SUFFICES ASSUME NEW j \in 1 .. n, j # 1
                     PROVE  \E k \in 1 .. n - 1 : stream'[k] = stream[j]
            BY <2>1, <2>2
        <3>1. j - 1 \in 1 .. n - 1 /\ (j - 1) + 1 = j
            BY <2>5
        <3>2. stream'[j - 1] = stream[(j - 1) + 1]
            BY <3>1, <2>2
        <3> QED BY <3>1, <3>2
    <2> QED BY <2>2, <2>3, <2>4, <2>6
<1>3. i \in 1 .. cur - 1
    <2>1. ~AheadOf(i)
        BY <1>1, <1>2 DEF AheadInv, NotMade
    <2>2. i # cur
        BY <2>1, <1>1, <1>2 DEF AheadOf, HandledInv
    <2>3. i \in Nat \ {0} /\ cur \in Nat
        BY <1>1, <1>2 DEF WhereInv
    <2> QED BY <2>1, <2>2, <2>3 DEF AheadOf
<1>4. Behind(i)
    BY <1>1, <1>3 DEF BehindInv
<1>5. /\ calls' = calls /\ cfg' = cfg /\ step' = step /\ cur' = cur /\ view' = view
      /\ internal' = internal /\ stray' = stray /\ next' = next /\ at' = at /\ sum' = sum
      /\ held' = held /\ needSync' = needSync /\ eventSet' = eventSet
      /\ bufferReady' = bufferReady /\ faults' = faults
      /\ mem' = [mem EXCEPT ![i] = internal[i]]
    BY <1>2 DEF RunCopy, Freed, fillVars, eventVars
<1>6. /\ mem' \in [DOMAIN calls -> Cells] /\ mem'[i] = internal[i]
      /\ internal[i] \in Cells /\ mem[i] \in Cells
      /\ Len(internal[i]) = Len(mem[i])
      /\ \A j \in DOMAIN calls : j # i => mem'[j] = mem[j]
    BY <1>1, <1>2, <1>4, <1>5 DEF TableInv, Behind
<1>7. mem[i] = <<>> <=> mem'[i] = <<>>
    BY <1>6 DEF Cells
<1>8. ScenarioInv' /\ WhereInv' /\ CounterInv' /\ Handling' = Handling
    BY <1>1, <1>5 DEF ScenarioInv, WhereInv, CounterInv, Handling, request_count
<1>9. TableInv'
    <2>1. \A j \in stray : Len(mem'[j]) = Len(mem[j])
        BY <1>1, <1>6 DEF TableInv
    <2> QED BY <2>1, <1>1, <1>2, <1>5, <1>6 DEF TableInv
<1>10. AheadInv'
    <2> SUFFICES ASSUME NEW j \in DOMAIN calls, AheadOf(j)' PROVE NotMade(j)'
        BY <1>5 DEF AheadInv
    <2>1. NotMade(j)
        BY <1>1, <1>5, <1>8 DEF AheadInv, AheadOf
    <2>2. j # i
        BY <2>1, <1>2 DEF NotMade
    <2> QED BY <2>1, <2>2, <1>5, <1>6 DEF NotMade
<1>11. cur \in DOMAIN calls => mem'[cur] = mem[cur]
    <2>1. i # cur
        BY <1>1, <1>3 DEF WhereInv
    <2> QED BY <2>1, <1>6
<1>12. Handling => cur \in DOMAIN calls
    BY <1>1 DEF WhereInv
<1>13. ThisCall' = ThisCall /\ Kind' = Kind /\ Base' = Base /\ \A size : Wanted(size)' <=> Wanted(size)
    BY <1>5, SameWanted
<1>14. HandledInv'
    <2> SUFFICES ASSUME Handling PROVE HandledInv'
        BY <1>8 DEF HandledInv
    <2>1. Size' = Size /\ OnDevice' = OnDevice
        BY <1>5, <1>11, <1>12 DEF Size, OnDevice
    <2> QED BY <2>1, <1>1, <1>5, <1>13 DEF HandledInv
<1>15. FillInv' /\ CopyInv'
    <2> SUFFICES ASSUME Handling PROVE FillInv' /\ CopyInv'
        BY <1>8 DEF FillInv, CopyInv, Handling
    <2>1. Size' = Size /\ OnDevice' = OnDevice /\ Work' = Work
        BY <1>5, <1>11, <1>12 DEF Size, OnDevice, Work
    <2> QED BY <2>1, <1>1, <1>5, <1>13 DEF FillInv, CopyInv
<1>16. BehindInv'
    <2> SUFFICES ASSUME NEW j \in 1 .. cur - 1 PROVE Behind(j)'
        BY <1>5 DEF BehindInv
    <2>1. Behind(j) /\ j \in DOMAIN calls
        BY <1>1 DEF BehindInv, WhereInv
    <2>2. Queued(j)' => Queued(j)
        BY <1>2 DEF Queued
    <2>3. OnGpu(j)' = OnGpu(j) /\ Returned(j)' = Returned(j)
        BY <1>5 DEF OnGpu, Returned
    <2>4. CASE j = i
        BY <2>1, <2>2, <2>3, <2>4, <1>2, <1>5, <1>6, <1>7 DEF Behind
    <2>5. CASE j # i
        <3>1. Queued(j)' <=> Queued(j)
            BY <2>2, <2>5, <1>2 DEF Queued
        <3>2. mem'[j] = mem[j]
            BY <2>1, <2>5, <1>6
        <3> QED BY <3>1, <3>2, <2>1, <2>3, <1>5 DEF Behind
    <2> QED BY <2>4, <2>5
<1>17. SyncInv'
    BY <1>1, <1>5, <1>2 DEF SyncInv, RunCopy
<1> QED BY <1>8, <1>9, <1>10, <1>14, <1>15, <1>16, <1>17 DEF BatchInv, TypesInv
-----------------------------------------------------------------------------
LEMMA BatchNextInv == ASSUME BatchInv, [BatchNext]_batchVars PROVE BatchInv'
<1>1. CASE BatchNext
    <2>1. CASE BufferReadyFires
        <3>1. /\ UNCHANGED <<calls, cfg, cur, view, mem, internal, stray, held, stream, needSync>>
              /\ UNCHANGED <<next, at, sum, faults, eventSet, step>> /\ bufferReady' = TRUE
            BY <2>1 DEF BufferReadyFires, bufVars, fillVars, copyVars
        <3>2. Handling' = Handling
            BY <3>1 DEF Handling
        <3>3. AheadInv' /\ BehindInv' /\ (TableInv /\ ScenarioInv)'
            BY <3>1, <3>2, QuietInv DEF BatchInv
        <3>4. WhereInv' /\ CounterInv'
            BY <3>1 DEF BatchInv, TypesInv, WhereInv, CounterInv, Handling, request_count
        <3>5. HandledInv' /\ FillInv' /\ CopyInv' /\ SyncInv'
            <4>1. /\ Size' = Size /\ OnDevice' = OnDevice /\ Work' = Work /\ ThisCall' = ThisCall
                  /\ Kind' = Kind /\ Base' = Base /\ \A size : Wanted(size)' <=> Wanted(size)
                BY <3>1, SameWanted DEF Size, OnDevice, Work
            <4> QED BY <4>1, <3>1, <3>2 DEF BatchInv, HandledInv, FillInv, CopyInv, SyncInv
        <3> QED BY <3>3, <3>4, <3>5 DEF BatchInv, TypesInv
    <2>2. CASE Consumed
        <3>1. step = "consumed" /\ UNCHANGED batchVars
            BY <2>2 DEF Consumed
        <3>2. ~Handling /\ ~Handling'
            BY <3>1 DEF Handling, batchVars
        <3> QED BY <3>1, <3>2, CalmInv
                DEF batchVars, bufVars, fillVars, copyVars, eventVars,
                    BatchInv, TypesInv, CounterInv, SyncInv
    <2> QED BY <1>1, <2>1, <2>2, BeginGivenInv, BeginAllocatedInv, BeginFailedInv,
               CreateInternalInv, CreateInternalFailsInv, StartZeroInv, StartPlainInv,
               StartShapeInv, FillRequestInv, FillFailsInv, FillRestInv, CopyToDeviceInv,
               CopyFailsInv, FinalizeInv, CallerSyncInv, RunCopyInv
            DEF BatchNext
<1>2. CASE UNCHANGED batchVars
    <2> USE <1>2 DEF batchVars, bufVars, fillVars, copyVars, eventVars
    <2>1. Handling' = Handling
        BY DEF Handling
    <2>2. AheadInv' /\ BehindInv' /\ (TableInv /\ ScenarioInv)'
        BY <2>1, QuietInv DEF BatchInv
    <2>3. WhereInv' /\ CounterInv'
        BY DEF BatchInv, TypesInv, WhereInv, CounterInv, Handling, request_count
    <2>4. HandledInv' /\ FillInv' /\ CopyInv' /\ SyncInv'
        <3>1. /\ Size' = Size /\ OnDevice' = OnDevice /\ Work' = Work /\ ThisCall' = ThisCall
              /\ Kind' = Kind /\ Base' = Base /\ \A size : Wanted(size)' <=> Wanted(size)
            BY SameWanted DEF Size, OnDevice, Work
        <3> QED BY <3>1, <2>1 DEF BatchInv, HandledInv, FillInv, CopyInv, SyncInv
    <2> QED BY <2>2, <2>3, <2>4 DEF BatchInv, TypesInv
<1> QED BY <1>1, <1>2

LEMMA BatchAlways == BatchSpec => []BatchInv
BY BatchInitInv, BatchNextInv, PTL DEF BatchSpec

\* Where a call is, in the order of the calls.
LEMMA CallsInOrder ==
    ASSUME BatchInv, NEW i \in DOMAIN calls
    PROVE  NotMade(i) \/ (i = cur /\ Handling) \/ Behind(i)
<1>1. WhereInv /\ AheadInv /\ BehindInv /\ DOMAIN calls = 1 .. Len(calls) /\ Len(calls) \in Nat
    BY ScenarioFacts DEF BatchInv, TypesInv
<1>2. i \in Nat \ {0} /\ cur \in Nat
    BY <1>1 DEF WhereInv
<1>3. CASE AheadOf(i)
    BY <1>1, <1>3 DEF AheadInv
<1>4. CASE ~AheadOf(i)
    <2>1. i < cur \/ (i = cur /\ Handling)
        BY <1>2, <1>4 DEF AheadOf
    <2>2. i < cur => i \in 1 .. cur - 1
        BY <1>2
    <2> QED BY <2>1, <2>2, <1>1 DEF BehindInv
<1> QED BY <1>3, <1>4

LEMMA BatchInvWithin == BatchInv => WithinBuffer
<1> SUFFICES ASSUME BatchInv PROVE WithinBuffer
    OBVIOUS
<1>1. /\ ScenarioInv /\ WhereInv /\ TableInv /\ CounterInv /\ HandledInv /\ FillInv
      /\ DOMAIN calls = 1 .. Len(calls)
    BY ScenarioFacts DEF BatchInv, TypesInv
<1>2. \A i \in DOMAIN view : /\ view[i].kind \in {"none", "buffer", "error"}
                             /\ view[i].place \in Places \cup {"NONE"}
    BY <1>1 DEF TableInv, Views
<1>3. ASSUME NEW i \in DOMAIN internal PROVE Len(internal[i]) \in {0, Len(mem[i])}
    <2>1. i \in DOMAIN calls
        BY <1>1 DEF TableInv
    <2>2. Len(<<>>) = 0
        OBVIOUS
    <2> QED BY <2>1, <2>2, <1>1, CallsInOrder DEF NotMade, HandledInv, Behind, Size
<1>4. Range(stream) \subseteq DOMAIN calls
    <2>1. stream \in Seq(DOMAIN calls)
        BY <1>1 DEF TableInv
    <2> QED BY <2>1 DEF Range
<1>5. step = "fill" => Base + at <= Size \/ Size = 0
    <2> SUFFICES ASSUME step = "fill" PROVE Base + at <= Size \/ Size = 0
        OBVIOUS
    <2>1. Size \in Nat /\ Base \in {0, 1} /\ at \in Nat
        BY <1>1, CallInRange DEF Handling, Base, CounterInv
    <2>2. Size >= Base => Base + at <= Size
        BY <1>1 DEF FillInv
    <2> QED BY <2>1, <2>2
<1> QED BY <1>1, <1>2, <1>3, <1>4, <1>5
        DEF WithinBuffer, BatchTypeOK, WhereInv, TableInv, CounterInv

LEMMA BatchInvDescribed == BatchInv => Described
<1> SUFFICES ASSUME BatchInv, step = "consumed", ~cfg.event,
                    NEW i \in DOMAIN calls, Returned(i), mem[i] # <<>>
             PROVE  Describes(i)
    BY DEF Described
<1>1. stream = <<>> /\ ~Handling
    BY DEF BatchInv, SyncInv, Handling
<1>2. Behind(i)
    BY <1>1, CallsInOrder DEF NotMade, NoView, Returned
<1>3. ~Queued(i)
    BY <1>1 DEF Queued
<1>4. Holds(mem[i], calls[i])
    BY <1>2, <1>3 DEF Behind
<1> QED BY <1>4 DEF Holds, Describes

-----------------------------------------------------------------------------
(***************************************************************************)
(* Errors: only failing calls and buffers that are too small, or not as    *)
(* they were asked for, make them.                                         *)
(***************************************************************************)
Cause(i) ==
    \/ calls[i].given /\ Len(calls[i].allowed) # 1
    \/ calls[i].given /\ Len(Content(calls[i])) > calls[i].cells
    \/ ~calls[i].given /\ calls[i].allowed = <<>>

LEMMA NoError ==
    ASSUME BatchInv, ErrorForCause, calls' = calls, faults' = 0 => faults = 0,
           \A i \in DOMAIN calls : view'[i].kind = "error" => view[i].kind = "error"
    PROVE  ErrorForCause'
BY DEF ErrorForCause

LEMMA AnError ==
    ASSUME BatchInv, ErrorForCause, step = "begin" \/ Handling, CallReturns("error"),
           calls' = calls, faults' = 0 => faults = 0,
           faults' = 0 => Cause(cur)
    PROVE  ErrorForCause'
<1>1. \A i \in DOMAIN calls : i # cur => view'[i] = view[i]
    BY ReturnedView
<1>2. \A i \in DOMAIN calls : faults' = 0 /\ view'[i].kind = "error" => Cause(i)
    BY <1>1 DEF ErrorForCause, Cause
<1> QED BY <1>2 DEF ErrorForCause, Cause
-----------------------------------------------------------------------------
\* Failures are only counted.
LEMMA NoFailure ==
    ASSUME BatchInv, NEW n \in Nat, Failing(n)
    PROVE  faults' = 0 => faults = 0 /\ n = 0
<1>1. faults \in Nat
    BY ScenarioFacts DEF BatchInv, TypesInv, CounterInv
<1> QED BY <1>1, FailingFacts

LEMMA BeginErrors ==
    ASSUME BatchInv, ErrorForCause, BeginGiven \/ BeginAllocated \/ BeginFailed
    PROVE  ErrorForCause'
<1>1. step = "begin" /\ calls' = calls
    BY DEF BeginGiven, BeginAllocated, BeginFailed
<1>2. /\ cur \in DOMAIN calls /\ view \in [DOMAIN calls -> Views] /\ view[cur] \in Views
      /\ Valid(ThisCall)
    BY <1>1, CallInRange, CurBuffers, ThisCallFacts DEF BatchInv, TypesInv, TableInv
<1>3. Attempts \in Seq(Places) /\ (ThisCall.allowed # <<>> => Len(Attempts) > 0)
    BY <1>2, ValidFacts, AttemptsFacts
<1>4. ASSUME NEW place, NEW cells, Enter(place, cells)
      PROVE  \A i \in DOMAIN calls : view'[i].kind = "error" => view[i].kind = "error"
    <2>1. view' = [view EXCEPT ![cur] = [view[cur] EXCEPT !.place = place]]
        BY <1>2, <1>4 DEF Enter
    <2>2. [view[cur] EXCEPT !.place = place].kind = view[cur].kind
        BY <1>2 DEF Views
    <2> QED BY <2>1, <2>2, <1>2
<1>5. CASE BeginGiven
    <2>1. faults' = faults
        BY <1>5 DEF BeginGiven
    <2> QED BY <2>1, <1>1, <1>4, <1>5, NoError DEF BeginGiven
<1>6. CASE BeginAllocated
    <2> PICK k \in DOMAIN Attempts :
            CreateAt(k) /\ Enter(Attempts[k], GetByteSize(BatchInputShape))
        BY <1>6 DEF BeginAllocated
    <2>1. k - 1 \in Nat
        BY <1>3
    <2>2. faults' = 0 => faults = 0
        BY <2>1, NoFailure DEF CreateAt
    <2> QED BY <2>2, <1>1, <1>4, NoError
<1>7. CASE BeginFailed
    <2>1. CallReturns("error")
        BY <1>7 DEF BeginFailed
    <2>2. (faults' = 0 => faults = 0) /\ (faults' = 0 => Cause(cur))
        <3>1. CASE UNCHANGED faults /\ ThisCall.given /\ Len(ThisCall.allowed) # 1
            BY <3>1 DEF Cause, ThisCall
        <3>2. CASE UNCHANGED faults /\ ~ThisCall.given /\ ThisCall.allowed = <<>>
            BY <3>2 DEF Cause, ThisCall
        <3>3. CASE Failing(1)
            BY <3>3, NoFailure
        <3>4. CASE ThisCall.allowed # <<>> /\ CreateFails(Attempts)
            <4>1. Len(Attempts) \in Nat /\ Len(Attempts) # 0
                BY <3>4, <1>3
            <4> QED BY <4>1, <3>4, NoFailure DEF CreateFails
        <3> QED BY <1>7, <3>1, <3>2, <3>3, <3>4 DEF BeginFailed
    <2> QED BY <2>1, <2>2, <1>1, AnError
<1> QED BY <1>5, <1>6, <1>7

\* The size was computed to fit: only a buffer that the caller gave is too small.
LEMMA FitsUnlessGiven ==
    ASSUME BatchInv, step = "fill", next <= request_count, ~Fits(at + Taken(next))
    PROVE  Cause(cur)
<1>1. Handling /\ Kind # AsShape /\ Wanted(Size) /\ Size \in Nat
    BY CallInRange DEF Handling, BatchInv, HandledInv, FillInv
<1> DEFINE n == request_count  end == at + Taken(next)  content == Content(ThisCall)
<1>2. /\ Valid(ThisCall) /\ Len(ThisCall.shapes) = n /\ n \in Nat \ {0}
      /\ Base \in {0, 1} /\ Base = Lead(ThisCall) /\ Kind = ThisCall.kind
      /\ Len(content) = Base + PartsUpTo(ThisCall, n)
      /\ PartsUpTo(ThisCall, n) \in Nat
    BY <1>1, WantedContent
<1>3. next \in 1 .. n /\ end = PartsUpTo(ThisCall, next)
    BY NextPart
<1>4. end \in Nat
    <2>1. next \in 0 .. n
        BY <1>2, <1>3
    <2> QED BY <2>1, <1>1, <1>3, WantedContent
<1>5. end <= PartsUpTo(ThisCall, n)
    <2>1. n \in 0 .. Len(ThisCall.shapes) /\ next \in 0 .. n
        BY <1>2, <1>3
    <2> QED BY <2>1, <1>1, <1>2, <1>3, PartsGrow
<1>6. ~(end <= Size - Base) /\ ~(Size < Base)
    BY DEF Fits
<1> HIDE DEF n, end, content
<1>7. Len(content) > Size
    BY <1>1, <1>2, <1>4, <1>5, <1>6
<1>8. CASE ThisCall.given
    <2>1. Size = ThisCall.cells
        BY <1>1, <1>8 DEF Wanted
    <2> QED BY <2>1, <1>7, <1>8 DEF Cause, ThisCall, content
<1>9. CASE ~ThisCall.given
    <2>1. Size = GetByteSize(BatchInputShape)
        BY <1>1, <1>9 DEF Wanted
    <2>2. GetByteSize(BatchInputShape) = Base + PartsUpTo(ThisCall, n)
        BY <1>1, <1>2, SizeIs DEF n
    <2> QED BY <2>1, <2>2, <1>1, <1>2, <1>7
<1> QED BY <1>8, <1>9

LEMMA FillErrors ==
    ASSUME BatchInv, ErrorForCause, FillFails \/ CopyFails \/ CreateInternalFails
    PROVE  ErrorForCause'
<1>1. Handling /\ CallReturns("error") /\ calls' = calls
    BY DEF Handling, FillFails, CopyFails, CreateInternalFails
<1>2. CASE FillFails
    <2>1. (faults' = 0 => faults = 0) /\ (faults' = 0 => Cause(cur))
        <3>1. CASE ~Fits(at + Taken(next)) /\ UNCHANGED faults
            BY <1>2, <3>1, FitsUnlessGiven DEF FillFails
        <3>2. CASE Failing(1)
            BY <3>2, NoFailure
        <3> QED BY <1>2, <3>1, <3>2 DEF FillFails
    <2> QED BY <2>1, <1>1, AnError
<1>3. CASE CopyFails
    <2>1. faults' # 0
        BY <1>3, NoFailure DEF CopyFails
    <2> QED BY <2>1, <1>1, AnError
<1>4. CASE CreateInternalFails
    <2>1. Len(InternalTypes) = 2
        BY DEF InternalTypes
    <2>2. faults' # 0
        BY <1>4, <2>1, NoFailure DEF CreateInternalFails, CreateFails
    <2> QED BY <2>2, <1>1, AnError
<1> QED BY <1>2, <1>3, <1>4

\* A call that returns a buffer is not in error.
LEMMA BufferReturned ==
    ASSUME BatchInv, ErrorForCause, Handling, CallReturns("buffer"), calls' = calls,
           faults' = faults
    PROVE  ErrorForCause'
<1>1. \A i \in DOMAIN calls : view'[i].kind = "error" => view[i].kind = "error"
    BY ReturnedView
<1> QED BY <1>1, NoError

LEMMA ErrorForCauseStep ==
    ASSUME BatchInv, ErrorForCause, [BatchNext]_batchVars
    PROVE  ErrorForCause'
<1>1. CASE calls' = calls /\ faults' = faults /\ view' = view
    BY <1>1, NoError
<1>2. CASE CreateInternal
    <2> PICK k \in DOMAIN InternalTypes : CreateAt(k)
        BY <1>2 DEF CreateInternal
    <2>1. k - 1 \in Nat
        BY DEF InternalTypes
    <2>2. faults' = 0 => faults = 0
        BY <2>1, NoFailure DEF CreateAt
    <2> QED BY <2>2, <1>2, NoError DEF CreateInternal
<1>3. CASE StartShape
    BY <1>3, BufferReturned DEF StartShape, Handling
<1>4. CASE FillRest
    BY <1>1, <1>4, BufferReturned DEF FillRest, Handling
<1>5. CASE CopyToDevice
    BY <1>5, BufferReturned DEF CopyToDevice, Handling
<1>6. CASE \/ StartZero \/ StartPlain \/ FillRequest \/ Finalize \/ CallerSync
           \/ RunCopy \/ BufferReadyFires \/ Consumed \/ UNCHANGED batchVars
    BY <1>1, <1>6 DEF StartZero, StartPlain, FillRequest, Finalize, CallerSync, RunCopy,
                      BufferReadyFires, Consumed, batchVars
<1> QED BY <1>2, <1>3, <1>4, <1>5, <1>6, BeginErrors, FillErrors DEF BatchNext
-----------------------------------------------------------------------------
(***************************************************************************)
(* ProcessBatchInput writes past the end of a buffer only where the code   *)
(* looks at no size: the zero at the start of a buffer without cells, and  *)
(* the shape of a request without items.  For every sequence of calls,     *)
(* every batch and every memory that may fail, all other writes stay within*)
(* the buffer, and no variable leaves its range.                           *)
(***************************************************************************)
THEOREM BatchWithinBuffer == BatchSpec => []WithinBuffer
BY BatchAlways, BatchInvWithin, PTL

(***************************************************************************)
(* A caller that synchronizes with the stream when Finalize() tells it to  *)
(* finds in every batch input that ProcessBatchInput returned what its kind*)
(* says about the batch, whichever other calls failed.                     *)
(***************************************************************************)
THEOREM BatchDescribed == BatchSpec => []Described
BY BatchAlways, BatchInvDescribed, PTL

(***************************************************************************)
(* When nothing fails, ProcessBatchInput answers in error only for a buffer*)
(* given too small or with other places than it may have: the size that    *)
(* BatchInputShape computes is enough for what the Set functions write.    *)
(***************************************************************************)
THEOREM BatchErrorForCause == BatchSpec => []ErrorForCause
<1>1. BatchInit => ErrorForCause
    BY DEF BatchInit, ErrorForCause, NoView
<1>2. BatchInv /\ ErrorForCause /\ [BatchNext]_batchVars => ErrorForCause'
    BY ErrorForCauseStep
<1> QED BY <1>1, <1>2, BatchAlways, PTL DEF BatchSpec
=============================================================================
