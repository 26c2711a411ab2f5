----------------------- MODULE MCModelInstanceExecute -----------------------
(***************************************************************************)
(* Calls of ModelInstanceExecute for TLC.                                  *)
(***************************************************************************)
EXTENDS ModelInstanceExecute

\* Two instances of a model, each called once.
TwoCalls == {"a", "b"}
TwoInstances == [c \in TwoCalls |-> c]
Recommended == [c \in TwoCalls |-> "recommended"]

\* The same next to a call of a model with the minimal backend.
ThreeCalls == {"a", "b", "c"}
ThreeInstances == [c \in ThreeCalls |-> c]
MixedBackends == [c \in ThreeCalls |-> IF c = "c" THEN "minimal" ELSE "recommended"]
=============================================================================
