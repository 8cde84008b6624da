----------------------------- MODULE MCTraceStore -----------------------------
(***************************************************************************)
(* Instances of TraceStore for TLC: a trace with two batches, the second   *)
(* waiting for the first; and a second trace with one, for the order of a  *)
(* tick's candidates.                                                      *)
(***************************************************************************)
EXTENDS TraceStore

ThreeBatches == {"a1", "a2", "b1"}
TwoKeys == {"a", "b"}
KeyOfThree == [b \in ThreeBatches |-> IF b = "b1" THEN "b" ELSE "a"]
NeedsThree == [b \in ThreeBatches |-> IF b = "a2" THEN "a1" ELSE NoBatch]

TwoBatches == {"a1", "a2"}
OneKey == {"a"}
KeyOfTwo == [b \in TwoBatches |-> "a"]
NeedsTwo == [b \in TwoBatches |-> IF b = "a2" THEN "a1" ELSE NoBatch]
=============================================================================
