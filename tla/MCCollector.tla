------------------------------ MODULE MCCollector ------------------------------
(***************************************************************************)
(* Instances of Collector for TLC: one trace in two batches, the second of *)
(* which waits for the first; and with a second trace beside it.           *)
(***************************************************************************)
EXTENDS Collector

Pair == {"r1", "r2"}
PairCarries == [r \in Pair |-> IF r = "r1" THEN "a1" ELSE "a2"]
TwoBatches == {"a1", "a2"}
PairTrace == [b \in TwoBatches |-> "a"]
PairNeeds == [b \in TwoBatches |-> IF b = "a2" THEN "a1" ELSE NoBatch]

Trio == {"r1", "r2", "r3"}
TrioCarries == [r \in Trio |-> CASE r = "r1" -> "a1" [] r = "r2" -> "a2" [] r = "r3" -> "b1"]
ThreeBatches == {"a1", "a2", "b1"}
TrioTrace == [b \in ThreeBatches |-> IF b = "b1" THEN "b" ELSE "a"]
TrioNeeds == [b \in ThreeBatches |-> IF b = "a2" THEN "a1" ELSE NoBatch]
=============================================================================
