------------------------------ MODULE MCCallTree ------------------------------
(***************************************************************************)
(* The instance of CallTree for TLC.  The recorder may send any batch of   *)
(* at most two calls, so every way to cut the trace into batches, every    *)
(* arrival order and every redelivery is there.                            *)
(***************************************************************************)
EXTENDS CallTree

\* Calls 2 and 3 share a bucket, call 4 is a recursion, call 5 claims to be
\* its own caller.
FiveCalls == 1..5
Functions2 == {"f", "g"}
Parents == <<0, 1, 1, 2, 5>>
Fns == <<"f", "g", "g", "f", "g">>

\* Call 3's clock is inverted; call 4 took longer than its caller.
Walls == <<6, 3, -1, 4, 1>>

\* wire.rs: "Script body = 0; direct callees = 1; ...".
RecorderDepths == <<0, 1, 1, 2, 0>>

OneOrTwo == {s \in UNION {[1..n -> 1..4] : n \in 1..2} : Len(s) = 2 => s[1] # s[2]}

SmallBatches ==
    [calls : OneOrTwo \cup {<<>>, <<5>>}, dict : {{}, {"g"}, {"f", "g"}}]
=============================================================================
