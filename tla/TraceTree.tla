------------------------------ MODULE TraceTree ------------------------------
(***************************************************************************)
(* What one trace's tree promises, whatever the order its batches arrive   *)
(* in: the calls merged into the tree are exactly those whose function is  *)
(* in the dictionary and whose chain of callers, all held, reaches the top *)
(* of the stack.  The state is what the collector holds; the tree is a     *)
(* function of it, so two arrival orders that leave the same calls and the *)
(* same dictionary leave the same tree.                                    *)
(*                                                                         *)
(* CallTree, which follows the source, is shown to implement this module.  *)
(***************************************************************************)
EXTENDS Integers, Sequences, FiniteSets

CONSTANTS
    CallId,   \* the call_ids of the trace
    FnId,     \* the fn_ids of the trace, the synthetic root's 0 excluded
    Top,      \* the wire's parent = 0: no calling frame
    Parent,   \* Parent[c]: the call_id of c's calling frame, or Top
    Fn,       \* Fn[c]: the fn_id of c
    Batches   \* what the recorder may send: calls in wire order, dict entries

VARIABLES
    held,     \* the calls recorded and not given up on
    dict,     \* the fn_ids whose DictEntry has arrived
    folded    \* the calls merged into the tree

vars == <<held, dict, folded>>

(***************************************************************************)
(* A set of calls is closed when it has every call it should, given its    *)
(* other members: known function, caller at the top or in the set.         *)
(***************************************************************************)
IsClosed(S, calls, fns) ==
    \A c \in calls :
        Fn[c] \in fns /\ Parent[c] \in S \cup {Top} => c \in S

(* The least closed set: the calls in every closed set. *)
Resolvable(calls, fns) ==
    {c \in calls : \A S \in SUBSET calls : IsClosed(S, calls, fns) => c \in S}

CallsOf(b) == {b.calls[i] : i \in DOMAIN b.calls}

Init ==
    /\ held = {}
    /\ dict = {}
    /\ folded = {}

(* A batch arrives, for the first time or again. *)
Record(b) ==
    /\ held' = held \cup CallsOf(b)
    /\ dict' = dict \cup b.dict
    /\ folded' = Resolvable(held', dict')

(* The trace is closed: what never resolved is given up on. *)
Finalize ==
    /\ held' = folded
    /\ UNCHANGED <<dict, folded>>

Next ==
    \/ \E b \in Batches : Record(b)
    \/ Finalize

Spec == Init /\ [][Next]_vars
=============================================================================
