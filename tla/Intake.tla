-------------------------------- MODULE Intake --------------------------------
(***************************************************************************)
(* What the HTTP side promises the recorder and the decoder: a request is  *)
(* accepted at most once, at most Capacity accepted ones wait, and the     *)
(* decoder is handed what was accepted, in that order, each one once.      *)
(***************************************************************************)
EXTENDS Naturals, Sequences

CONSTANTS
    Request,
    BodyOf,     \* BodyOf[r]: the batch that request r carries
    Capacity    \* server.queue_capacity

VARIABLES
    accepted,   \* the requests answered 200
    waiting,    \* the requests the decoder has still to read, in order
    handed      \* the batches it was given

vars == <<accepted, waiting, handed>>

Init ==
    /\ accepted = {}
    /\ waiting = <<>>
    /\ handed = <<>>

(* One more may wait than the queue holds: the one the decoder took out. *)
Accept(r) ==
    /\ r \notin accepted
    /\ Len(waiting) <= Capacity
    /\ accepted' = accepted \cup {r}
    /\ waiting' = Append(waiting, r)
    /\ UNCHANGED handed

HandOver ==
    /\ waiting # <<>>
    /\ handed' = Append(handed, BodyOf[Head(waiting)])
    /\ waiting' = Tail(waiting)
    /\ UNCHANGED accepted

Next == HandOver \/ \E r \in Request : Accept(r)

Spec == Init /\ [][Next]_vars
=============================================================================
