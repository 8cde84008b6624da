------------------------------- MODULE Collector -------------------------------
(***************************************************************************)
(* The collector as http/server.rs puts it together: the handlers and the  *)
(* decoder of Ingest, the storage and the loops of TraceStore.  They meet  *)
(* in the storage mutex, and in the <key>.raw directories, which have no   *)
(* lock that both sides take.                                              *)
(***************************************************************************)
EXTENDS Integers, Sequences, FiniteSets

CONSTANTS
    Key, BatchMax,                               \* RawFiles
    Request, BodyOf, KeyOf, NoCalls, Capacity,   \* Ingest
    NoItem, MaxPosts,
    Batch, Needs, NoBatch, Inverted, HasCpu,     \* TraceStore
    NoDb, NoRow,
    Faults,     \* what may happen: "io", "crash"
    MaxFaults,
    Resumes     \* whether a trace may go on after it has been idle

VARIABLES
    at, answer, num, posts, partials, unremoved, late, queue, item, body, handed, disturbed,   \* Ingest
    db, index, conns, age, expired, pc, cur, delta, todo,                \* TraceStore
    records, stored, reported,
    raw, rawDirs, faults                                                 \* both

http  == <<at, answer, num, posts, partials, unremoved, late, queue, item, body, handed, disturbed>>
store == <<db, index, conns, age, expired, pc, cur, delta, todo, records, stored, reported>>
vars  == <<http, store, raw, rawDirs, faults>>

In == INSTANCE Ingest WITH
    TraceOf <- KeyOf, NoToken <- {}, WrongType <- {}, TooLarge <- {}, NoMeta <- {}, OtherSchema <- {}

St == INSTANCE TraceStore WITH
    MaxRecords <- Cardinality(Request) * MaxPosts, MaxStored <- 0, Faults <- Faults \cap {"crash"}

ASSUME CollectorAssumption ==
    /\ BodyOf \in [Request -> Batch]
    /\ KeyOf \in [Batch -> Key]
    /\ Needs \in [Batch -> Batch \cup {NoBatch}]
    /\ NoCalls \subseteq Batch /\ Inverted \subseteq Batch /\ HasCpu \subseteq Batch
    /\ IsFiniteSet(Request) /\ IsFiniteSet(Batch)
    /\ Capacity \in Nat \ {0} /\ BatchMax \in Nat \ {0}
    /\ Faults \subseteq {"io", "read", "disconnect", "crash"}
    /\ MaxFaults \in Nat /\ MaxPosts \in Nat
    /\ "unread" \notin Batch /\ NoItem \notin In!Submissions
    /\ NoDb \notin St!DbState /\ NoRow \notin St!Row

Init == In!Init /\ St!Init

(* The handlers, and the decoder up to the storage mutex. *)
Http ==
    /\ In!Requests \/ In!Failures \/ In!Decode
    /\ UNCHANGED store

(* The decoder has the mutex and record_batch's first transaction commits. *)
RecordTrace ==
    /\ body \in Batch \ NoCalls
    /\ St!RecordTrace(body)
    /\ UNCHANGED http

(* The second commits, and the decoder is done with the batch. *)
RecordIndex ==
    /\ St!RecordIndex
    /\ In!Done

Loops == St!Loops /\ UNCHANGED http

(* The trace of k has batches on their way: to be sent, stored or read. *)
Underway(k) ==
    \/ item # NoItem /\ item.key = k
    \/ \E r \in Request : KeyOf[BodyOf[r]] = k /\ ~In!Over(r)
    \/ \E i \in DOMAIN queue : queue[i].key = k

Time ==
    /\ \E k \in Key : (Resumes \/ ~Underway(k)) /\ (St!GrowOlder(k) \/ St!Expire(k))
    /\ UNCHANGED http

Crash == In!Crash /\ St!Crash

Next == Http \/ RecordTrace \/ RecordIndex \/ Loops \/ Time \/ Crash

Spec == Init /\ [][Next]_vars

(* The fairness of both parts; the recorder sends what it has.             *)
FairSpec ==
    /\ Spec
    /\ \A r \in Request : WF_vars(In!Handle(r) /\ UNCHANGED store) /\ SF_vars(In!Lock(r) /\ UNCHANGED store)
    /\ WF_vars(In!Decode /\ UNCHANGED store)
    /\ SF_vars(RecordTrace)
    /\ WF_vars(RecordIndex \/ (pc # "free" /\ Loops))

-----------------------------------------------------------------------------
(***************************************************************************)
(* INV-1's durability promise, "extension forgets the batch on 2xx and has *)
(* no spool": what was answered 200 comes to be recorded, unless its trace  *)
(* goes past retention first.                                              *)
(***************************************************************************)
AckedIsRecorded ==
    \A r \in Request :
        In!Sent(r) ~> BodyOf[r] \in reported \/ KeyOf[BodyOf[r]] \in expired

(***************************************************************************)
(* The decoder reads, once each and in order, what the requests it was     *)
(* sent for carried: no file is removed or replaced under its path.        *)
(***************************************************************************)
DecoderReadsWhatWasSent == In!ImplementsIntake

(* Directories that the loops remove under a commit do not keep a handler. *)
RequestsAnswered == In!EveryRequestAnswered

(***************************************************************************)
(* A clean finalize takes no batch away that was acknowledged and is still *)
(* to be recorded.                                                         *)
(***************************************************************************)
CleaningSparesTheUnread ==
    [][ \A i \in DOMAIN queue :
            LET mine == [key |-> queue[i].key, num |-> queue[i].num, body |-> BodyOf[queue[i].req]]
            IN  mine \in raw => mine \in raw' ]_vars

(***************************************************************************)
(* AC-3.1.3: "A SIGKILL against the process at any point loses no batch    *)
(* that was acknowledged with 2xx": it was recorded, or its file is there. *)
(***************************************************************************)
KillLosesNothing ==
    \A r \in Request :
        LET b == BodyOf[r]
            k == KeyOf[b]
        IN  In!Sent(r) => \/ In!Stored(b) \/ b \in reported \/ k \in expired
                          \/ db[k] # NoDb /\ b \in db[k].held
=============================================================================
