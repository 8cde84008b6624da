------------------------------- MODULE CallTree -------------------------------
(***************************************************************************)
(* One trace's database and the transaction that records a batch into it:  *)
(* Storage::record_batch up to its per-trace commit, aggregate_calls, the  *)
(* drain of pending_calls, and the per-trace half of finalize_trace        *)
(* (crates/php-tree-viz-collector/src/storage/{aggregate,mod}.rs).         *)
(*                                                                         *)
(* The variables that name tables are the open transaction's view of them; *)
(* `saved` is what the last commit left, which is what a rollback restores *)
(* and what readers see.  A node is named by the fn_ids on the way to it   *)
(* from the root: UNIQUE (parent_node_id, fn_id) makes that a name.  Of a  *)
(* node's sums only the wall times are kept; CPU and memory are added the  *)
(* same way by the same statement.                                         *)
(***************************************************************************)
EXTENDS Integers, Sequences, FiniteSets, FiniteSetsExt

CONSTANTS
    CallId,        \* the call_ids of the trace
    FnId,          \* the fn_ids of the trace, the synthetic root's 0 excluded
    Top,           \* the wire's parent = 0: no calling frame
    Parent,        \* Parent[c]: the call_id of c's calling frame, or Top
    Fn,            \* Fn[c]: the fn_id of c
    Wall,          \* Wall[c]: t_out - t_in on the wire, negative when inverted
    Depth,         \* Depth[c]: the call-stack depth on the wire
    Batches,       \* what the recorder may send: calls in wire order, dict entries
    Unmapped,      \* callNode[c] of a call with no call_to_node row
    MaxDeliveries  \* bound of the model: how many batches are committed

ASSUME CallAssumption ==
    /\ Top \notin CallId
    /\ Parent \in [CallId -> CallId \cup {Top}]
    /\ Fn \in [CallId -> FnId]

ASSUME MeasureAssumption ==
    /\ Wall \in [CallId -> Int]
    /\ Depth \in [CallId -> Nat]

ASSUME BatchAssumption ==
    Batches \subseteq [calls : Seq(CallId), dict : SUBSET FnId]

ASSUME UnmappedAssumption == Unmapped \notin Seq(FnId)

ASSUME BoundAssumption == MaxDeliveries \in Nat

VARIABLES
    \* the tables
    dict,        \* dict: the fn_ids it has a row for
    nodes,       \* nodes: one bucket per path of fn_ids
    callNode,    \* call_to_node: the bucket each folded call went to
    pending,     \* pending_calls: the parked calls
    anomalies,   \* anomalies: how many rows of each kind sample each call
    state,       \* trace_meta.state, "absent" before the first batch
    saved,       \* the tables as last committed
    \* the transaction of record_batch
    pc,          \* where record_batch is
    batch,       \* the batch being recorded
    todo,        \* the prefix of batch.calls still to go through, from its end
    rows,        \* the pending rows a drain query returned, with their depths
    work,        \* the drain's worklist: resolved calls and their depths
    outcome,     \* AggregateOutcome
    \* what has happened so far
    delivered,   \* how many batches were committed, up to MaxDeliveries
    seen         \* the calls of every committed batch

tables == [dict |-> dict, nodes |-> nodes, callNode |-> callNode,
           pending |-> pending, anomalies |-> anomalies, state |-> state]
unchangedTables == UNCHANGED <<dict, nodes, callNode, pending, anomalies, state>>
txn    == <<batch, todo, rows, work, outcome>>
vars   == <<dict, nodes, callNode, pending, anomalies, state,
            saved, pc, txn, delivered, seen>>

-----------------------------------------------------------------------------
Root == <<>>

AnomalyKind == {"inverted_time", "unresolved_fn", "pending_parent_at_finalize"}

Bucket == [count : Nat, wall : Nat, childWall : Nat, depth : Nat]

(* Mutants, here and below, are plausible slips in the definition after them. *)
MutantUnclamped(c) == Wall[c]

ClampedWall(c) == IF Wall[c] < 0 THEN 0 ELSE Wall[c]

folded == {c \in CallId : callNode[c] # Unmapped}

MutantKnownWhenFolded(c) == c \in folded
MutantKnownWhenParked(c) == c \in pending

AlreadyKnown(c) == c \in folded \cup pending

ParentResolved(c) == Parent[c] \in folded \cup {Top}

ParentNode(c) == IF Parent[c] = Top THEN Root ELSE callNode[Parent[c]]

CallsOf(b) == {b.calls[i] : i \in DOMAIN b.calls}

NoBatch == [calls |-> <<>>, dict |-> {}]

NoOutcome == [newCalls |-> 0, newWall |-> 0, newAnomalies |-> 0, touched |-> 0]

EmptyBucket(d) == [count |-> 0, wall |-> 0, childWall |-> 0, depth |-> d]

NoAnomaly == [k \in AnomalyKind |-> [c \in CallId |-> 0]]

Init ==
    /\ dict = {}
    /\ nodes = [n \in {} |-> EmptyBucket(0)]
    /\ callNode = [c \in CallId |-> Unmapped]
    /\ pending = {}
    /\ anomalies = NoAnomaly
    /\ state = "absent"
    /\ saved = tables
    /\ pc = "idle"
    /\ batch = NoBatch
    /\ todo = <<>>
    /\ rows = {}
    /\ work = <<>>
    /\ outcome = NoOutcome
    /\ delivered = 0
    /\ seen = {}

-----------------------------------------------------------------------------
(* The bucket table once the node n, created at depth d if missing, exists. *)
WithNode(n, d) ==
    [m \in DOMAIN nodes \cup {n} |->
        IF m \in DOMAIN nodes THEN nodes[m] ELSE EmptyBucket(d)]

(***************************************************************************)
(* fold_call_into_nodes: merge c into the bucket of its function under its *)
(* parent's node, charge the parent for c's time, map c to the bucket, and *)
(* note an inverted interval.  The depth counts only when the bucket is    *)
(* created.                                                                *)
(***************************************************************************)
Fold(c, d) ==
    LET p == ParentNode(c)
        n == Append(p, Fn[c])
        base == WithNode(n, d)
    IN  /\ nodes' = [m \in DOMAIN base |->
               [count     |-> base[m].count + IF m = n THEN 1 ELSE 0,
                wall      |-> base[m].wall + IF m = n THEN ClampedWall(c) ELSE 0,
                childWall |-> base[m].childWall + IF m = p THEN ClampedWall(c) ELSE 0,
                depth     |-> base[m].depth]]
        /\ callNode' = [callNode EXCEPT ![c] = n]
        /\ anomalies' = [anomalies EXCEPT !["inverted_time"][c] =
                            IF Wall[c] < 0 THEN @ + 1 ELSE @]

FoldAnomalies(c) == IF Wall[c] < 0 THEN 1 ELSE 0

(* The upsert of trace_meta activates the trace, also again. *)
MirroredState == "active"

(* record_batch opens its transaction: trace_meta, dict, synthetic root. *)
BeginBatch(b) ==
    /\ pc = "idle"
    /\ delivered < MaxDeliveries
    /\ state' = MirroredState
    /\ dict' = dict \cup b.dict
    /\ nodes' = WithNode(Root, 0)
    /\ pc' = "calls"
    /\ batch' = b
    /\ todo' = b.calls
    /\ outcome' = NoOutcome
    /\ UNCHANGED <<callNode, pending, anomalies, saved, rows, work, delivered, seen>>

(* The next call of the loop over batch.calls.iter().rev(). *)
current == todo[Len(todo)]

NextCall ==
    /\ pc = "calls"
    /\ todo # <<>>
    /\ todo' = SubSeq(todo, 1, Len(todo) - 1)
    /\ UNCHANGED <<dict, state, saved, pc, batch, rows, work, delivered, seen>>

MutantCountsRawWall(c) ==
    [outcome EXCEPT !.newCalls = @ + 1, !.newWall = @ + Wall[c]]

CountNew(c) ==
    [outcome EXCEPT !.newCalls = @ + 1, !.newWall = @ + ClampedWall(c)]

(* A call_id that is folded or parked already is passed over. *)
SkipKnown ==
    /\ NextCall
    /\ AlreadyKnown(current)
    /\ UNCHANGED <<nodes, callNode, pending, anomalies, outcome>>

(* A call whose function or whose caller is not there yet is parked. *)
Park ==
    /\ NextCall
    /\ ~AlreadyKnown(current)
    /\ Fn[current] \notin dict \/ ~ParentResolved(current)
    /\ pending' = pending \cup {current}
    /\ outcome' = CountNew(current)
    /\ UNCHANGED <<nodes, callNode, anomalies>>

FoldInBatch ==
    /\ NextCall
    /\ ~AlreadyKnown(current)
    /\ Fn[current] \in dict
    /\ ParentResolved(current)
    /\ Fold(current, Depth[current])
    /\ outcome' = [CountNew(current) EXCEPT
                      !.newAnomalies = @ + FoldAnomalies(current),
                      !.touched = @ + 1]
    /\ UNCHANGED pending

MutantDrainsOnFold == outcome.touched > 0
MutantDrainsOnDict == batch.dict # {}

(* Only a batch that may have unblocked a parked call drains. *)
NeedsDrain == batch.dict # {} \/ outcome.touched > 0

SkipDrain ==
    /\ pc = "calls"
    /\ todo = <<>>
    /\ ~NeedsDrain
    /\ pc' = "commit"
    /\ unchangedTables
    /\ UNCHANGED <<saved, txn, delivered, seen>>

MutantUnblockedUnknownFn == {c \in pending : ParentResolved(c)}

(* The seed query, and the filter that passes over unknown functions. *)
Unblocked == {c \in pending : ParentResolved(c) /\ Fn[c] \in dict}

(* The cascade's query, and the same filter. *)
ChildrenOf(p) == {c \in pending : Parent[c] = p /\ Fn[c] \in dict}

MutantParentDepth(c) == nodes[ParentNode(c)].depth

(* A node's depth never changes, so it may be read with the row. *)
DrainDepth(c) == nodes[ParentNode(c)].depth + 1

SeedDrain ==
    /\ pc = "calls"
    /\ todo = <<>>
    /\ NeedsDrain
    /\ pc' = "drain"
    /\ rows' = {<<c, DrainDepth(c)>> : c \in Unblocked}
    /\ unchangedTables
    /\ UNCHANGED <<saved, batch, todo, work, outcome, delivered, seen>>

(* resolve_pending_row, for the rows of a query in whatever order. *)
FoldRow(r) ==
    /\ pc = "drain"
    /\ Fold(r[1], r[2])
    /\ pending' = pending \ {r[1]}
    /\ rows' = rows \ {r}
    /\ work' = Append(work, r)
    /\ outcome' = [outcome EXCEPT
                      !.newAnomalies = @ + FoldAnomalies(r[1]),
                      !.touched = @ + 1]
    /\ UNCHANGED <<dict, state, saved, pc, batch, todo, delivered, seen>>

MutantPeeksParent ==
    /\ pc = "drain"
    /\ rows = {}
    /\ work # <<>>
    /\ rows' = {<<c, Head(work)[2] + 1>> : c \in ChildrenOf(Head(work)[1])}
    /\ unchangedTables
    /\ UNCHANGED <<saved, pc, batch, todo, work, outcome, delivered, seen>>

(* The cascade pops a resolved call and selects its parked children. *)
PopParent ==
    /\ pc = "drain"
    /\ rows = {}
    /\ work # <<>>
    /\ rows' = {<<c, Head(work)[2] + 1>> : c \in ChildrenOf(Head(work)[1])}
    /\ work' = Tail(work)
    /\ unchangedTables
    /\ UNCHANGED <<saved, pc, batch, todo, outcome, delivered, seen>>

EndDrain ==
    /\ pc = "drain"
    /\ rows = {}
    /\ work = <<>>
    /\ pc' = "commit"
    /\ unchangedTables
    /\ UNCHANGED <<saved, txn, delivered, seen>>

Commit ==
    /\ pc = "commit"
    /\ saved' = tables
    /\ pc' = "idle"
    /\ seen' = seen \cup CallsOf(batch)
    /\ batch' = NoBatch
    /\ outcome' = NoOutcome
    /\ unchangedTables
    /\ delivered' = delivered + 1
    /\ UNCHANGED <<todo, rows, work>>

(* An SQLite error or a crash before the commit: the transaction is undone. *)
Rollback ==
    /\ pc # "idle"
    /\ dict' = saved.dict
    /\ nodes' = saved.nodes
    /\ callNode' = saved.callNode
    /\ pending' = saved.pending
    /\ anomalies' = saved.anomalies
    /\ state' = saved.state
    /\ pc' = "idle"
    /\ batch' = NoBatch
    /\ todo' = <<>>
    /\ rows' = {}
    /\ work' = <<>>
    /\ outcome' = NoOutcome
    /\ UNCHANGED <<saved, delivered, seen>>

MutantInnerJoin(c) == IF Fn[c] \in dict THEN "pending_parent_at_finalize" ELSE "none"

GivenUpAs(c) == IF Fn[c] \in dict THEN "pending_parent_at_finalize" ELSE "unresolved_fn"

(***************************************************************************)
(* The per-trace transaction of finalize_trace: every row still parked     *)
(* becomes an anomaly, by whether its function is known, and is deleted.   *)
(* A crash after it and before the index commit makes the loop finalize    *)
(* again, so it may run on a trace already finalized.                      *)
(***************************************************************************)
FinalizeTrace ==
    /\ pc = "idle"
    /\ state # "absent"
    /\ anomalies' = [k \in AnomalyKind |-> [c \in CallId |->
                        IF c \in pending /\ k = GivenUpAs(c)
                        THEN anomalies[k][c] + 1 ELSE anomalies[k][c]]]
    /\ pending' = {}
    /\ state' = "finalized"
    /\ UNCHANGED <<dict, nodes, callNode, pc, txn, delivered, seen>>
    /\ saved' = tables'

Aggregate == SkipKnown \/ Park \/ FoldInBatch

Drain == SkipDrain \/ SeedDrain \/ (\E r \in rows : FoldRow(r)) \/ PopParent \/ EndDrain

Next ==
    \/ \E b \in Batches : BeginBatch(b)
    \/ Aggregate
    \/ Drain
    \/ Commit
    \/ Rollback
    \/ FinalizeTrace

Spec == Init /\ [][Next]_vars

(***************************************************************************)
(* record_batch runs to its end once begun: it is a synchronous function   *)
(* under the storage mutex.  When batches arrive, when the trace is        *)
(* finalized and whether a transaction fails is up to the environment.     *)
(***************************************************************************)
FairSpec == Spec /\ WF_vars(Aggregate \/ Drain \/ Commit)

-----------------------------------------------------------------------------
(* Every variable has its type; a row's or a worklist entry's depth is a Nat. *)
TypeOK ==
    /\ dict \subseteq FnId
    /\ DOMAIN nodes \subseteq Seq(FnId)
    /\ nodes \in [DOMAIN nodes -> Bucket]
    /\ callNode \in [CallId -> Seq(FnId) \cup {Unmapped}]
    /\ pending \subseteq CallId
    /\ anomalies \in [AnomalyKind -> [CallId -> Nat]]
    /\ state \in {"absent", "active", "finalized"}
    /\ pc \in {"idle", "calls", "drain", "commit"}
    /\ batch \in [calls : Seq(CallId), dict : SUBSET FnId]
    /\ todo \in Seq(CallId)
    /\ rows \subseteq CallId \X Nat
    /\ work \in Seq(CallId \X Nat)
    /\ outcome \in [newCalls : Nat, newWall : Nat, newAnomalies : Nat, touched : Nat]
    /\ delivered \in 0..MaxDeliveries
    /\ seen \subseteq CallId

savedFolded == {c \in CallId : saved.callNode[c] # Unmapped}

(***************************************************************************)
(* A call is folded or parked, never both: call_to_node and pending_calls  *)
(* each have call_id as key, but nothing in the schema relates the two.    *)
(***************************************************************************)
OneHome == folded \cap pending = {}

(***************************************************************************)
(* Wherever and whenever it was folded, from its own batch or from the     *)
(* drain, a call sits in the bucket of its function under the bucket of    *)
(* its caller, which is itself folded.                                     *)
(***************************************************************************)
PlacedUnderCaller ==
    \A c \in folded :
        /\ Fn[c] \in dict
        /\ ParentResolved(c)
        /\ callNode[c] = Append(ParentNode(c), Fn[c])

(***************************************************************************)
(* Between transactions no parked call is one the drain could resolve: the *)
(* gate that skips the drain, the seed query and the cascade miss nothing. *)
(***************************************************************************)
NothingResolvableWaits ==
    \A c \in saved.pending :
        Fn[c] \in saved.dict => Parent[c] \notin savedFolded \cup {Top}

(***************************************************************************)
(* INV-4 and BR-1: a bucket's counters are the sums over the calls mapped  *)
(* to it, and what it was charged for its children the sum over the calls  *)
(* whose caller is mapped to it; there is no bucket without a call but the *)
(* root.                                                                   *)
(***************************************************************************)
BucketsAddUp ==
    /\ DOMAIN nodes \subseteq {Root} \cup {callNode[c] : c \in folded}
    /\ \A n \in DOMAIN nodes :
        LET here     == {c \in folded : callNode[c] = n}
            children == {c \in folded : ParentNode(c) = n}
        IN  /\ nodes[n].count = Cardinality(here)
            /\ nodes[n].wall = MapThenSumSet(ClampedWall, here)
            /\ nodes[n].childWall = MapThenSumSet(ClampedWall, children)

(***************************************************************************)
(* An inverted call is noted once, when it is folded, however often its    *)
(* batch is delivered (DQ-3).                                              *)
(***************************************************************************)
InvertedOnce ==
    \A c \in CallId :
        anomalies["inverted_time"][c] = IF c \in folded THEN FoldAnomalies(c) ELSE 0

(***************************************************************************)
(* What record_batch reports to the index is what the transaction did: new *)
(* calls, folded or parked, their time, and the anomaly rows it added.     *)
(***************************************************************************)
DeltasExact ==
    pc = "commit" =>
        LET new == (folded \cup pending) \ (savedFolded \cup saved.pending)
        IN  /\ outcome.newCalls = Cardinality(new)
            /\ outcome.newWall = MapThenSumSet(ClampedWall, new)
            /\ outcome.newAnomalies =
                 Cardinality({c \in folded \ savedFolded : Wall[c] < 0})

(***************************************************************************)
(* Every call of a committed batch is in the tree, parked, or named by the *)
(* anomaly row it was given up with.                                       *)
(***************************************************************************)
NothingLost ==
    \A c \in seen :
        \/ c \in savedFolded \cup saved.pending
        \/ \E k \in AnomalyKind : saved.anomalies[k][c] > 0

(* DI-4: a finalized trace has no parked call. *)
FinalizedIsDrained == saved.state = "finalized" => saved.pending = {}

(***************************************************************************)
(* DI-3: a bucket's time covers its children's, at every moment and not    *)
(* only once all calls are in, unless the recorder itself sent a call of   *)
(* it whose callees together took longer than the call.                    *)
(***************************************************************************)
Took(calls) == MapThenSumSet(LAMBDA c : Max({0, Wall[c]}), calls)
CalleesOf(c) == {d \in folded : Parent[d] = c}

SelfTimeExplained ==
    \A n \in DOMAIN nodes \ {Root} :
        nodes[n].wall < nodes[n].childWall =>
            \E c \in folded : callNode[c] = n /\ Took(CalleesOf(c)) > Took({c})

(***************************************************************************)
(* A node has the depth that its first call brought (wire.rs: "Script      *)
(* body = 0") or that the drain counted from the root, 1 for a script      *)
(* body.  Which of the two depends on the order of arrival; in every order *)
(* it is within one of the node's distance from the root.                  *)
(***************************************************************************)
DepthWithinOne == \A n \in DOMAIN nodes : nodes[n].depth \in {Len(n) - 1, Len(n)}

(***************************************************************************)
(* What readers see only grows: no commit, redelivery, late batch or       *)
(* finalize takes a bucket away or lowers one of its sums.                 *)
(***************************************************************************)
TreeOnlyGrows ==
    [][ \A n \in DOMAIN saved.nodes :
            /\ n \in DOMAIN saved'.nodes
            /\ saved'.nodes[n].count >= saved.nodes[n].count
            /\ saved'.nodes[n].wall >= saved.nodes[n].wall
            /\ saved'.nodes[n].childWall >= saved.nodes[n].childWall ]_saved

(***************************************************************************)
(* The tree is the one TraceTree gives for the calls and the dictionary    *)
(* held, so it does not depend on the order the batches arrived in.        *)
(***************************************************************************)
Abstract == INSTANCE TraceTree WITH
    held   <- savedFolded \cup saved.pending,
    dict   <- saved.dict,
    folded <- savedFolded

ImplementsTraceTree == Abstract!Spec

(* A transaction ends, whatever callers the calls claim to have. *)
TransactionEnds == []<>(pc = "idle")

-----------------------------------------------------------------------------
(***************************************************************************)
(* "A redelivered batch contributes 0 to both" call_count and              *)
(* total_wall_ns (mod.rs): what a transaction counts as new, no committed  *)
(* batch had.                                                              *)
(***************************************************************************)
RedeliveryAddsNothing ==
    pc = "commit" => outcome.newCalls <= Cardinality(CallsOf(batch) \ seen)
=============================================================================
