------------------------------ MODULE TraceStore ------------------------------
(***************************************************************************)
(* struct Storage and the two loops that share it with the decoder under   *)
(* one mutex: record_batch, finalize_trace and delete_trace cut at their   *)
(* commits and file operations, the idle-finalize tick and the retention   *)
(* tick (crates/php-tree-viz-collector/src/storage/mod.rs, finalize.rs,    *)
(* retention.rs).  An operation may fail at each cut and the process may   *)
(* die there.                                                              *)
(*                                                                         *)
(* A batch stands for its one call, which waits for the call of the batch  *)
(* Needs[b]; which calls are in the tree is what TraceTree says (CallTree  *)
(* is shown to implement it).  The index row and trace_meta keep what the  *)
(* operations read, report or must agree on.                               *)
(***************************************************************************)
EXTENDS Integers, FiniteSets, RawFiles

CONSTANTS
    Batch,        \* the batches the recorder may deliver, each any number of times
    KeyOf,        \* KeyOf[b]: the trace of b
    Needs,        \* Needs[b]: the batch with the caller of b's call, or NoBatch
    NoBatch,
    Inverted,     \* the batches whose call has an inverted interval
    HasCpu,       \* the batches whose call has CPU times
    NoDb,         \* db[k] when <key>.sqlite does not exist
    NoRow,        \* index[k] when the index has no row
    Faults,       \* what may fail: "record", "finalize", "delete", "crash"
    MaxRecords,   \* bound of the model: batches recorded
    MaxStored,    \* bound of the model: batch files committed
    MaxFaults     \* bound of the model: failures

DbState == [held : SUBSET Batch, dropped : Nat, inverted : Nat,
            state : {"none", "active", "finalized"}, cpu : BOOLEAN]

Row == [state : {"active", "finalized"}, calls : Nat, anomalies : Nat,
        pending : 0..Cardinality(Batch), cpu : BOOLEAN]

ASSUME BatchesAssumption ==
    /\ IsFiniteSet(Batch)
    /\ KeyOf \in [Batch -> Key]
    /\ Needs \in [Batch -> Batch \cup {NoBatch}]
    /\ Inverted \subseteq Batch
    /\ HasCpu \subseteq Batch

ASSUME BoundsAssumption ==
    /\ NoDb \notin DbState /\ NoRow \notin Row
    /\ Faults \subseteq {"record", "finalize", "delete", "crash"}
    /\ MaxRecords \in Nat /\ MaxStored \in Nat /\ MaxFaults \in Nat

VARIABLES
    db,         \* db[k]: the per-trace database, as committed
    index,      \* index[k]: the row of index.sqlite
    conns,      \* trace_conns: the keys with a cached connection
    raw,        \* the batch files in the <key>.raw directories
    rawDirs,    \* the keys whose <key>.raw directory exists
    age,        \* age[k]: how last_batch_at_ns compares with the two cutoffs
    expired,    \* the keys whose start_time_ns is before the retention cutoff
    pc,         \* where the holder of the storage mutex is, "free" if none
    cur,        \* the candidate or batch it works on
    delta,      \* AggregateOutcome, for the index
    todo,       \* the candidates of the tick still to do
    records,    \* how many batches were recorded, up to MaxRecords
    stored,     \* how many batch files were committed, up to MaxStored
    faults,     \* how many failures there were, up to MaxFaults
    reported    \* the batches record_batch returned Ok for

store   == <<db, index, conns>>
files   == <<raw, rawDirs>>
clock   == <<age, expired>>
mutex   == <<pc, cur, delta, todo>>
bounds  == <<records, stored, faults, reported>>
vars    == <<store, files, clock, mutex, bounds>>

-----------------------------------------------------------------------------
Tree == INSTANCE TraceTree WITH
    CallId <- Batch, FnId <- {"fn"}, Top <- NoBatch, Parent <- Needs,
    Fn <- [b \in Batch |-> "fn"], Batches <- {}, held <- {}, dict <- {}, folded <- {}

(* The calls of H that are merged into the tree, and those parked. *)
Folded(H)  == Tree!Resolvable(H, {"fn"})
Pending(H) == H \ Folded(H)

(* A database that open_connection just created has no trace_meta row. *)
FreshDb == [held |-> {}, dropped |-> 0, inverted |-> 0, state |-> "none", cpu |-> FALSE]

(* ensure_trace_conn: the database of k, created if it is missing. *)
Opened(k) == IF db[k] = NoDb THEN FreshDb ELSE db[k]

(* The rows of the anomalies table: DQ-1 and DQ-2, and DQ-3. *)
AnomalyRows(d) == d.dropped + d.inverted

CpuAvailable(d) == Folded(d.held) \cap HasCpu # {}

NoDelta == [calls |-> 0, anomalies |-> 0, pending |-> 0]

NoCandidate == [key |-> NoBatch, batch |-> NoBatch, force |-> FALSE]

Init ==
    /\ db = [k \in Key |-> NoDb]
    /\ index = [k \in Key |-> NoRow]
    /\ conns = {}
    /\ raw = {}
    /\ rawDirs = {}
    /\ age = [k \in Key |-> "fresh"]
    /\ expired = {}
    /\ pc = "free"
    /\ cur = NoCandidate
    /\ delta = NoDelta
    /\ todo = {}
    /\ records = 0
    /\ stored = 0
    /\ faults = 0
    /\ reported = {}

MayFail(what) ==
    /\ what \in Faults
    /\ faults < MaxFaults
    /\ faults' = faults + 1

-----------------------------------------------------------------------------
(* record_batch *)

MutantCountsAll(d, b) == 1

(* A call the trace holds already adds nothing. *)
NewCalls(d, b) == IF b \in d.held THEN 0 ELSE 1

(* The per-trace transaction: trace_meta, the dictionary, the calls. *)
RecordTrace(b) ==
    LET k == KeyOf[b]
        d == Opened(k)
        H == d.held \cup {b}
        inverted == Cardinality((Folded(H) \ Folded(d.held)) \cap Inverted)
    IN  /\ pc = "free"
        /\ records < MaxRecords
        /\ db' = [db EXCEPT ![k] =
                    [d EXCEPT !.held = H, !.inverted = @ + inverted,
                              !.state = "active", !.cpu = TRUE]]
        /\ conns' = conns \cup {k}
        /\ cur' = [key |-> k, batch |-> b, force |-> FALSE]
        /\ delta' = [calls |-> NewCalls(d, b), anomalies |-> inverted,
                     pending |-> Cardinality(Pending(H))]
        /\ pc' = "recorded"
        /\ records' = records + 1
        /\ UNCHANGED <<index, files, clock, todo, stored, faults, reported>>

(* The transaction fails; the database it opened stays. *)
RecordTraceFails(b) ==
    /\ pc = "free"
    /\ MayFail("record")
    /\ db' = [db EXCEPT ![KeyOf[b]] = Opened(KeyOf[b])]
    /\ conns' = conns \cup {KeyOf[b]}
    /\ UNCHANGED <<index, files, clock, mutex, records, stored, reported>>

MutantAccumulatesPending(row, d) ==
    [row EXCEPT !.state = "active", !.calls = @ + d.calls,
                !.anomalies = @ + d.anomalies, !.pending = @ + d.pending]

(* UPSERT_TRACE_SQL on a row that exists: counts add up, pending_count is  *)
(* replaced, the trace is active again, the CPU flag is left alone.        *)
Upserted(row, d) ==
    [row EXCEPT !.state = "active", !.calls = @ + d.calls,
                !.anomalies = @ + d.anomalies, !.pending = d.pending]

Inserted(d) ==
    [state |-> "active", calls |-> d.calls, anomalies |-> d.anomalies,
     pending |-> d.pending, cpu |-> TRUE]

(* The index transaction, which also stamps last_batch_at_ns. *)
RecordIndex ==
    /\ pc = "recorded"
    /\ index' = [index EXCEPT ![cur.key] =
                    IF @ = NoRow THEN Inserted(delta) ELSE Upserted(@, delta)]
    /\ age' = [age EXCEPT ![cur.key] = "fresh"]
    /\ reported' = reported \cup {cur.batch}
    /\ pc' = "free"
    /\ cur' = NoCandidate
    /\ delta' = NoDelta
    /\ UNCHANGED <<db, conns, files, expired, todo, records, stored, faults>>

(* It fails: record_batch returns the error, and the decoder drops the batch. *)
RecordIndexFails ==
    /\ pc = "recorded"
    /\ MayFail("record")
    /\ pc' = "free"
    /\ cur' = NoCandidate
    /\ delta' = NoDelta
    /\ UNCHANGED <<store, files, clock, todo, records, stored, reported>>

-----------------------------------------------------------------------------
(* The idle-finalize tick and finalize_trace *)

Candidate(k, force) == [key |-> k, batch |-> NoBatch, force |-> force]

IdleActive == {k \in Key : index[k] # NoRow /\ index[k].state = "active" /\ age[k] # "fresh"}

MutantFinalizesAllIdle == {Candidate(k, FALSE) : k \in IdleActive}
MutantIgnoresIdle ==
    {Candidate(k, FALSE) : k \in {q \in Key : index[q] # NoRow /\ index[q].state = "active"}}
MutantDefersForever == {Candidate(k, FALSE) : k \in {q \in IdleActive : index[q].pending = 0}}

(* Clean if nothing is parked, by force past the hard cap, else deferred. *)
ToFinalize ==
    {Candidate(k, FALSE) : k \in {q \in IdleActive : index[q].pending = 0}} \cup
    {Candidate(k, TRUE)  : k \in {q \in IdleActive : index[q].pending > 0 /\ age[q] = "old"}}

FinalizeTick ==
    /\ pc = "free"
    /\ ToFinalize # {}
    /\ todo' = ToFinalize
    /\ pc' = "finalizing"
    /\ UNCHANGED <<store, files, clock, cur, delta, bounds>>

(* Every parked call becomes an anomaly and is dropped; UPDATE trace_meta  *)
(* changes nothing when there is no row.                                   *)
Closed(d) ==
    [d EXCEPT !.held = Folded(@),
              !.dropped = @ + Cardinality(Pending(d.held)),
              !.state = IF @ = "none" THEN "none" ELSE "finalized",
              !.cpu = IF d.state = "none" THEN FALSE ELSE CpuAvailable(d)]

FinalizeTrace(c) ==
    /\ pc = "finalizing"
    /\ c \in todo
    /\ todo' = todo \ {c}
    /\ cur' = c
    /\ db' = [db EXCEPT ![c.key] = Closed(Opened(c.key))]
    /\ conns' = conns \cup {c.key}
    /\ pc' = "closed"
    /\ UNCHANGED <<index, files, clock, delta, bounds>>

FinalizeTraceFails(c) ==
    /\ pc = "finalizing"
    /\ c \in todo
    /\ MayFail("finalize")
    /\ todo' = todo \ {c}
    /\ db' = [db EXCEPT ![c.key] = Opened(c.key)]
    /\ conns' = conns \cup {c.key}
    /\ UNCHANGED <<index, files, clock, pc, cur, delta, records, stored, reported>>

MutantKeepsAnomalyCount(row, d) ==
    [row EXCEPT !.state = "finalized", !.cpu = CpuAvailable(d), !.pending = 0]

(* The anomaly count is replaced by the rows there are, not added to. *)
Finalized(row, d) ==
    [row EXCEPT !.state = "finalized", !.anomalies = AnomalyRows(d),
                !.cpu = CpuAvailable(d), !.pending = 0]

FinalizeIndex ==
    /\ pc = "closed"
    /\ index' = [index EXCEPT ![cur.key] = Finalized(@, db[cur.key])]
    /\ conns' = conns \ {cur.key}
    /\ pc' = IF cur.force THEN "finalizing" ELSE "cleaning"
    /\ cur' = IF cur.force THEN NoCandidate ELSE cur
    /\ UNCHANGED <<db, files, clock, delta, todo, bounds>>

(* remove_dir_all of <key>.raw, after a clean finalize or in a deletion:   *)
(* the files it finds, then the directory, unless one came in meanwhile.   *)
RemoveRawFiles ==
    /\ pc \in {"cleaning", "unlinked"}
    /\ raw' = raw \ FilesOf(raw, cur.key)
    /\ pc' = IF pc = "cleaning" THEN "cleaned" ELSE "emptied"
    /\ UNCHANGED <<store, rawDirs, clock, cur, delta, todo, bounds>>

RemoveRawDir ==
    /\ pc \in {"cleaned", "emptied"}
    /\ FilesOf(raw, cur.key) = {}
    /\ rawDirs' = rawDirs \ {cur.key}
    /\ pc' = IF pc = "cleaned" THEN "finalizing" ELSE "dropping"
    /\ cur' = IF pc = "cleaned" THEN NoCandidate ELSE cur
    /\ UNCHANGED <<store, raw, clock, delta, todo, bounds>>

RawDirNotEmpty ==
    /\ pc \in {"cleaned", "emptied"}
    /\ FilesOf(raw, cur.key) # {}
    /\ pc' = IF pc = "cleaned" THEN "finalizing" ELSE "sweeping"
    /\ cur' = NoCandidate
    /\ UNCHANGED <<store, files, clock, delta, todo, bounds>>

(* finalize_trace returns an error; the tick goes on to the next candidate. *)
FinalizeFails ==
    /\ pc \in {"closed", "cleaning", "cleaned"}
    /\ MayFail("finalize")
    /\ pc' = "finalizing"
    /\ cur' = NoCandidate
    /\ UNCHANGED <<store, files, clock, delta, todo, records, stored, reported>>

-----------------------------------------------------------------------------
(* The retention tick and delete_trace *)

MutantExpiredActive == {k \in expired : index[k] # NoRow /\ index[k].state = "active"}

Expired == {k \in expired : index[k] # NoRow}

RetentionTick ==
    /\ pc = "free"
    /\ Expired # {}
    /\ todo' = {Candidate(k, FALSE) : k \in Expired}
    /\ pc' = "sweeping"
    /\ UNCHANGED <<store, files, clock, cur, delta, bounds>>

MutantKeepsConnection(k) == conns

(* The connection is dropped before the file it has open is unlinked. *)
Evicted(k) == conns \ {k}

MutantLeavesDb(c) ==
    /\ pc = "sweeping"
    /\ c \in todo
    /\ todo' = todo \ {c}
    /\ cur' = c
    /\ conns' = Evicted(c.key)
    /\ pc' = "unlinked"
    /\ UNCHANGED <<db, index, files, clock, delta, bounds>>

DeleteDb(c) ==
    /\ pc = "sweeping"
    /\ c \in todo
    /\ todo' = todo \ {c}
    /\ cur' = c
    /\ conns' = Evicted(c.key)
    /\ db' = [db EXCEPT ![c.key] = NoDb]
    /\ pc' = "unlinked"
    /\ UNCHANGED <<index, files, clock, delta, bounds>>

(* A file cannot be measured or unlinked. *)
DeleteDbFails(c) ==
    /\ pc = "sweeping"
    /\ c \in todo
    /\ MayFail("delete")
    /\ todo' = todo \ {c}
    /\ conns' = Evicted(c.key)
    /\ UNCHANGED <<db, index, files, clock, pc, cur, delta, records, stored, reported>>

DeleteRow ==
    /\ pc = "dropping"
    /\ index' = [index EXCEPT ![cur.key] = NoRow]
    /\ age' = [age EXCEPT ![cur.key] = "fresh"]
    /\ pc' = "sweeping"
    /\ cur' = NoCandidate
    /\ UNCHANGED <<db, conns, files, expired, delta, todo, bounds>>

DeleteFails ==
    /\ pc \in {"unlinked", "emptied", "dropping"}
    /\ MayFail("delete")
    /\ pc' = "sweeping"
    /\ cur' = NoCandidate
    /\ UNCHANGED <<store, files, clock, delta, todo, records, stored, reported>>

EndTick ==
    /\ pc \in {"finalizing", "sweeping"}
    /\ todo = {}
    /\ pc' = "free"
    /\ UNCHANGED <<store, files, clock, cur, delta, todo, bounds>>

-----------------------------------------------------------------------------
(* The process dies and is started again: only what is on disk is left. *)
Crash ==
    /\ MayFail("crash")
    /\ conns' = {}
    /\ pc' = "free"
    /\ cur' = NoCandidate
    /\ delta' = NoDelta
    /\ todo' = {}
    /\ UNCHANGED <<db, index, files, clock, records, stored, reported>>

(* Time passes; the model lets it pass only between operations. *)
GrowOlder(k) ==
    /\ pc = "free"
    /\ index[k] # NoRow
    /\ age[k] # "old"
    /\ age' = [age EXCEPT ![k] = IF @ = "fresh" THEN "idle" ELSE "old"]
    /\ UNCHANGED <<store, files, expired, mutex, bounds>>

Expire(k) ==
    /\ pc = "free"
    /\ index[k] # NoRow
    /\ k \notin expired
    /\ expired' = expired \cup {k}
    /\ UNCHANGED <<store, files, age, mutex, bounds>>

(* The HTTP side commits a batch file, at any moment: it shares no lock. *)
StoreRaw(b) ==
    LET k == KeyOf[b] IN
    /\ stored < MaxStored
    /\ stored' = stored + 1
    /\ NextNumber(raw, k) <= BatchMax
    /\ raw' = raw \cup {[key |-> k, num |-> NextNumber(raw, k), body |-> b]}
    /\ rawDirs' = rawDirs \cup {k}
    /\ UNCHANGED <<store, clock, mutex, records, faults, reported>>

Record == (\E b \in Batch : RecordTrace(b) \/ RecordTraceFails(b)) \/ RecordIndex \/ RecordIndexFails

RemoveRaw == RemoveRawFiles \/ RemoveRawDir \/ RawDirNotEmpty

Finalize ==
    \/ FinalizeTick
    \/ \E c \in todo : FinalizeTrace(c) \/ FinalizeTraceFails(c)
    \/ FinalizeIndex
    \/ FinalizeFails

Retain ==
    \/ RetentionTick
    \/ \E c \in todo : DeleteDb(c) \/ DeleteDbFails(c)
    \/ DeleteRow
    \/ DeleteFails

Loops == Finalize \/ Retain \/ RemoveRaw \/ EndTick

Time == \E k \in Key : GrowOlder(k) \/ Expire(k)

Next ==
    \/ Record
    \/ Loops
    \/ Time
    \/ Crash
    \/ \E b \in Batch : StoreRaw(b)

Spec == Init /\ [][Next]_vars

(***************************************************************************)
(* The holder of the mutex goes on, the mutex is granted in the order it   *)
(* is asked for, both loops tick for ever, and time passes, though not     *)
(* necessarily as far as retention.                                        *)
(***************************************************************************)
FairSpec ==
    /\ Spec
    /\ WF_vars(RecordIndex \/ (pc # "free" /\ Loops))
    /\ WF_vars(FinalizeTick)
    /\ WF_vars(RetentionTick)
    /\ \A k \in Key : WF_vars(GrowOlder(k))

-----------------------------------------------------------------------------
CandidateType == [key : Key \cup {NoBatch}, batch : Batch \cup {NoBatch}, force : BOOLEAN]

(* Every variable has its type; pending_count never exceeds what can be parked. *)
TypeOK ==
    /\ \A k \in Key : db[k] = NoDb \/ db[k] \in DbState
    /\ \A k \in Key : index[k] = NoRow \/ index[k] \in Row
    /\ conns \subseteq Key
    /\ raw \subseteq [key : Key, num : 1..BatchMax, body : Batch]
    /\ rawDirs \subseteq Key
    /\ age \in [Key -> {"fresh", "idle", "old"}]
    /\ expired \subseteq Key
    /\ pc \in {"free", "recorded", "finalizing", "closed", "cleaning", "cleaned",
               "sweeping", "unlinked", "emptied", "dropping"}
    /\ cur \in CandidateType /\ todo \subseteq CandidateType
    /\ delta \in [calls : 0..1, anomalies : 0..Cardinality(Batch), pending : 0..Cardinality(Batch)]
    /\ records \in 0..MaxRecords /\ stored \in 0..MaxStored
    /\ faults \in 0..MaxFaults /\ reported \subseteq Batch

(* The calls a database was ever given, those dropped at finalize included. *)
CallsEver(d) == Cardinality(d.held) + d.dropped

HasBoth(k) == index[k] # NoRow /\ db[k] # NoDb

(***************************************************************************)
(* Until something fails the index tells the truth whenever the mutex is   *)
(* free: a row where there is a database, with its state and its counts.   *)
(* Of an expired trace a batch file may arrive while it is being deleted,  *)
(* which leaves the row to the next tick.                                  *)
(***************************************************************************)
IndexAgrees ==
    pc = "free" /\ faults = 0 => \A k \in Key \ expired :
        /\ index[k] = NoRow <=> db[k] = NoDb
        /\ HasBoth(k) =>
            /\ index[k].state = db[k].state
            /\ index[k].calls = CallsEver(db[k])
            /\ index[k].pending = Cardinality(Pending(db[k].held))
            /\ index[k].anomalies = AnomalyRows(db[k])

(***************************************************************************)
(* Until something fails a clean finalize gives nothing up: the loop       *)
(* decided from the index row that nothing is parked, and the raw files go *)
(* for good on that ground.                                                *)
(***************************************************************************)
CleanMeansDrained ==
    [][ faults = 0 /\ pc = "finalizing" /\ pc' = "closed" /\ ~cur'.force =>
            db'[cur'.key].dropped = Opened(cur'.key).dropped ]_vars

(* No connection is open on a database file that was unlinked. *)
ConnsHaveFiles == \A k \in conns : db[k] # NoDb

(***************************************************************************)
(* Whatever failed on the way there, a trace finalized in both databases   *)
(* has its anomalies counted right, nothing parked, and one CPU flag.      *)
(***************************************************************************)
FinalizedIsReconciled ==
    \A k \in Key :
        HasBoth(k) /\ index[k].state = "finalized" /\ db[k].state = "finalized" =>
            /\ index[k].anomalies = AnomalyRows(db[k])
            /\ index[k].pending = 0 /\ Pending(db[k].held) = {}
            /\ index[k].cpu = db[k].cpu

(***************************************************************************)
(* Whatever fails, the index never counts a call its trace was not given:  *)
(* the per-trace transaction commits first.  Deletion removes the database *)
(* first, so a trace past retention is left out.                           *)
(***************************************************************************)
IndexNeverOvercounts ==
    \A k \in Key \ expired :
        index[k] # NoRow => db[k] # NoDb /\ index[k].calls <= CallsEver(db[k])

(***************************************************************************)
(* No database is left that the index, and so the sweeper, does not know,  *)
(* as long as recording does not fail: a deletion that fails half way is   *)
(* found again by its row.                                                 *)
(***************************************************************************)
NoOrphans ==
    \A k \in Key : db[k] # NoDb /\ index[k] = NoRow => pc = "recorded" /\ cur.key = k

(***************************************************************************)
(* A trace that gets no more batches is finalized, also when its parked    *)
(* calls never resolve and when an attempt fails.                          *)
(***************************************************************************)
EventuallyFinalized ==
    \A k \in Key :
        index[k] # NoRow ~> index[k] = NoRow \/ index[k].state = "finalized"

(* A trace past retention is deleted, also when an attempt fails half way. *)
EventuallyReclaimed ==
    \A k \in Key :
        k \in expired /\ index[k] # NoRow ~> index[k] = NoRow /\ db[k] = NoDb

=============================================================================
