--------------------------- MODULE TraceStoreProofs ---------------------------
(***************************************************************************)
(* Proofs about TraceStore for every set of traces and batches, whatever   *)
(* waits for what, and for any number of failures.  The invariant says     *)
(* what the two databases owe each other at each cut of an operation.      *)
(***************************************************************************)
EXTENDS TraceStore, RawFilesProofs, FiniteSetTheorems

(* What is folded and what is parked, and how many. *)
LEMMA FoldedSplits ==
    ASSUME NEW H \in SUBSET Batch
    PROVE  /\ Folded(H) \in SUBSET H /\ Pending(H) \in SUBSET H
           /\ Cardinality(H) \in 0..Cardinality(Batch)
           /\ Cardinality(Folded(H)) \in 0..Cardinality(Batch)
           /\ Cardinality(Pending(H)) \in 0..Cardinality(Batch)
           /\ Cardinality(Folded(H)) + Cardinality(Pending(H)) = Cardinality(H)
           /\ Cardinality(Pending(H)) = 0 <=> Pending(H) = {}
<1>1. Folded(H) \in SUBSET H /\ Pending(H) \in SUBSET H
  BY DEF Folded, Pending, Tree!Resolvable
<1>2. IsFiniteSet(Batch) /\ IsFiniteSet(H) /\ IsFiniteSet(Folded(H)) /\ IsFiniteSet(Pending(H))
  BY <1>1, FS_Subset, BatchesAssumption
<1>3. \A S \in SUBSET Batch : Cardinality(S) \in 0..Cardinality(Batch)
  BY FS_Subset, FS_CardinalityType, BatchesAssumption
<1>4. Folded(H) \cap Pending(H) = {} /\ Folded(H) \cup Pending(H) = H
  BY <1>1 DEF Pending
<1>5. Cardinality(H) = Cardinality(Folded(H)) + Cardinality(Pending(H)) - Cardinality({})
  BY <1>2, <1>4, FS_Union
<1>6. Cardinality(Pending(H)) = 0 <=> Pending(H) = {}
  BY <1>2, FS_EmptySet
<1> QED
  BY <1>1, <1>3, <1>5, <1>6, FS_EmptySet

(* Giving up what is parked makes nothing else parked. *)
LEMMA FoldedIsStable ==
    ASSUME NEW H \in SUBSET Batch
    PROVE  Folded(Folded(H)) = Folded(H)
<1> DEFINE R == Folded(H)
<1>1. R \in SUBSET H
  BY FoldedSplits
<1>2. ASSUME NEW c \in H, Needs[c] \in R \cup {NoBatch} PROVE c \in R
  BY <1>2 DEF Folded, Tree!Resolvable, Tree!IsClosed
<1>3. ASSUME NEW S \in SUBSET R, Tree!IsClosed(S, R, {"fn"}) PROVE R \in SUBSET S
  <2>1. Tree!IsClosed(S, H, {"fn"})
    BY <1>1, <1>2, <1>3 DEF Tree!IsClosed
  <2>2. \A c \in R : c \in S
    BY <1>1, <2>1 DEF Folded, Tree!Resolvable
  <2> QED
    BY <2>2
<1>4. R \in SUBSET Folded(R)
  BY <1>3 DEF Folded, Tree!Resolvable
<1> QED
  BY <1>1, <1>4, FoldedSplits

-----------------------------------------------------------------------------
InFinalize == {"finalizing", "closed", "cleaning", "cleaned"}
InSweep    == {"sweeping", "unlinked", "emptied", "dropping"}
InRemoval  == {"unlinked", "emptied", "dropping"}

(* Whatever the holder of the mutex works on is a trace, or a batch. *)
Typed ==
    /\ TypeOK
    /\ db \in [Key -> DbState \cup {NoDb}]
    /\ index \in [Key -> Row \cup {NoRow}]
    /\ \A c \in todo : c.key \in Key
    /\ pc \notin {"free", "finalizing", "sweeping"} => cur.key \in Key
    /\ pc = "recorded" => cur.batch \in Batch

(***************************************************************************)
(* The candidates of a finalize tick are as they were when it chose them:  *)
(* a trace's turn comes once, and nobody else has the mutex.               *)
(***************************************************************************)
Chosen(c) ==
    /\ index[c.key] # NoRow /\ index[c.key].state = "active"
    /\ ~c.force => index[c.key].pending = 0

TickHolds ==
    pc \in InFinalize =>
        /\ \A c \in todo : Chosen(c)
        /\ \A c, d \in todo : c.key = d.key => c = d
        /\ pc # "finalizing" => \A c \in todo : c.key # cur.key

(* Between the two commits of finalize_trace its database is closed. *)
ClosedHolds ==
    pc = "closed" =>
        /\ Chosen(cur)
        /\ db[cur.key] # NoDb /\ db[cur.key].state # "active"
        /\ Pending(db[cur.key].held) = {}
        /\ db[cur.key].state = "finalized" => db[cur.key].cpu = CpuAvailable(db[cur.key])

(* The sweeper has what is expired, and deletes the database first. *)
SweepHolds ==
    pc \in InSweep =>
        /\ \A c \in todo : c.key \in expired
        /\ pc \in InRemoval => cur.key \in expired /\ db[cur.key] = NoDb

CallsTold(k) == IF index[k] = NoRow THEN 0 ELSE index[k].calls
AnomaliesTold(k) == IF index[k] = NoRow THEN 0 ELSE index[k].anomalies

(* Between the commits of record_batch the index is behind by the delta. *)
RecordedHolds ==
    pc = "recorded" =>
        /\ db[cur.key] # NoDb /\ db[cur.key].state = "active"
        /\ cur.key \notin expired => CallsTold(cur.key) + delta.calls <= CallsEver(db[cur.key])

(* What is said of a trace at any cut of a run without a failure. *)
Agrees(k) ==
    /\ index[k] = NoRow <=> db[k] = NoDb
    /\ HasBoth(k) =>
        /\ index[k].state = db[k].state
        /\ index[k].calls = CallsEver(db[k])
        /\ index[k].pending = Cardinality(Pending(db[k].held))
        /\ index[k].anomalies = AnomalyRows(db[k])

AgreesWhileIdle ==
    faults = 0 => \A k \in Key \ expired :
        pc \notin {"recorded", "closed"} \/ k # cur.key => Agrees(k)

AgreesOnceRecorded ==
    faults = 0 /\ pc = "recorded" =>
        /\ delta.pending = Cardinality(Pending(db[cur.key].held))
        /\ cur.key \notin expired =>
            /\ CallsTold(cur.key) + delta.calls = CallsEver(db[cur.key])
            /\ AnomaliesTold(cur.key) + delta.anomalies = AnomalyRows(db[cur.key])

AgreesOnceClosed ==
    faults = 0 /\ pc = "closed" /\ cur.key \notin expired =>
        /\ db[cur.key].state = "finalized"
        /\ index[cur.key].calls = CallsEver(db[cur.key])

(* A row that tells of nothing parked is right, of an expired trace too. *)
DrainedIsDrained ==
    faults = 0 => \A k \in Key :
        /\ index[k] # NoRow /\ index[k].pending = 0
        /\ pc # "recorded" \/ k # cur.key
        => Pending(Opened(k).held) = {}

IInv ==
    /\ Typed
    /\ TickHolds
    /\ ClosedHolds
    /\ SweepHolds
    /\ ConnsHaveFiles
    /\ FinalizedIsReconciled
    /\ RecordedHolds
    /\ IndexNeverOvercounts
    /\ AgreesWhileIdle
    /\ AgreesOnceRecorded
    /\ AgreesOnceClosed
    /\ DrainedIsDrained

-----------------------------------------------------------------------------
(* Opening never fails to give a database. *)
LEMMA OpenedIsDb ==
    ASSUME Typed, NEW k \in Key
    PROVE  /\ Opened(k) \in DbState /\ Opened(k) # NoDb
           /\ db[k] # NoDb => Opened(k) = db[k]
           /\ db[k] = NoDb => Opened(k) = FreshDb
           /\ Pending({}) = {} /\ Cardinality({}) = 0
<1>1. FreshDb \in DbState
  BY DEF FreshDb, DbState
<1>2. Pending({}) = {}
  BY FoldedSplits
<1> QED
  BY <1>1, <1>2, FS_EmptySet, BoundsAssumption DEF Opened, Typed

(* Closing a database gives up what is parked, counts it, and nothing else. *)
LEMMA ClosedKeeps ==
    ASSUME NEW d \in DbState
    PROVE  /\ Closed(d) \in DbState
           /\ Pending(Closed(d).held) = {}
           /\ CallsEver(Closed(d)) = CallsEver(d) /\ CallsEver(d) \in Nat
           /\ Closed(d).state # "active"
           /\ Closed(d).state = "none" <=> d.state = "none"
           /\ Closed(d).state = "finalized" => Closed(d).cpu = CpuAvailable(Closed(d))
           /\ Pending(d.held) = {} => Closed(d).dropped = d.dropped
<1> DEFINE F == Folded(d.held)
           P == Pending(d.held)
           e == Closed(d)
<1>1. /\ d.held \in SUBSET Batch /\ d.dropped \in Nat /\ d.inverted \in Nat
      /\ d.state \in {"none", "active", "finalized"}
  BY DEF DbState
<1>2. /\ F \in SUBSET Batch /\ P \in SUBSET Batch
      /\ Cardinality(F) \in Nat /\ Cardinality(P) \in Nat /\ Cardinality(d.held) \in Nat
      /\ Cardinality(F) + Cardinality(P) = Cardinality(d.held)
      /\ P = {} => Cardinality(P) = 0
  BY <1>1, FoldedSplits
<1>3. /\ e.held = F /\ e.dropped = d.dropped + Cardinality(P) /\ e.inverted = d.inverted
      /\ e.state = IF d.state = "none" THEN "none" ELSE "finalized"
      /\ e.cpu = IF d.state = "none" THEN FALSE ELSE CpuAvailable(d)
      /\ e \in [held : {F}, dropped : {d.dropped + Cardinality(P)}, inverted : {d.inverted},
                state : {"none", "finalized"}, cpu : BOOLEAN]
  BY DEF Closed, DbState, CpuAvailable
<1>4. Folded(F) = F
  BY <1>1, FoldedIsStable
<1>5. e \in DbState
  BY <1>1, <1>2, <1>3 DEF DbState
<1>6. Pending(e.held) = {}
  BY <1>3, <1>4 DEF Pending
<1>7. CallsEver(e) = CallsEver(d) /\ CallsEver(d) \in Nat
  <2> HIDE DEF F, P, e
  <2> QED
    BY <1>1, <1>2, <1>3 DEF CallsEver
<1>8. CpuAvailable(e) = CpuAvailable(d)
  BY <1>3, <1>4 DEF CpuAvailable
<1> HIDE DEF e, P
<1>9. P = {} => e.dropped = d.dropped
  BY <1>1, <1>2, <1>3
<1> QED
  BY <1>1, <1>3, <1>5, <1>6, <1>7, <1>8, <1>9 DEF e, P

-----------------------------------------------------------------------------
(* The parts of the invariant, one by one. *)
LEMMA InitIInv == Init => IInv
<1> SUFFICES ASSUME Init PROVE IInv
  OBVIOUS
<1>1. Typed
  <2>1. 0 \in 0..Cardinality(Batch)
    BY FoldedSplits
  <2> QED
    BY <2>1, BoundsAssumption
    DEF Init, Typed, TypeOK, CandidateType, NoCandidate, NoDelta
<1>2. /\ TickHolds /\ ClosedHolds /\ SweepHolds /\ RecordedHolds
      /\ AgreesOnceRecorded /\ AgreesOnceClosed
  BY DEF Init, TickHolds, ClosedHolds, SweepHolds, RecordedHolds, AgreesOnceRecorded,
         AgreesOnceClosed, InFinalize, InSweep, InRemoval
<1>3. /\ ConnsHaveFiles /\ FinalizedIsReconciled /\ IndexNeverOvercounts
      /\ AgreesWhileIdle /\ DrainedIsDrained
  BY DEF Init, ConnsHaveFiles, FinalizedIsReconciled, IndexNeverOvercounts, AgreesWhileIdle,
         DrainedIsDrained, Agrees, HasBoth
<1> QED
  BY <1>1, <1>2, <1>3 DEF IInv

(* What the per-trace transaction of a batch does to its database. *)
LEMMA RecordTraceKeeps ==
    ASSUME Typed, NEW b \in Batch, RecordTrace(b)
    PROVE  LET k == KeyOf[b]
               e == db'[k]
               d == Opened(k)
           IN  /\ k \in Key /\ cur'.key = k /\ cur'.batch = b /\ cur' \in CandidateType
               /\ db' = [db EXCEPT ![k] = e] /\ e \in DbState /\ e # NoDb
               /\ e.state = "active" /\ e.held = d.held \cup {b}
               /\ delta' \in [calls : 0..1, anomalies : 0..Cardinality(Batch),
                              pending : 0..Cardinality(Batch)]
               /\ delta'.pending = Cardinality(Pending(e.held))
               /\ CallsEver(e) = CallsEver(d) + delta'.calls /\ CallsEver(d) \in Nat
               /\ AnomalyRows(e) = AnomalyRows(d) + delta'.anomalies /\ AnomalyRows(d) \in Nat
<1> DEFINE k == KeyOf[b]
           d == Opened(k)
           H == d.held \cup {b}
           i == (Folded(H) \ Folded(d.held)) \cap Inverted
           e == [d EXCEPT !.held = H, !.inverted = @ + Cardinality(i),
                          !.state = "active", !.cpu = TRUE]
<1>1. k \in Key
  BY BatchesAssumption
<1>2. d \in DbState
  BY <1>1, OpenedIsDb
<1>3. H \in SUBSET Batch /\ d.held \in SUBSET Batch
  BY <1>2 DEF DbState
<1>4. i \in SUBSET Batch
  BY <1>3, FoldedSplits
<1>5. Cardinality(i) \in 0..Cardinality(Batch) /\ Cardinality(Batch) \in Nat
  <2> HIDE DEF i
  <2>1. Cardinality(i) \in 0..Cardinality(Batch)
    BY <1>4, FoldedSplits
  <2> QED
    BY <2>1, FS_CardinalityType, BatchesAssumption
<1>6. Cardinality(Pending(H)) \in 0..Cardinality(Batch)
  BY <1>3, FoldedSplits
<1>7. db' = [db EXCEPT ![k] = e] /\ db'[k] = e
  BY <1>1 DEF RecordTrace, Typed
<1>8. /\ cur' = [key |-> k, batch |-> b, force |-> FALSE]
      /\ delta' = [calls |-> NewCalls(d, b), anomalies |-> Cardinality(i),
                   pending |-> Cardinality(Pending(H))]
  BY DEF RecordTrace
<1>9. /\ e.held = H /\ e.inverted = d.inverted + Cardinality(i) /\ e.dropped = d.dropped
      /\ e.state = "active" /\ e.cpu = TRUE
      /\ d.inverted \in Nat /\ d.dropped \in Nat
  BY <1>2 DEF DbState
<1>10. e \in DbState
  <2> DEFINE n == d.inverted + Cardinality(i)
  <2>1. n \in Nat
    <3> HIDE DEF i, d
    <3> QED
      BY <1>2, <1>5 DEF DbState
  <2>2. e = [d EXCEPT !.held = H, !.inverted = n, !.state = "active", !.cpu = TRUE]
    OBVIOUS
  <2> HIDE DEF H, d, n, e
  <2> QED
    BY <1>2, <1>3, <2>1, <2>2 DEF DbState
<1>11. Cardinality(H) = Cardinality(d.held) + NewCalls(d, b) /\ Cardinality(d.held) \in Nat
  <2>1. IsFiniteSet(d.held) /\ Cardinality(d.held) \in Nat
    BY <1>3, FS_Subset, FS_CardinalityType, BatchesAssumption
  <2>2. Cardinality(H) = IF b \in d.held THEN Cardinality(d.held) ELSE Cardinality(d.held) + 1
    BY <2>1, FS_AddElement
  <2> QED
    BY <2>1, <2>2 DEF NewCalls
<1>12. NewCalls(d, b) \in 0..1
  BY DEF NewCalls
<1> HIDE DEF i, H, d
<1>13. CallsEver(e) = CallsEver(d) + NewCalls(d, b) /\ CallsEver(d) \in Nat
  BY <1>9, <1>11, <1>12 DEF CallsEver
<1>14. AnomalyRows(e) = AnomalyRows(d) + Cardinality(i) /\ AnomalyRows(d) \in Nat
  BY <1>5, <1>9 DEF AnomalyRows
<1> HIDE DEF e
<1>15. cur' \in CandidateType /\ cur'.key = k /\ cur'.batch = b
  BY <1>1, <1>8 DEF CandidateType
<1>16. delta' \in [calls : 0..1, anomalies : 0..Cardinality(Batch), pending : 0..Cardinality(Batch)]
  BY <1>5, <1>6, <1>8, <1>12
<1> HIDE DEF k
<1> QED
  BY <1>1, <1>7, <1>8, <1>9, <1>10, <1>13, <1>14, <1>15, <1>16, BoundsAssumption DEF H, d, k

(* What the index transaction of a batch writes is a row. *)
LEMMA RecordIndexKeeps ==
    ASSUME Typed, RecordIndex
    PROVE  LET k == cur.key
               r == index'[k]
           IN  /\ k \in Key /\ index' = [index EXCEPT ![k] = r] /\ r \in Row /\ r # NoRow
               /\ r.state = "active" /\ r.pending = delta.pending
               /\ r.calls = CallsTold(k) + delta.calls
               /\ r.anomalies = AnomaliesTold(k) + delta.anomalies
<1> DEFINE k == cur.key
           r == index'[k]
           old == index[k]
<1>1. k \in Key
  BY DEF RecordIndex, Typed
<1>2. /\ index' = [index EXCEPT ![k] = r]
      /\ r = IF old = NoRow THEN Inserted(delta) ELSE Upserted(old, delta)
      /\ old \in Row \cup {NoRow}
  BY <1>1 DEF RecordIndex, Typed
<1>3. /\ delta.calls \in Nat /\ delta.anomalies \in Nat
      /\ delta.pending \in 0..Cardinality(Batch)
  <2>1. Cardinality(Batch) \in Nat
    BY FS_CardinalityType, BatchesAssumption
  <2> QED
    BY <2>1 DEF Typed, TypeOK
<1> HIDE DEF k, r, old
<1>4. CASE old = NoRow
  <2>1. r = [state |-> "active", calls |-> delta.calls, anomalies |-> delta.anomalies,
             pending |-> delta.pending, cpu |-> TRUE]
    BY <1>2, <1>4 DEF Inserted
  <2>2. r \in Row
    BY <1>3, <2>1 DEF Row
  <2>3. /\ r.state = "active" /\ r.pending = delta.pending
        /\ r.calls = 0 + delta.calls /\ r.anomalies = 0 + delta.anomalies
    BY <1>3, <2>1
  <2> QED
    BY <1>1, <1>2, <1>4, <2>2, <2>3, BoundsAssumption DEF CallsTold, AnomaliesTold, k, r, old
<1>5. CASE old # NoRow
  <2>1. old \in Row
    BY <1>2, <1>5
  <2>2. r = [old EXCEPT !.state = "active", !.calls = old.calls + delta.calls,
                        !.anomalies = old.anomalies + delta.anomalies,
                        !.pending = delta.pending]
    BY <1>2, <1>5 DEF Upserted
  <2>3. r \in Row
    <3> DEFINE c == old.calls + delta.calls
               a == old.anomalies + delta.anomalies
    <3>1. c \in Nat /\ a \in Nat
      BY <1>3, <2>1 DEF Row
    <3> HIDE DEF c, a
    <3>2. r = [old EXCEPT !.state = "active", !.calls = c, !.anomalies = a,
                          !.pending = delta.pending]
      BY <2>2 DEF c, a
    <3> QED
      BY <1>3, <2>1, <3>1, <3>2 DEF Row
  <2>4. /\ r.state = "active" /\ r.pending = delta.pending
        /\ r.calls = old.calls + delta.calls /\ r.anomalies = old.anomalies + delta.anomalies
    BY <2>1, <2>2 DEF Row
  <2> QED
    BY <1>1, <1>2, <1>5, <2>3, <2>4, BoundsAssumption DEF CallsTold, AnomaliesTold, k, r, old
<1> QED
  BY <1>4, <1>5

(* What the index transaction of finalize_trace writes is a row. *)
LEMMA FinalizeIndexKeeps ==
    ASSUME Typed, ClosedHolds, FinalizeIndex
    PROVE  LET k == cur.key
               r == index'[k]
           IN  /\ k \in Key /\ index' = [index EXCEPT ![k] = r] /\ r \in Row /\ r # NoRow
               /\ index[k] \in Row /\ db[k] \in DbState
               /\ r.state = "finalized" /\ r.pending = 0 /\ r.calls = index[k].calls
               /\ r.anomalies = AnomalyRows(db[k]) /\ r.cpu = CpuAvailable(db[k])
<1> DEFINE k == cur.key
           r == index'[k]
           old == index[k]
           d == db[k]
<1>1. k \in Key
  BY DEF FinalizeIndex, Typed
<1>2. old \in Row /\ d \in DbState
  BY <1>1 DEF FinalizeIndex, ClosedHolds, Chosen, Typed
<1>3. /\ index' = [index EXCEPT ![k] = r]
      /\ r = [old EXCEPT !.state = "finalized", !.anomalies = AnomalyRows(d),
                         !.cpu = CpuAvailable(d), !.pending = 0]
  BY <1>1 DEF FinalizeIndex, Finalized, Typed
<1>4. AnomalyRows(d) \in Nat /\ CpuAvailable(d) \in BOOLEAN /\ 0 \in 0..Cardinality(Batch)
  <2>1. Cardinality(Batch) \in Nat
    BY FS_CardinalityType, BatchesAssumption
  <2> QED
    BY <1>2, <2>1 DEF DbState, AnomalyRows, CpuAvailable
<1> HIDE DEF k, r, old, d
<1>5. r \in Row
  BY <1>2, <1>3, <1>4 DEF Row
<1>6. /\ r.state = "finalized" /\ r.pending = 0 /\ r.calls = old.calls
      /\ r.anomalies = AnomalyRows(d) /\ r.cpu = CpuAvailable(d)
  BY <1>2, <1>3 DEF Row
<1> QED
  BY <1>1, <1>2, <1>3, <1>5, <1>6, BoundsAssumption DEF k, r, old, d

(* A failure is counted. *)
LEMMA FailureCounts ==
    ASSUME Typed, NEW what, MayFail(what)
    PROVE  faults' \in 0..MaxFaults /\ faults' # 0 /\ what \in Faults
BY BoundsAssumption DEF Typed, TypeOK, MayFail

(* What the ticks choose. *)
LEMMA TickCandidates ==
    ASSUME Typed
    PROVE  /\ ToFinalize \subseteq CandidateType
           /\ \A c \in ToFinalize : c.key \in Key /\ Chosen(c)
           /\ \A c, d \in ToFinalize : c.key = d.key => c = d
           /\ {Candidate(k, FALSE) : k \in Expired} \subseteq CandidateType
           /\ \A c \in {Candidate(k, FALSE) : k \in Expired} : c.key \in Key /\ c.key \in expired
<1>1. \A k \in Key, f \in BOOLEAN :
        Candidate(k, f) \in CandidateType /\ Candidate(k, f).key = k /\ Candidate(k, f).force = f
  BY DEF Candidate, CandidateType
<1>2. ASSUME NEW c \in ToFinalize
      PROVE  \E k \in IdleActive :
                \/ c = Candidate(k, FALSE) /\ index[k].pending = 0
                \/ c = Candidate(k, TRUE) /\ index[k].pending > 0
  BY DEF ToFinalize
<1>3. ASSUME NEW c \in ToFinalize
      PROVE  c \in CandidateType /\ c.key \in Key /\ Chosen(c)
  <2>1. PICK k \in IdleActive :
            \/ c = Candidate(k, FALSE) /\ index[k].pending = 0
            \/ c = Candidate(k, TRUE) /\ index[k].pending > 0
    BY <1>2
  <2>2. k \in Key /\ index[k] # NoRow /\ index[k].state = "active"
    BY DEF IdleActive
  <2>3. c \in CandidateType /\ c.key = k /\ (~c.force => index[k].pending = 0)
    BY <1>1, <2>1, <2>2
  <2> QED
    BY <2>2, <2>3 DEF Chosen
<1>4. ASSUME NEW c \in ToFinalize, NEW d \in ToFinalize, c.key = d.key PROVE c = d
  <2>1. PICK k \in IdleActive :
            \/ c = Candidate(k, FALSE) /\ index[k].pending = 0
            \/ c = Candidate(k, TRUE) /\ index[k].pending > 0
    BY <1>2
  <2>2. PICK l \in IdleActive :
            \/ d = Candidate(l, FALSE) /\ index[l].pending = 0
            \/ d = Candidate(l, TRUE) /\ index[l].pending > 0
    BY <1>2
  <2>3. k \in Key /\ l \in Key
    BY DEF IdleActive
  <2>4. c.key = k /\ d.key = l
    BY <2>1, <2>2, <2>3 DEF Candidate
  <2>5. ~ (0 > 0)
    OBVIOUS
  <2> QED
    BY <1>4, <2>1, <2>2, <2>4, <2>5
<1>5. ASSUME NEW k \in Expired
      PROVE  /\ Candidate(k, FALSE) \in CandidateType
             /\ Candidate(k, FALSE).key \in Key /\ Candidate(k, FALSE).key \in expired
  BY <1>1, <1>5 DEF Expired, Typed, TypeOK
<1> QED
  BY <1>3, <1>4, <1>5

(* Every step keeps the types, and gives the holder of the mutex a trace. *)
LEMMA TypedStep == IInv /\ Next => Typed'
<1> SUFFICES ASSUME IInv, Next PROVE Typed'
  OBVIOUS
<1>0. Typed /\ ClosedHolds /\ 0 \in 0..MaxFaults
  BY BoundsAssumption DEF IInv
<1> USE DEF Typed, TypeOK
<1>1. ASSUME NEW b \in Batch, RecordTrace(b) PROVE Typed'
  <2> DEFINE k == KeyOf[b]
             e == db'[k]
  <2>1. /\ k \in Key /\ cur'.key = k /\ cur'.batch = b /\ cur' \in CandidateType
        /\ db' = [db EXCEPT ![k] = e] /\ e \in DbState
        /\ delta' \in [calls : 0..1, anomalies : 0..Cardinality(Batch),
                       pending : 0..Cardinality(Batch)]
    BY <1>0, <1>1, RecordTraceKeeps
  <2>2. db' \in [Key -> DbState \cup {NoDb}]
    <3> HIDE DEF e, k
    <3> QED
      BY <1>0, <2>1
  <2> QED
    BY <1>0, <1>1, <2>1, <2>2, BoundsAssumption DEF RecordTrace, files, clock
<1>2. ASSUME NEW b \in Batch, RecordTraceFails(b) PROVE Typed'
  <2>1. KeyOf[b] \in Key /\ Opened(KeyOf[b]) \in DbState
    BY <1>0, BatchesAssumption, OpenedIsDb
  <2> QED
    BY <1>0, <1>2, <2>1, FailureCounts DEF RecordTraceFails, files, clock, mutex
<1>3. ASSUME RecordIndex PROVE Typed'
  <2> DEFINE r == index'[cur.key]
  <2>1. cur.key \in Key /\ index' = [index EXCEPT ![cur.key] = r] /\ r \in Row
    BY <1>0, <1>3, RecordIndexKeeps
  <2>2. index' \in [Key -> Row \cup {NoRow}]
    <3> HIDE DEF r
    <3> QED
      BY <1>0, <2>1
  <2>3. 0 \in 0..Cardinality(Batch)
    BY FoldedSplits
  <2> QED
    BY <1>0, <1>3, <2>1, <2>2, <2>3
    DEF RecordIndex, files, NoCandidate, NoDelta, CandidateType
<1>4. ASSUME RecordIndexFails PROVE Typed'
  <2>1. 0 \in 0..Cardinality(Batch)
    BY FoldedSplits
  <2> QED
    BY <1>0, <1>4, <2>1, FailureCounts
    DEF RecordIndexFails, store, files, clock, NoCandidate, NoDelta, CandidateType
<1>5. ASSUME FinalizeTick PROVE Typed'
  <2>1. ToFinalize \subseteq CandidateType /\ \A c \in ToFinalize : c.key \in Key
    BY <1>0, TickCandidates
  <2> QED
    BY <1>0, <1>5, <2>1 DEF FinalizeTick, store, files, clock, bounds
<1>6. ASSUME NEW c \in todo, FinalizeTrace(c) PROVE Typed'
  <2>1. c.key \in Key /\ Closed(Opened(c.key)) \in DbState /\ c \in CandidateType
    BY <1>0, OpenedIsDb, ClosedKeeps
  <2> QED
    BY <1>0, <1>6, <2>1 DEF FinalizeTrace, files, clock, bounds
<1>7. ASSUME NEW c \in todo, FinalizeTraceFails(c) PROVE Typed'
  <2>1. c.key \in Key /\ Opened(c.key) \in DbState
    BY <1>0, OpenedIsDb
  <2> QED
    BY <1>0, <1>7, <2>1, FailureCounts DEF FinalizeTraceFails, files, clock
<1>8. ASSUME FinalizeIndex PROVE Typed'
  <2> DEFINE r == index'[cur.key]
  <2>1. cur.key \in Key /\ index' = [index EXCEPT ![cur.key] = r] /\ r \in Row
    BY <1>0, <1>8, FinalizeIndexKeeps
  <2>2. index' \in [Key -> Row \cup {NoRow}]
    <3> HIDE DEF r
    <3> QED
      BY <1>0, <2>1
  <2> QED
    BY <1>0, <1>8, <2>1, <2>2
    DEF FinalizeIndex, files, clock, bounds, NoCandidate, CandidateType
<1>9. ASSUME RemoveRaw PROVE Typed'
  <2>1. ASSUME RemoveRawFiles PROVE Typed'
    BY <1>0, <2>1 DEF RemoveRawFiles, FilesOf, store, clock, bounds
  <2>2. ASSUME RemoveRawDir PROVE Typed'
    BY <1>0, <2>2 DEF RemoveRawDir, store, clock, bounds, NoCandidate, CandidateType
  <2>3. ASSUME RawDirNotEmpty PROVE Typed'
    BY <1>0, <2>3 DEF RawDirNotEmpty, store, files, clock, bounds, NoCandidate, CandidateType
  <2> QED
    BY <1>9, <2>1, <2>2, <2>3 DEF RemoveRaw
<1>10. ASSUME FinalizeFails PROVE Typed'
  BY <1>0, <1>10, FailureCounts
  DEF FinalizeFails, store, files, clock, NoCandidate, CandidateType
<1>11. ASSUME RetentionTick PROVE Typed'
  <2>1. /\ {Candidate(k, FALSE) : k \in Expired} \subseteq CandidateType
        /\ \A c \in {Candidate(k, FALSE) : k \in Expired} : c.key \in Key
    BY <1>0, TickCandidates
  <2> QED
    BY <1>0, <1>11, <2>1 DEF RetentionTick, store, files, clock, bounds
<1>12. ASSUME NEW c \in todo, DeleteDb(c) PROVE Typed'
  <2>1. c.key \in Key /\ c \in CandidateType
    BY <1>0
  <2> QED
    BY <1>0, <1>12, <2>1 DEF DeleteDb, Evicted, files, clock, bounds
<1>13. ASSUME NEW c \in todo, DeleteDbFails(c) PROVE Typed'
  BY <1>0, <1>13, FailureCounts DEF DeleteDbFails, Evicted, files, clock
<1>14. ASSUME DeleteRow PROVE Typed'
  BY <1>0, <1>14 DEF DeleteRow, files, bounds, NoCandidate, CandidateType
<1>15. ASSUME DeleteFails PROVE Typed'
  BY <1>0, <1>15, FailureCounts
  DEF DeleteFails, store, files, clock, NoCandidate, CandidateType
<1>16. ASSUME EndTick PROVE Typed'
  BY <1>0, <1>16 DEF EndTick, store, files, clock, bounds
<1>17. ASSUME Crash PROVE Typed'
  <2>1. 0 \in 0..Cardinality(Batch)
    BY FoldedSplits
  <2> QED
    BY <1>0, <1>17, <2>1, FailureCounts
    DEF Crash, files, clock, NoCandidate, NoDelta, CandidateType
<1>18. ASSUME NEW k \in Key, GrowOlder(k) \/ Expire(k) PROVE Typed'
  BY <1>0, <1>18 DEF GrowOlder, Expire, store, files, mutex, bounds
<1>19. ASSUME NEW b \in Batch, StoreRaw(b) PROVE Typed'
  <2> DEFINE k == KeyOf[b]
             n == NextNumber(raw, k)
  <2>1. k \in Key
    BY BatchesAssumption
  <2>2. n \in 1..BatchMax
    <3>1. \A f \in raw : f.num \in 1..BatchMax
      BY <1>0
    <3>2. n \in Nat \ {0}
      BY <3>1, NextNumberIsFree
    <3> QED
      BY <1>19, <3>2, RawAssumption DEF StoreRaw
  <2>3. raw' = raw \cup {[key |-> k, num |-> n, body |-> b]} /\ rawDirs' = rawDirs \cup {k}
    BY <1>19 DEF StoreRaw
  <2> HIDE DEF k, n
  <2>4. raw' \subseteq [key : Key, num : 1..BatchMax, body : Batch] /\ rawDirs' \subseteq Key
    BY <1>0, <2>1, <2>2, <2>3
  <2>5. stored' \in 0..MaxStored
    BY <1>0, <1>19, BoundsAssumption DEF StoreRaw
  <2> QED
    BY <1>0, <1>19, <2>4, <2>5 DEF StoreRaw, store, clock, mutex
<1> QED
  BY <1>1, <1>2, <1>3, <1>4, <1>5, <1>6, <1>7, <1>8, <1>9, <1>10, <1>11, <1>12, <1>13,
     <1>14, <1>15, <1>16, <1>17, <1>18, <1>19
  DEF Next, Record, Loops, Finalize, Retain, Time

-----------------------------------------------------------------------------
(* The steps that write no database, no row and no cutoff, and leave alone *)
(* what is between two commits unless they fail.                           *)
Quiet ==
    /\ UNCHANGED <<db, index, expired, reported>>
    /\ conns' \subseteq conns
    /\ \/ UNCHANGED <<pc, cur, delta, faults>>
       \/ /\ pc' \notin {"recorded", "closed"}
          /\ faults' # 0 \/ (faults' = faults /\ pc \notin {"recorded", "closed"})

(* What each step writes. *)
LEMMA StepKinds ==
    ASSUME Typed, [Next]_vars
    PROVE  \/ \E b \in Batch : RecordTrace(b)
           \/ \E b \in Batch : RecordTraceFails(b)
           \/ RecordIndex
           \/ \E c \in todo : FinalizeTrace(c)
           \/ \E c \in todo : FinalizeTraceFails(c)
           \/ FinalizeIndex
           \/ \E c \in todo : DeleteDb(c)
           \/ DeleteRow
           \/ \E k \in Key : Expire(k)
           \/ Quiet
<1>1. CASE UNCHANGED vars
  BY <1>1 DEF vars, store, clock, mutex, bounds, Quiet
<1>2. ASSUME RecordIndexFails \/ FinalizeFails \/ DeleteFails PROVE Quiet
  BY <1>2, FailureCounts DEF RecordIndexFails, FinalizeFails, DeleteFails, Quiet, store, clock
<1>3. ASSUME Crash PROVE Quiet
  BY <1>3, FailureCounts DEF Crash, Quiet, clock
<1>4. ASSUME NEW c \in todo, DeleteDbFails(c) PROVE Quiet
  BY <1>4, FailureCounts DEF DeleteDbFails, Evicted, Quiet, clock
<1>5. ASSUME FinalizeTick \/ RetentionTick PROVE Quiet
  BY <1>5 DEF FinalizeTick, RetentionTick, Quiet, store, clock, bounds
<1>6. ASSUME RemoveRaw PROVE Quiet
  BY <1>6 DEF RemoveRaw, RemoveRawFiles, RemoveRawDir, RawDirNotEmpty, Quiet, store, clock, bounds
<1>7. ASSUME EndTick PROVE Quiet
  BY <1>7 DEF EndTick, Quiet, store, clock, bounds
<1>8. ASSUME NEW k \in Key, GrowOlder(k) PROVE Quiet
  BY <1>8 DEF GrowOlder, Quiet, store, mutex, bounds
<1>9. ASSUME NEW b \in Batch, StoreRaw(b) PROVE Quiet
  BY <1>9 DEF StoreRaw, Quiet, store, clock, mutex
<1> QED
  BY <1>1, <1>2, <1>3, <1>4, <1>5, <1>6, <1>7, <1>8, <1>9
  DEF Next, Record, Loops, Finalize, Retain, Time

(* A failed transaction leaves the database as it was, or just created. *)
LEMMA FailedTransaction ==
    ASSUME Typed, NEW k \in Key, db' = [db EXCEPT ![k] = Opened(k)]
    PROVE  \A q \in Key : db'[q] = db[q] \/ (db[q] = NoDb /\ db'[q] = FreshDb /\ q = k)
BY DEF Typed, Opened

(* What finalize_trace does to the database of its candidate. *)
LEMMA FinalizeTraceKeeps ==
    ASSUME Typed, TickHolds, NEW c \in todo, FinalizeTrace(c)
    PROVE  LET k == c.key
               d == Opened(k)
               e == db'[k]
           IN  /\ k \in Key /\ Chosen(c) /\ d \in DbState /\ index[k] \in Row
               /\ db' = [db EXCEPT ![k] = e] /\ e = Closed(d) /\ e \in DbState /\ e # NoDb
               /\ Pending(e.held) = {} /\ CallsEver(e) = CallsEver(d)
               /\ e.state # "active" /\ (e.state = "none" <=> d.state = "none")
               /\ e.state = "finalized" => e.cpu = CpuAvailable(e)
               /\ Pending(d.held) = {} => e.dropped = d.dropped
<1> DEFINE k == c.key
           d == Opened(k)
           e == db'[k]
<1>1. k \in Key /\ d \in DbState
  BY OpenedIsDb DEF Typed
<1>2. Chosen(c)
  BY DEF FinalizeTrace, TickHolds, InFinalize
<1>3. db' = [db EXCEPT ![k] = e] /\ e = Closed(d)
  BY <1>1 DEF FinalizeTrace, Typed
<1>4. index[k] \in Row
  BY <1>1, <1>2 DEF Typed, Chosen
<1> HIDE DEF e, d, k
<1> QED
  BY <1>1, <1>2, <1>3, <1>4, ClosedKeeps, BoundsAssumption DEF e, d, k

-----------------------------------------------------------------------------
(* What the loops have chosen stays as it was chosen. *)
LEMMA TickStep == IInv /\ [Next]_vars => TickHolds'
<1> SUFFICES ASSUME IInv, [Next]_vars PROVE TickHolds'
  OBVIOUS
<1>0. Typed /\ TickHolds
  BY DEF IInv
<1> USE DEF TickHolds, InFinalize
<1>1. CASE UNCHANGED vars
  BY <1>0, <1>1 DEF vars, store, mutex, Chosen
<1>2. CASE FinalizeTick
  <2>1. /\ \A c \in ToFinalize : Chosen(c)
        /\ \A c, d \in ToFinalize : c.key = d.key => c = d
    BY <1>0, TickCandidates
  <2> QED
    BY <1>2, <2>1 DEF FinalizeTick, store, Chosen
<1>3. ASSUME NEW c \in todo, FinalizeTrace(c) PROVE TickHolds'
  BY <1>0, <1>3 DEF FinalizeTrace, Chosen
<1>4. ASSUME NEW c \in todo, FinalizeTraceFails(c) PROVE TickHolds'
  BY <1>0, <1>4 DEF FinalizeTraceFails, Chosen
<1>5. CASE FinalizeIndex
  BY <1>0, <1>5 DEF FinalizeIndex, Chosen
<1>6. CASE RemoveRaw
  BY <1>0, <1>6 DEF RemoveRaw, RemoveRawFiles, RemoveRawDir, RawDirNotEmpty, store, Chosen
<1>7. CASE FinalizeFails
  BY <1>0, <1>7 DEF FinalizeFails, store, Chosen
<1>8. ASSUME NEW b \in Batch, StoreRaw(b) PROVE TickHolds'
  BY <1>0, <1>8 DEF StoreRaw, store, mutex, Chosen
<1>9. ASSUME \/ \E b \in Batch : RecordTrace(b) \/ RecordTraceFails(b)
             \/ RecordIndex \/ RecordIndexFails \/ RetentionTick
             \/ \E c \in todo : DeleteDb(c) \/ DeleteDbFails(c)
             \/ DeleteRow \/ DeleteFails \/ EndTick \/ Crash
             \/ \E k \in Key : GrowOlder(k) \/ Expire(k)
      PROVE  pc' \notin InFinalize
  BY <1>9 DEF RecordTrace, RecordTraceFails, RecordIndex, RecordIndexFails, RetentionTick, DeleteDb,
              DeleteDbFails, DeleteRow, DeleteFails, EndTick, Crash, GrowOlder, Expire, mutex
<1> QED
  BY <1>1, <1>2, <1>3, <1>4, <1>5, <1>6, <1>7, <1>8, <1>9
  DEF Next, Record, Loops, Finalize, Retain, Time

(* The sweeper's candidates are expired, and stay so. *)
LEMMA SweepStep == IInv /\ [Next]_vars => SweepHolds'
<1> SUFFICES ASSUME IInv, [Next]_vars PROVE SweepHolds'
  OBVIOUS
<1>0. Typed /\ SweepHolds
  BY DEF IInv
<1> USE DEF SweepHolds, InSweep, InRemoval
<1>1. CASE UNCHANGED vars
  BY <1>0, <1>1 DEF vars, store, clock, mutex
<1>2. CASE RetentionTick
  <2>1. \A c \in {Candidate(k, FALSE) : k \in Expired} : c.key \in expired
    BY <1>0, TickCandidates
  <2> QED
    BY <1>2, <2>1 DEF RetentionTick, clock
<1>3. ASSUME NEW c \in todo, DeleteDb(c) PROVE SweepHolds'
  BY <1>0, <1>3 DEF DeleteDb, clock, Typed
<1>4. ASSUME NEW c \in todo, DeleteDbFails(c) PROVE SweepHolds'
  BY <1>0, <1>4 DEF DeleteDbFails, clock
<1>5. CASE RemoveRaw
  BY <1>0, <1>5 DEF RemoveRaw, RemoveRawFiles, RemoveRawDir, RawDirNotEmpty, store, clock
<1>6. CASE DeleteRow \/ DeleteFails
  BY <1>0, <1>6 DEF DeleteRow, DeleteFails, clock
<1>7. ASSUME NEW b \in Batch, StoreRaw(b) PROVE SweepHolds'
  BY <1>0, <1>7 DEF StoreRaw, store, clock, mutex
<1>8. ASSUME \/ \E b \in Batch : RecordTrace(b) \/ RecordTraceFails(b)
             \/ RecordIndex \/ RecordIndexFails \/ FinalizeTick
             \/ \E c \in todo : FinalizeTrace(c) \/ FinalizeTraceFails(c)
             \/ FinalizeIndex \/ FinalizeFails \/ EndTick \/ Crash
             \/ \E k \in Key : GrowOlder(k) \/ Expire(k)
      PROVE  pc' \notin InSweep
  BY <1>8 DEF RecordTrace, RecordTraceFails, RecordIndex, RecordIndexFails, FinalizeTick,
              FinalizeTrace, FinalizeTraceFails, FinalizeIndex, FinalizeFails, EndTick, Crash,
              GrowOlder, Expire, mutex
<1> QED
  BY <1>1, <1>2, <1>3, <1>4, <1>5, <1>6, <1>7, <1>8
  DEF Next, Record, Loops, Finalize, Retain, Time

(* A closed database is as finalize_trace left it. *)
LEMMA ClosedStep == IInv /\ [Next]_vars => ClosedHolds'
<1> SUFFICES ASSUME IInv, [Next]_vars PROVE ClosedHolds'
  OBVIOUS
<1>0. Typed /\ TickHolds /\ ClosedHolds
  BY DEF IInv
<1>1. ASSUME NEW c \in todo, FinalizeTrace(c) PROVE ClosedHolds'
  <2>1. cur' = c /\ index' = index
    BY <1>1 DEF FinalizeTrace
  <2>2. /\ Chosen(c) /\ db'[c.key] # NoDb /\ Pending(db'[c.key].held) = {}
        /\ db'[c.key].state # "active"
        /\ db'[c.key].state = "finalized" => db'[c.key].cpu = CpuAvailable(db'[c.key])
    BY <1>0, <1>1, FinalizeTraceKeeps
  <2> QED
    BY <2>1, <2>2 DEF ClosedHolds, Chosen
<1>2. CASE Quiet
  BY <1>0, <1>2 DEF Quiet, ClosedHolds, Chosen
<1>3. ASSUME \/ \E b \in Batch : RecordTrace(b) \/ RecordTraceFails(b)
             \/ RecordIndex \/ FinalizeIndex \/ DeleteRow
             \/ \E c \in todo : FinalizeTraceFails(c) \/ DeleteDb(c)
             \/ \E k \in Key : Expire(k)
      PROVE  pc' # "closed"
  BY <1>3 DEF RecordTrace, RecordTraceFails, RecordIndex, FinalizeIndex, DeleteRow,
              FinalizeTraceFails, DeleteDb, Expire, mutex
<1> QED
  BY <1>0, <1>1, <1>2, <1>3, StepKinds DEF ClosedHolds

(* A connection is opened on a file, and dropped before it is unlinked. *)
LEMMA ConnsStep == IInv /\ [Next]_vars => ConnsHaveFiles'
<1> SUFFICES ASSUME IInv, [Next]_vars PROVE ConnsHaveFiles'
  OBVIOUS
<1>0. Typed /\ TickHolds /\ ConnsHaveFiles /\ conns \subseteq Key
  BY DEF IInv, Typed, TypeOK
<1> USE DEF ConnsHaveFiles
<1>1. ASSUME NEW b \in Batch, RecordTrace(b) PROVE ConnsHaveFiles'
  <2>1. LET k == KeyOf[b] IN k \in Key /\ db' = [db EXCEPT ![k] = db'[k]] /\ db'[k] # NoDb
    BY <1>0, <1>1, RecordTraceKeeps
  <2>2. conns' = conns \cup {KeyOf[b]}
    BY <1>1 DEF RecordTrace
  <2> QED
    BY <1>0, <2>1, <2>2 DEF Typed
<1>2. ASSUME NEW k \in Key, db' = [db EXCEPT ![k] = Opened(k)], conns' = conns \cup {k}
      PROVE  ConnsHaveFiles'
  BY <1>0, <1>2, OpenedIsDb DEF Typed
<1>3. ASSUME NEW b \in Batch, RecordTraceFails(b) PROVE ConnsHaveFiles'
  BY <1>2, <1>3, BatchesAssumption DEF RecordTraceFails
<1>4. ASSUME NEW c \in todo, FinalizeTraceFails(c) PROVE ConnsHaveFiles'
  BY <1>0, <1>2, <1>4 DEF FinalizeTraceFails, Typed
<1>5. ASSUME NEW c \in todo, FinalizeTrace(c) PROVE ConnsHaveFiles'
  <2>1. LET k == c.key IN k \in Key /\ db' = [db EXCEPT ![k] = db'[k]] /\ db'[k] # NoDb
    BY <1>0, <1>5, FinalizeTraceKeeps
  <2>2. conns' = conns \cup {c.key}
    BY <1>5 DEF FinalizeTrace
  <2> QED
    BY <1>0, <2>1, <2>2 DEF Typed
<1>6. ASSUME NEW c \in todo, DeleteDb(c) PROVE ConnsHaveFiles'
  BY <1>0, <1>6 DEF DeleteDb, Evicted, Typed
<1>7. CASE RecordIndex \/ FinalizeIndex \/ DeleteRow \/ (\E k \in Key : Expire(k)) \/ Quiet
  BY <1>0, <1>7 DEF RecordIndex, FinalizeIndex, DeleteRow, Expire, Quiet, store
<1> QED
  BY <1>0, <1>1, <1>3, <1>4, <1>5, <1>6, <1>7, StepKinds

(* Both commits of a finalize agree; every other step leaves a trace alone *)
(* or active in one of the databases.                                      *)
LEMMA FinalizedStep == IInv /\ [Next]_vars => FinalizedIsReconciled'
<1> SUFFICES ASSUME IInv, [Next]_vars PROVE FinalizedIsReconciled'
  OBVIOUS
<1>0. Typed /\ TickHolds /\ ClosedHolds /\ FinalizedIsReconciled
  BY DEF IInv
<1> USE DEF FinalizedIsReconciled, HasBoth
<1>1. ASSUME NEW b \in Batch, RecordTrace(b) PROVE FinalizedIsReconciled'
  <2>1. LET k == KeyOf[b]
        IN  k \in Key /\ db' = [db EXCEPT ![k] = db'[k]] /\ db'[k].state = "active"
    BY <1>0, <1>1, RecordTraceKeeps
  <2>2. index' = index
    BY <1>1 DEF RecordTrace
  <2> QED
    BY <1>0, <2>1, <2>2 DEF Typed
<1>2. ASSUME NEW k \in Key, db' = [db EXCEPT ![k] = Opened(k)], index' = index
      PROVE  FinalizedIsReconciled'
  <2>1. \A q \in Key : db'[q] = db[q] \/ db'[q] = FreshDb
    BY <1>0, <1>2, FailedTransaction
  <2>2. FreshDb.state # "finalized"
    BY DEF FreshDb
  <2> QED
    BY <1>0, <1>2, <2>1, <2>2
<1>3. ASSUME NEW b \in Batch, RecordTraceFails(b) PROVE FinalizedIsReconciled'
  BY <1>2, <1>3, BatchesAssumption DEF RecordTraceFails
<1>4. ASSUME NEW c \in todo, FinalizeTraceFails(c) PROVE FinalizedIsReconciled'
  BY <1>0, <1>2, <1>4 DEF FinalizeTraceFails, Typed
<1>5. CASE RecordIndex
  <2>1. LET k == cur.key
        IN  k \in Key /\ index' = [index EXCEPT ![k] = index'[k]] /\ index'[k].state = "active"
    BY <1>0, <1>5, RecordIndexKeeps
  <2>2. db' = db
    BY <1>5 DEF RecordIndex
  <2> QED
    BY <1>0, <2>1, <2>2 DEF Typed
<1>6. ASSUME NEW c \in todo, FinalizeTrace(c) PROVE FinalizedIsReconciled'
  <2>1. LET k == c.key
        IN  k \in Key /\ db' = [db EXCEPT ![k] = db'[k]] /\ index[k].state = "active"
    BY <1>0, <1>6, FinalizeTraceKeeps DEF Chosen
  <2>2. index' = index
    BY <1>6 DEF FinalizeTrace
  <2> QED
    BY <1>0, <2>1, <2>2 DEF Typed
<1>7. CASE FinalizeIndex
  <2>1. LET k == cur.key
            r == index'[k]
        IN  /\ k \in Key /\ index' = [index EXCEPT ![k] = r]
            /\ r.pending = 0 /\ r.anomalies = AnomalyRows(db[k]) /\ r.cpu = CpuAvailable(db[k])
    BY <1>0, <1>7, FinalizeIndexKeeps
  <2>2. /\ db' = db /\ Pending(db[cur.key].held) = {}
        /\ db[cur.key].state = "finalized" => db[cur.key].cpu = CpuAvailable(db[cur.key])
    BY <1>0, <1>7 DEF FinalizeIndex, ClosedHolds
  <2> QED
    BY <1>0, <2>1, <2>2 DEF Typed
<1>8. ASSUME NEW c \in todo, DeleteDb(c) PROVE FinalizedIsReconciled'
  BY <1>0, <1>8 DEF DeleteDb, Typed
<1>9. CASE DeleteRow
  BY <1>0, <1>9 DEF DeleteRow, Typed
<1>10. CASE (\E k \in Key : Expire(k)) \/ Quiet
  BY <1>0, <1>10 DEF Expire, Quiet, store
<1> QED
  BY <1>0, <1>1, <1>3, <1>4, <1>5, <1>6, <1>7, <1>8, <1>9, <1>10, StepKinds

(* The calls the index was told of are calls of the trace. *)
LEMMA ToldAreCalls ==
    ASSUME IInv, NEW k \in Key \ expired
    PROVE  /\ CallsTold(k) <= CallsEver(Opened(k))
           /\ CallsTold(k) \in Nat /\ CallsEver(Opened(k)) \in Nat
<1>1. Opened(k) \in DbState /\ (db[k] # NoDb => Opened(k) = db[k])
  BY OpenedIsDb DEF IInv
<1>2. CallsEver(Opened(k)) \in Nat
  BY <1>1, ClosedKeeps
<1>3. CASE index[k] = NoRow
  BY <1>2, <1>3 DEF CallsTold
<1>4. CASE index[k] # NoRow
  <2>1. db[k] # NoDb /\ index[k].calls <= CallsEver(db[k]) /\ index[k].calls \in Nat
    BY <1>4 DEF IInv, IndexNeverOvercounts, Typed, Row
  <2> QED
    BY <1>1, <1>2, <1>4, <2>1 DEF CallsTold
<1> QED
  BY <1>3, <1>4

(* The per-trace commit comes first, so the index is never ahead. *)
LEMMA OvercountStep == IInv /\ [Next]_vars => IndexNeverOvercounts'
<1> SUFFICES ASSUME IInv, [Next]_vars PROVE IndexNeverOvercounts'
  OBVIOUS
<1>0. /\ Typed /\ TickHolds /\ ClosedHolds /\ SweepHolds /\ RecordedHolds
      /\ IndexNeverOvercounts
  BY DEF IInv
<1> USE DEF IndexNeverOvercounts
<1>1. ASSUME NEW b \in Batch, RecordTrace(b) PROVE IndexNeverOvercounts'
  <2> DEFINE k == KeyOf[b]
             e == db'[k]
  <2>1. /\ k \in Key /\ db' = [db EXCEPT ![k] = e] /\ e # NoDb
        /\ CallsEver(e) = CallsEver(Opened(k)) + delta'.calls /\ delta'.calls \in Nat
    BY <1>0, <1>1, RecordTraceKeeps
  <2>2. index' = index /\ expired' = expired
    BY <1>1 DEF RecordTrace, clock
  <2>3. k \notin expired /\ index[k] # NoRow => index[k].calls <= CallsEver(e)
    <3> SUFFICES ASSUME k \notin expired, index[k] # NoRow PROVE index[k].calls <= CallsEver(e)
      OBVIOUS
    <3>1. /\ CallsTold(k) <= CallsEver(Opened(k))
          /\ CallsTold(k) \in Nat /\ CallsEver(Opened(k)) \in Nat
      BY <2>1, ToldAreCalls
    <3>2. CallsTold(k) = index[k].calls
      BY DEF CallsTold
    <3> HIDE DEF k, e
    <3> QED
      BY <2>1, <3>1, <3>2
  <2> HIDE DEF k, e
  <2> QED
    BY <1>0, <2>1, <2>2, <2>3 DEF Typed
<1>2. ASSUME NEW k \in Key, db' = [db EXCEPT ![k] = Opened(k)], index' = index, expired' = expired
      PROVE  IndexNeverOvercounts'
  <2>1. \A q \in Key : db'[q] = db[q] \/ db[q] = NoDb
    BY <1>0, <1>2, FailedTransaction
  <2> QED
    BY <1>0, <1>2, <2>1
<1>3. ASSUME NEW b \in Batch, RecordTraceFails(b) PROVE IndexNeverOvercounts'
  BY <1>2, <1>3, BatchesAssumption DEF RecordTraceFails, clock
<1>4. ASSUME NEW c \in todo, FinalizeTraceFails(c) PROVE IndexNeverOvercounts'
  BY <1>0, <1>2, <1>4 DEF FinalizeTraceFails, Typed, clock
<1>5. CASE RecordIndex
  <2>1. LET k == cur.key
            r == index'[k]
        IN  k \in Key /\ index' = [index EXCEPT ![k] = r] /\ r.calls = CallsTold(k) + delta.calls
    BY <1>0, <1>5, RecordIndexKeeps
  <2>2. /\ db' = db /\ expired' = expired /\ db[cur.key] # NoDb
        /\ cur.key \notin expired => CallsTold(cur.key) + delta.calls <= CallsEver(db[cur.key])
    BY <1>0, <1>5 DEF RecordIndex, RecordedHolds
  <2> QED
    BY <1>0, <2>1, <2>2 DEF Typed
<1>6. ASSUME NEW c \in todo, FinalizeTrace(c) PROVE IndexNeverOvercounts'
  <2> DEFINE k == c.key
             e == db'[k]
  <2>1. /\ k \in Key /\ db' = [db EXCEPT ![k] = e] /\ e # NoDb
        /\ CallsEver(e) = CallsEver(Opened(k)) /\ index[k] # NoRow
    BY <1>0, <1>6, FinalizeTraceKeeps DEF Chosen
  <2>2. index' = index /\ expired' = expired
    BY <1>6 DEF FinalizeTrace, clock
  <2>3. k \notin expired => index[k].calls <= CallsEver(e)
    BY <2>1, ToldAreCalls DEF CallsTold
  <2> HIDE DEF k, e
  <2> QED
    BY <1>0, <2>1, <2>2, <2>3 DEF Typed
<1>7. CASE FinalizeIndex
  <2>1. LET k == cur.key
            r == index'[k]
        IN  k \in Key /\ index' = [index EXCEPT ![k] = r] /\ r.calls = index[k].calls
            /\ index[k] # NoRow
    BY <1>0, <1>7, FinalizeIndexKeeps, BoundsAssumption
  <2>2. db' = db /\ expired' = expired
    BY <1>7 DEF FinalizeIndex, clock
  <2> QED
    BY <1>0, <2>1, <2>2 DEF Typed
<1>8. ASSUME NEW c \in todo, DeleteDb(c) PROVE IndexNeverOvercounts'
  <2>1. c.key \in expired
    BY <1>0, <1>8 DEF DeleteDb, SweepHolds, InSweep
  <2> QED
    BY <1>0, <1>8, <2>1 DEF DeleteDb, Typed, clock
<1>9. CASE DeleteRow
  BY <1>0, <1>9 DEF DeleteRow, Typed
<1>10. CASE (\E k \in Key : Expire(k)) \/ Quiet
  BY <1>0, <1>10 DEF Expire, Quiet, store
<1> QED
  BY <1>0, <1>1, <1>3, <1>4, <1>5, <1>6, <1>7, <1>8, <1>9, <1>10, StepKinds

(* Steps after which the mutex is not held between the two commits of     *)
(* record_batch, or of finalize_trace.                                    *)
LEMMA NotBetween ==
    ASSUME Typed,
           \/ \E b \in Batch : RecordTraceFails(b)
           \/ RecordIndex \/ FinalizeIndex \/ DeleteRow
           \/ \E c \in todo : FinalizeTraceFails(c) \/ DeleteDb(c)
           \/ \E k \in Key : Expire(k)
    PROVE  pc' \notin {"recorded", "closed"}
BY DEF RecordTraceFails, RecordIndex, FinalizeIndex, DeleteRow, FinalizeTraceFails, DeleteDb,
       Expire, mutex

(* The index owes exactly the delta, or the anomalies of the batch. *)
LEMMA RecordedStep == IInv /\ [Next]_vars => RecordedHolds'
<1> SUFFICES ASSUME IInv, [Next]_vars PROVE RecordedHolds'
  OBVIOUS
<1>0. Typed /\ RecordedHolds
  BY DEF IInv
<1>1. ASSUME NEW b \in Batch, RecordTrace(b) PROVE RecordedHolds'
  <2> DEFINE k == KeyOf[b]
             e == db'[k]
  <2>1. /\ k \in Key /\ cur'.key = k /\ e # NoDb /\ e.state = "active"
        /\ CallsEver(e) = CallsEver(Opened(k)) + delta'.calls /\ delta'.calls \in Nat
    BY <1>0, <1>1, RecordTraceKeeps
  <2>2. index' = index /\ expired' = expired
    BY <1>1 DEF RecordTrace, clock
  <2>3. k \notin expired => CallsTold(k) + delta'.calls <= CallsEver(e)
    <3> SUFFICES ASSUME k \notin expired PROVE CallsTold(k) + delta'.calls <= CallsEver(e)
      OBVIOUS
    <3>1. /\ CallsTold(k) <= CallsEver(Opened(k))
          /\ CallsTold(k) \in Nat /\ CallsEver(Opened(k)) \in Nat
      BY <2>1, ToldAreCalls
    <3> HIDE DEF k, e
    <3> QED
      BY <2>1, <3>1
  <2>4. CallsTold(k)' = CallsTold(k)
    BY <2>2 DEF CallsTold
  <2> HIDE DEF k
  <2> QED
    BY <2>1, <2>2, <2>3, <2>4 DEF RecordedHolds, CallsTold
<1>2. CASE Quiet
  BY <1>0, <1>2 DEF Quiet, RecordedHolds, CallsTold
<1>3. ASSUME NEW c \in todo, FinalizeTrace(c) PROVE pc' # "recorded"
  BY <1>3 DEF FinalizeTrace
<1> QED
  BY <1>0, <1>1, <1>2, <1>3, NotBetween, StepKinds DEF RecordedHolds

(* Without a failure, the rows and the databases of two commits agree. *)
LEMMA IdleStep == IInv /\ [Next]_vars => AgreesWhileIdle'
<1> SUFFICES ASSUME IInv, [Next]_vars, (faults = 0)', NEW k \in Key, k \notin expired',
                    (pc \notin {"recorded", "closed"} \/ k # cur.key)'
             PROVE  Agrees(k)'
  BY DEF AgreesWhileIdle
<1>0. /\ Typed /\ TickHolds /\ ClosedHolds /\ SweepHolds /\ RecordedHolds
      /\ AgreesWhileIdle /\ AgreesOnceRecorded /\ AgreesOnceClosed
  BY DEF IInv
<1>a. ASSUME Agrees(k), db'[k] = db[k], index'[k] = index[k] PROVE Agrees(k)'
  BY <1>a DEF Agrees, HasBoth
<1>1. ASSUME NEW b \in Batch, RecordTrace(b) PROVE Agrees(k)'
  <2>1. /\ KeyOf[b] \in Key /\ cur'.key = KeyOf[b]
        /\ db' = [db EXCEPT ![KeyOf[b]] = db'[KeyOf[b]]]
    BY <1>0, <1>1, RecordTraceKeeps
  <2>2. pc = "free" /\ pc' = "recorded" /\ index' = index /\ faults' = faults /\ expired' = expired
    BY <1>1 DEF RecordTrace, clock
  <2>3. Agrees(k)
    BY <1>0, <2>2 DEF AgreesWhileIdle
  <2> QED
    BY <1>0, <1>a, <2>1, <2>2, <2>3 DEF Typed
<1>2. ASSUME (\E b \in Batch : RecordTraceFails(b)) \/ (\E c \in todo : FinalizeTraceFails(c))
      PROVE  faults' # 0
  BY <1>0, <1>2, FailureCounts DEF RecordTraceFails, FinalizeTraceFails
<1>3. CASE RecordIndex
  <2> DEFINE q == cur.key
             r == index'[q]
  <2>1. /\ q \in Key /\ index' = [index EXCEPT ![q] = r] /\ r \in Row /\ r # NoRow
        /\ r.state = "active" /\ r.pending = delta.pending
        /\ r.calls = CallsTold(q) + delta.calls
        /\ r.anomalies = AnomaliesTold(q) + delta.anomalies
    BY <1>0, <1>3, RecordIndexKeeps
  <2>2. pc = "recorded" /\ db' = db /\ faults' = faults /\ expired' = expired
    BY <1>3 DEF RecordIndex
  <2>3. CASE k # q
    BY <1>0, <1>a, <2>1, <2>2, <2>3 DEF AgreesWhileIdle, Typed
  <2>4. CASE k = q
    <3>1. /\ db[k] # NoDb /\ db[k].state = "active"
          /\ delta.pending = Cardinality(Pending(db[k].held))
          /\ CallsTold(k) + delta.calls = CallsEver(db[k])
          /\ AnomaliesTold(k) + delta.anomalies = AnomalyRows(db[k])
      BY <1>0, <2>2, <2>4 DEF RecordedHolds, AgreesOnceRecorded
    <3> QED
      BY <2>1, <2>2, <2>4, <3>1 DEF Agrees, HasBoth
  <2> QED
    BY <2>3, <2>4
<1>4. ASSUME NEW c \in todo, FinalizeTrace(c) PROVE Agrees(k)'
  <2>1. c.key \in Key /\ db' = [db EXCEPT ![c.key] = db'[c.key]]
    BY <1>0, <1>4, FinalizeTraceKeeps
  <2>2. /\ pc = "finalizing" /\ pc' = "closed" /\ cur' = c /\ index' = index
        /\ faults' = faults /\ expired' = expired
    BY <1>4 DEF FinalizeTrace, clock, bounds
  <2>3. Agrees(k)
    BY <1>0, <2>2 DEF AgreesWhileIdle
  <2> QED
    BY <1>0, <1>a, <2>1, <2>2, <2>3 DEF Typed
<1>5. CASE FinalizeIndex
  <2> DEFINE q == cur.key
             r == index'[q]
  <2>1. /\ q \in Key /\ index' = [index EXCEPT ![q] = r] /\ r # NoRow
        /\ r.state = "finalized" /\ r.pending = 0 /\ r.calls = index[q].calls
        /\ r.anomalies = AnomalyRows(db[q])
    BY <1>0, <1>5, FinalizeIndexKeeps
  <2>2. pc = "closed" /\ db' = db /\ faults' = faults /\ expired' = expired
    BY <1>5 DEF FinalizeIndex, clock, bounds
  <2>3. CASE k # q
    BY <1>0, <1>a, <2>1, <2>2, <2>3 DEF AgreesWhileIdle, Typed
  <2>4. CASE k = q
    <3>1. db[k] # NoDb /\ Pending(db[k].held) = {}
      BY <1>0, <2>2, <2>4 DEF ClosedHolds
    <3>2. db[k].state = "finalized" /\ index[k].calls = CallsEver(db[k])
      BY <1>0, <2>2, <2>4 DEF AgreesOnceClosed
    <3> QED
      BY <2>1, <2>2, <2>4, <3>1, <3>2, FS_EmptySet DEF Agrees, HasBoth
  <2> QED
    BY <2>3, <2>4
<1>6. ASSUME NEW c \in todo, DeleteDb(c) PROVE Agrees(k)'
  <2>1. c.key \in expired /\ c.key \in Key
    BY <1>0, <1>6 DEF DeleteDb, SweepHolds, InSweep, Typed
  <2>2. Agrees(k)
    BY <1>0, <1>6 DEF AgreesWhileIdle, DeleteDb, bounds, clock
  <2> QED
    BY <1>0, <1>6, <1>a, <2>1, <2>2 DEF DeleteDb, clock, Typed
<1>7. CASE DeleteRow
  <2>1. cur.key \in expired /\ cur.key \in Key
    BY <1>0, <1>7 DEF DeleteRow, SweepHolds, InSweep, InRemoval, Typed
  <2>2. Agrees(k)
    BY <1>0, <1>7 DEF AgreesWhileIdle, DeleteRow, bounds
  <2> QED
    BY <1>0, <1>7, <1>a, <2>1, <2>2 DEF DeleteRow, Typed
<1>8. ASSUME NEW q \in Key, Expire(q) PROVE Agrees(k)'
  BY <1>0, <1>8, <1>a DEF Expire, store, mutex, bounds, AgreesWhileIdle
<1>9. CASE Quiet
  BY <1>0, <1>9, <1>a DEF Quiet, AgreesWhileIdle
<1> QED
  BY <1>0, <1>1, <1>2, <1>3, <1>4, <1>5, <1>6, <1>7, <1>8, <1>9, StepKinds

(* Without a failure, the index is behind by what the batch brought. *)
LEMMA OnceRecordedStep == IInv /\ [Next]_vars => AgreesOnceRecorded'
<1> SUFFICES ASSUME IInv, [Next]_vars PROVE AgreesOnceRecorded'
  OBVIOUS
<1>0. Typed /\ AgreesWhileIdle /\ AgreesOnceRecorded
  BY DEF IInv
<1>1. ASSUME NEW b \in Batch, RecordTrace(b) PROVE AgreesOnceRecorded'
  <2> DEFINE k == KeyOf[b]
             d == Opened(k)
             e == db'[k]
  <2>1. /\ k \in Key /\ cur'.key = k
        /\ delta'.pending = Cardinality(Pending(e.held))
        /\ CallsEver(e) = CallsEver(d) + delta'.calls
        /\ AnomalyRows(e) = AnomalyRows(d) + delta'.anomalies
    BY <1>0, <1>1, RecordTraceKeeps
  <2>2. pc = "free" /\ index' = index /\ expired' = expired /\ faults' = faults
    BY <1>1 DEF RecordTrace, clock
  <2>3. ASSUME faults = 0, k \notin expired
        PROVE  CallsTold(k) = CallsEver(d) /\ AnomaliesTold(k) = AnomalyRows(d)
    <3>1. Agrees(k)
      BY <1>0, <2>1, <2>2, <2>3 DEF AgreesWhileIdle
    <3>2. CASE db[k] = NoDb
      <4>1. d = FreshDb /\ Cardinality({}) = 0
        BY <1>0, <2>1, <3>2, OpenedIsDb
      <4>2. CallsEver(d) = 0 /\ AnomalyRows(d) = 0
        BY <4>1 DEF FreshDb, CallsEver, AnomalyRows
      <4> QED
        BY <3>1, <3>2, <4>2 DEF Agrees, CallsTold, AnomaliesTold
    <3>3. CASE db[k] # NoDb
      BY <1>0, <2>1, <3>1, <3>3, OpenedIsDb DEF Agrees, HasBoth, CallsTold, AnomaliesTold
    <3> QED
      BY <3>2, <3>3
  <2>4. CallsTold(k)' = CallsTold(k) /\ AnomaliesTold(k)' = AnomaliesTold(k)
    BY <2>2 DEF CallsTold, AnomaliesTold
  <2> HIDE DEF d, k
  <2> QED
    BY <2>1, <2>2, <2>3, <2>4 DEF AgreesOnceRecorded, CallsTold, AnomaliesTold
<1>2. CASE Quiet
  BY <1>0, <1>2 DEF Quiet, AgreesOnceRecorded, CallsTold, AnomaliesTold
<1>3. ASSUME NEW c \in todo, FinalizeTrace(c) PROVE pc' # "recorded"
  BY <1>3 DEF FinalizeTrace
<1> QED
  BY <1>0, <1>1, <1>2, <1>3, NotBetween, StepKinds DEF AgreesOnceRecorded

(* Without a failure, the database closed is the one the row tells of. *)
LEMMA OnceClosedStep == IInv /\ [Next]_vars => AgreesOnceClosed'
<1> SUFFICES ASSUME IInv, [Next]_vars PROVE AgreesOnceClosed'
  OBVIOUS
<1>0. Typed /\ TickHolds /\ AgreesWhileIdle /\ AgreesOnceClosed
  BY DEF IInv
<1>1. ASSUME NEW c \in todo, FinalizeTrace(c) PROVE AgreesOnceClosed'
  <2> DEFINE k == c.key
             d == Opened(k)
             e == db'[k]
  <2>1. /\ k \in Key /\ index[k] # NoRow /\ index[k].state = "active"
        /\ CallsEver(e) = CallsEver(d) /\ e \in DbState
        /\ e.state # "active" /\ (e.state = "none" <=> d.state = "none")
    BY <1>0, <1>1, FinalizeTraceKeeps DEF Chosen
  <2>2. /\ pc = "finalizing" /\ cur' = c /\ index' = index /\ expired' = expired
        /\ faults' = faults
    BY <1>1 DEF FinalizeTrace, clock, bounds
  <2>3. ASSUME faults = 0, k \notin expired
        PROVE  d.state = "active" /\ index[k].calls = CallsEver(d)
    <3>1. Agrees(k)
      BY <1>0, <2>1, <2>2, <2>3 DEF AgreesWhileIdle
    <3> QED
      BY <1>0, <2>1, <3>1, OpenedIsDb DEF Agrees, HasBoth
  <2>4. e.state \in {"none", "active", "finalized"}
    BY <2>1 DEF DbState
  <2> HIDE DEF d
  <2> QED
    BY <2>1, <2>2, <2>3, <2>4 DEF AgreesOnceClosed
<1>2. CASE Quiet
  BY <1>0, <1>2 DEF Quiet, AgreesOnceClosed
<1>3. ASSUME NEW b \in Batch, RecordTrace(b) PROVE pc' # "closed"
  BY <1>3 DEF RecordTrace
<1> QED
  BY <1>0, <1>1, <1>2, <1>3, NotBetween, StepKinds DEF AgreesOnceClosed

(* Without a failure, a row that tells of nothing parked is right. *)
LEMMA DrainedStep == IInv /\ [Next]_vars => DrainedIsDrained'
<1> SUFFICES ASSUME IInv, [Next]_vars, (faults = 0)', NEW k \in Key,
                    (index[k] # NoRow /\ index[k].pending = 0)',
                    (pc # "recorded" \/ k # cur.key)'
             PROVE  Pending(Opened(k)'.held) = {}
  BY DEF DrainedIsDrained, Pending, Folded, Tree!Resolvable, Tree!IsClosed
<1>0. Typed /\ TickHolds /\ ClosedHolds /\ RecordedHolds /\ AgreesOnceRecorded /\ DrainedIsDrained
  BY DEF IInv
<1>a. ASSUME index'[k] = index[k], db'[k] = db[k], faults' = faults,
             pc # "recorded" \/ k # cur.key
      PROVE  Pending(Opened(k)'.held) = {}
  <2>1. Opened(k)' = Opened(k)
    BY <1>a DEF Opened
  <2> QED
    BY <1>0, <1>a, <2>1 DEF DrainedIsDrained
<1>1. ASSUME NEW b \in Batch, RecordTrace(b) PROVE Pending(Opened(k)'.held) = {}
  <2>1. /\ KeyOf[b] \in Key /\ cur'.key = KeyOf[b]
        /\ db' = [db EXCEPT ![KeyOf[b]] = db'[KeyOf[b]]]
    BY <1>0, <1>1, RecordTraceKeeps
  <2>2. pc = "free" /\ pc' = "recorded" /\ index' = index /\ faults' = faults
    BY <1>1 DEF RecordTrace
  <2> QED
    BY <1>0, <1>a, <2>1, <2>2 DEF Typed
<1>2. ASSUME (\E b \in Batch : RecordTraceFails(b)) \/ (\E c \in todo : FinalizeTraceFails(c))
      PROVE  faults' # 0
  BY <1>0, <1>2, FailureCounts DEF RecordTraceFails, FinalizeTraceFails
<1>3. CASE RecordIndex
  <2>1. LET q == cur.key
            r == index'[q]
        IN  q \in Key /\ index' = [index EXCEPT ![q] = r] /\ r.pending = delta.pending
    BY <1>0, <1>3, RecordIndexKeeps
  <2>2. pc = "recorded" /\ db' = db /\ faults' = faults
    BY <1>3 DEF RecordIndex
  <2>3. CASE k # cur.key
    BY <1>0, <1>a, <2>1, <2>2, <2>3 DEF Typed
  <2>4. CASE k = cur.key
    <3>1. db[k] # NoDb /\ Cardinality(Pending(db[k].held)) = 0
      BY <1>0, <2>1, <2>2, <2>4 DEF RecordedHolds, AgreesOnceRecorded
    <3>2. db[k].held \in SUBSET Batch /\ Opened(k)' = db[k]
      BY <1>0, <2>2, <3>1 DEF Typed, DbState, Opened
    <3> QED
      BY <3>1, <3>2, FoldedSplits
  <2> QED
    BY <2>3, <2>4
<1>4. ASSUME NEW c \in todo, FinalizeTrace(c) PROVE Pending(Opened(k)'.held) = {}
  <2>1. LET e == db'[c.key]
        IN  c.key \in Key /\ db' = [db EXCEPT ![c.key] = e] /\ e # NoDb /\ Pending(e.held) = {}
    BY <1>0, <1>4, FinalizeTraceKeeps
  <2>2. pc = "finalizing" /\ index' = index /\ faults' = faults
    BY <1>4 DEF FinalizeTrace, bounds
  <2>3. CASE k # c.key
    BY <1>0, <1>a, <2>1, <2>2, <2>3 DEF Typed
  <2>4. CASE k = c.key
    BY <2>1, <2>4 DEF Opened
  <2> QED
    BY <2>3, <2>4
<1>5. CASE FinalizeIndex
  <2>1. LET q == cur.key
            r == index'[q]
        IN  q \in Key /\ index' = [index EXCEPT ![q] = r]
    BY <1>0, <1>5, FinalizeIndexKeeps
  <2>2. pc = "closed" /\ db' = db /\ faults' = faults
    BY <1>5 DEF FinalizeIndex, bounds
  <2>3. CASE k # cur.key
    BY <1>0, <1>a, <2>1, <2>2, <2>3 DEF Typed
  <2>4. CASE k = cur.key
    BY <1>0, <2>2, <2>4 DEF ClosedHolds, Opened
  <2> QED
    BY <2>3, <2>4
<1>6. ASSUME NEW c \in todo, DeleteDb(c) PROVE Pending(Opened(k)'.held) = {}
  <2>1. c.key \in Key /\ db' = [db EXCEPT ![c.key] = NoDb]
    BY <1>0, <1>6 DEF DeleteDb, Typed
  <2>2. pc = "sweeping" /\ index' = index /\ faults' = faults
    BY <1>6 DEF DeleteDb, bounds
  <2>3. CASE k # c.key
    BY <1>0, <1>a, <2>1, <2>2, <2>3 DEF Typed
  <2>4. CASE k = c.key
    <3>1. Opened(k)' = FreshDb /\ FreshDb.held = {}
      BY <1>0, <2>1, <2>4 DEF Opened, Typed, FreshDb
    <3> QED
      BY <1>0, <3>1, OpenedIsDb
  <2> QED
    BY <2>3, <2>4
<1>7. CASE DeleteRow
  <2>1. cur.key \in Key /\ index' = [index EXCEPT ![cur.key] = NoRow] /\ pc = "dropping"
    BY <1>0, <1>7 DEF DeleteRow, Typed
  <2> QED
    BY <1>0, <1>7, <1>a, <2>1 DEF DeleteRow, Typed, bounds
<1>8. ASSUME NEW q \in Key, Expire(q) PROVE Pending(Opened(k)'.held) = {}
  BY <1>8, <1>a DEF Expire, store, mutex, bounds
<1>9. CASE Quiet
  BY <1>9, <1>a DEF Quiet
<1> QED
  BY <1>0, <1>1, <1>2, <1>3, <1>4, <1>5, <1>6, <1>7, <1>8, <1>9, StepKinds

-----------------------------------------------------------------------------
(* Every step keeps every part of the invariant. *)
LEMMA NextIInv == IInv /\ [Next]_vars => IInv'
<1>1. IInv /\ UNCHANGED vars => Typed'
  BY DEF IInv, vars, store, files, clock, mutex, bounds, Typed, TypeOK
<1> QED
  BY <1>1, TypedStep, TickStep, ClosedStep, SweepStep, ConnsStep, FinalizedStep, RecordedStep,
     OvercountStep, IdleStep, OnceRecordedStep, OnceClosedStep, DrainedStep
  DEF IInv

(* So does someone else who stores or removes batch files, or fails: the   *)
(* databases, the index and the loops' state do not depend on the files.   *)
LEMMA OthersFiles ==
    ASSUME IInv, UNCHANGED <<store, clock, mutex, records, stored, reported>>,
           raw' \subseteq [key : Key, num : 1..BatchMax, body : Batch], rawDirs' \subseteq Key,
           faults' \in 0..MaxFaults, faults' >= faults
    PROVE  IInv'
<1> USE DEF store, clock, mutex
<1>0. faults \in Nat /\ (faults' = 0 => faults = 0)
  BY BoundsAssumption DEF IInv, Typed, TypeOK
<1>1. Typed'
  BY DEF IInv, Typed, TypeOK
<1>2. TickHolds' /\ ClosedHolds' /\ SweepHolds' /\ ConnsHaveFiles'
  BY DEF IInv, TickHolds, Chosen, ClosedHolds, CpuAvailable, SweepHolds, ConnsHaveFiles
<1>3. FinalizedIsReconciled' /\ RecordedHolds' /\ IndexNeverOvercounts'
  BY DEF IInv, FinalizedIsReconciled, HasBoth, RecordedHolds, CallsTold, IndexNeverOvercounts
<1>4. AgreesWhileIdle' /\ AgreesOnceRecorded' /\ AgreesOnceClosed' /\ DrainedIsDrained'
  BY <1>0 DEF IInv, AgreesWhileIdle, Agrees, HasBoth, AgreesOnceRecorded, CallsTold,
     AnomaliesTold, AgreesOnceClosed, DrainedIsDrained, Opened
<1> QED
  BY <1>1, <1>2, <1>3, <1>4 DEF IInv

(* The invariant holds whatever waits for what and whatever fails. *)
THEOREM Inductive == Spec => []IInv
BY InitIInv, NextIInv, PTL DEF Spec

(* Every variable keeps its type: no count is negative, and no more calls  *)
(* are parked than there are (storage/mod.rs, struct Storage).             *)
THEOREM TypeCorrect == Spec => []TypeOK
<1>1. IInv => TypeOK
  BY DEF IInv, Typed
<1> QED
  BY <1>1, Inductive, PTL

(* Storage::trace_conns: a connection is always on a file that exists,     *)
(* because delete_trace drops it before it unlinks.                        *)
THEOREM ConnsHaveFilesHolds == Spec => []ConnsHaveFiles
<1>1. IInv => ConnsHaveFiles
  BY DEF IInv
<1> QED
  BY <1>1, Inductive, PTL

(* Any failure on the way to two finalized databases leaves the counts of  *)
(* finalize_trace reconciled.                                              *)
THEOREM FinalizedIsReconciledHolds == Spec => []FinalizedIsReconciled
<1>1. IInv => FinalizedIsReconciled
  BY DEF IInv
<1> QED
  BY <1>1, Inductive, PTL

(* record_batch commits the trace before the index, so whatever fails the  *)
(* index counts no call its trace was not given.                           *)
THEOREM IndexNeverOvercountsHolds == Spec => []IndexNeverOvercounts
<1>1. IInv => IndexNeverOvercounts
  BY DEF IInv
<1> QED
  BY <1>1, Inductive, PTL

(* Until something fails index.sqlite and the per-trace databases agree    *)
(* whenever the mutex is free.                                             *)
THEOREM IndexAgreesHolds == Spec => []IndexAgrees
<1>1. IInv => IndexAgrees
  BY DEF IInv, AgreesWhileIdle, Agrees, IndexAgrees
<1> QED
  BY <1>1, Inductive, PTL

(* A finalize that removes the raw files gave up no call of the trace.     *)
THEOREM CleanMeansDrainedHolds == Spec => CleanMeansDrained
<1> DEFINE Clean == faults = 0 /\ pc = "finalizing" /\ pc' = "closed" /\ ~cur'.force =>
                        db'[cur'.key].dropped = Opened(cur'.key).dropped
<1>1. ASSUME IInv, [Next]_vars PROVE Clean
  <2> SUFFICES ASSUME faults = 0, pc = "finalizing", pc' = "closed", ~cur'.force
               PROVE  db'[cur'.key].dropped = Opened(cur'.key).dropped
    OBVIOUS
  <2>0. Typed /\ TickHolds /\ DrainedIsDrained
    BY <1>1 DEF IInv
  <2>1. PICK c \in todo : FinalizeTrace(c)
    <3>1. \A b \in Batch : RecordTrace(b) => pc' # "closed"
      BY DEF RecordTrace
    <3>2. ~Quiet
      BY DEF Quiet
    <3> QED
      BY <1>1, <2>0, <3>1, <3>2, NotBetween, StepKinds
  <2>2. /\ c.key \in Key /\ Chosen(c) /\ db'[c.key] = Closed(Opened(c.key))
        /\ Pending(Opened(c.key).held) = {} => db'[c.key].dropped = Opened(c.key).dropped
    BY <2>0, <2>1, FinalizeTraceKeeps
  <2>3. cur' = c
    BY <2>1 DEF FinalizeTrace
  <2> QED
    BY <2>0, <2>2, <2>3 DEF Chosen, DrainedIsDrained
<1>2. IInv /\ [Next]_vars => [Clean]_vars
  BY <1>1
<1> QED
  BY <1>2, Inductive, PTL DEF Spec, CleanMeansDrained

-----------------------------------------------------------------------------
(* Between the commits of record_batch only they, a crash and an upload    *)
(* can happen.                                                             *)
LEMMA WhileRecorded ==
    ASSUME pc = "recorded", [Next]_vars
    PROVE  RecordIndex \/ RecordIndexFails \/ Crash \/ UNCHANGED <<pc, cur, db, index>>
<1>1. CASE UNCHANGED vars
  BY <1>1 DEF vars, store, mutex
<1>2. ASSUME NEW b \in Batch, RecordTrace(b) \/ RecordTraceFails(b) PROVE FALSE
  BY <1>2 DEF RecordTrace, RecordTraceFails
<1>3. ASSUME Loops PROVE FALSE
  BY <1>3 DEF Loops, Finalize, FinalizeTick, FinalizeTrace, FinalizeTraceFails, FinalizeIndex,
              FinalizeFails, Retain, RetentionTick, DeleteDb, DeleteDbFails, DeleteRow,
              DeleteFails, RemoveRaw, RemoveRawFiles, RemoveRawDir, RawDirNotEmpty, EndTick
<1>4. ASSUME Time PROVE FALSE
  BY <1>4 DEF Time, GrowOlder, Expire
<1>5. ASSUME NEW b \in Batch, StoreRaw(b) PROVE UNCHANGED <<pc, cur, db, index>>
  BY <1>5 DEF StoreRaw, store, mutex
<1> QED
  BY <1>1, <1>2, <1>3, <1>4, <1>5 DEF Next, Record

(* What a delete or a finalize that fails leaves half done has its row.    *)
LEMMA OrphanStep ==
    ASSUME "record" \notin Faults, "crash" \notin Faults
    PROVE  IInv /\ NoOrphans /\ [Next]_vars => NoOrphans'
<1> SUFFICES ASSUME IInv, NoOrphans, [Next]_vars PROVE NoOrphans'
  OBVIOUS
<1>0. Typed /\ TickHolds /\ ClosedHolds /\ SweepHolds /\ NoOrphans
  BY DEF IInv
<1> USE DEF NoOrphans
<1>1. ASSUME NEW b \in Batch, RecordTrace(b) PROVE NoOrphans'
  <2>1. /\ KeyOf[b] \in Key /\ cur'.key = KeyOf[b]
        /\ db' = [db EXCEPT ![KeyOf[b]] = db'[KeyOf[b]]]
    BY <1>0, <1>1, RecordTraceKeeps
  <2>2. pc = "free" /\ pc' = "recorded" /\ index' = index
    BY <1>1 DEF RecordTrace
  <2> QED
    BY <1>0, <2>1, <2>2 DEF Typed
<1>2. ASSUME NEW b \in Batch, RecordTraceFails(b) PROVE FALSE
  BY <1>0, <1>2, FailureCounts DEF RecordTraceFails
<1>3. CASE RecordIndex
  <2>1. LET q == cur.key
            r == index'[q]
        IN  q \in Key /\ index' = [index EXCEPT ![q] = r] /\ r # NoRow
    BY <1>0, <1>3, RecordIndexKeeps
  <2> QED
    BY <1>0, <1>3, <2>1 DEF RecordIndex, Typed
<1>4. ASSUME NEW c \in todo, FinalizeTrace(c) PROVE NoOrphans'
  <2>1. /\ c.key \in Key /\ db' = [db EXCEPT ![c.key] = db'[c.key]]
        /\ index[c.key] # NoRow
    BY <1>0, <1>4, FinalizeTraceKeeps DEF Chosen
  <2> QED
    BY <1>0, <1>4, <2>1 DEF FinalizeTrace, Typed
<1>5. ASSUME NEW c \in todo, FinalizeTraceFails(c) PROVE NoOrphans'
  <2>1. index[c.key] # NoRow /\ c.key \in Key
    BY <1>0, <1>5 DEF FinalizeTraceFails, TickHolds, InFinalize, Chosen, Typed
  <2> QED
    BY <1>0, <1>5, <2>1 DEF FinalizeTraceFails, Typed
<1>6. CASE FinalizeIndex
  <2>1. LET q == cur.key
            r == index'[q]
        IN  q \in Key /\ index' = [index EXCEPT ![q] = r] /\ r # NoRow
    BY <1>0, <1>6, FinalizeIndexKeeps
  <2> QED
    BY <1>0, <1>6, <2>1 DEF FinalizeIndex, Typed
<1>7. ASSUME NEW c \in todo, DeleteDb(c) PROVE NoOrphans'
  BY <1>0, <1>7 DEF DeleteDb, Typed
<1>8. CASE DeleteRow
  <2>1. db[cur.key] = NoDb
    BY <1>0, <1>8 DEF DeleteRow, SweepHolds, InSweep, InRemoval
  <2> QED
    BY <1>0, <1>8, <2>1 DEF DeleteRow, Typed
<1>9. ASSUME NEW k \in Key, Expire(k) PROVE NoOrphans'
  BY <1>0, <1>9 DEF Expire, store, mutex
<1>10. CASE Quiet /\ ~RecordIndex
  <2>1. CASE pc # "recorded"
    BY <1>0, <1>10, <2>1 DEF Quiet
  <2>2. CASE pc = "recorded"
    <3>1. ~RecordIndexFails /\ ~Crash
      BY <1>0, FailureCounts DEF RecordIndexFails, Crash
    <3>2. UNCHANGED <<pc, cur, db, index>>
      BY <1>10, <2>2, <3>1, WhileRecorded
    <3> QED
      BY <1>0, <3>2
  <2> QED
    BY <2>1, <2>2
<1> QED
  BY <1>0, <1>1, <1>2, <1>3, <1>4, <1>5, <1>6, <1>7, <1>8, <1>9, <1>10, StepKinds

(* As long as recording neither fails nor is cut short, the sweeper finds  *)
(* every database by its row, whatever fails in finalize or in a deletion. *)
THEOREM NoOrphansHolds ==
    ASSUME "record" \notin Faults, "crash" \notin Faults
    PROVE  Spec => []NoOrphans
<1>1. Init => NoOrphans
  BY DEF Init, NoOrphans
<1>2. IInv /\ NoOrphans /\ [Next]_vars => NoOrphans'
  BY OrphanStep
<1> QED
  BY <1>1, <1>2, Inductive, PTL DEF Spec

-----------------------------------------------------------------------------
(***************************************************************************)
(* What became of the batches that record_batch returned Ok for: as many   *)
(* as are not among a trace's calls any more, its database has counted.    *)
(***************************************************************************)
Missing(k) == {b \in reported : KeyOf[b] = k} \ Opened(k).held

GivenUpIsCounted == \A k \in Key \ expired : Cardinality(Missing(k)) <= Opened(k).dropped

(* Between its commits, record_batch's batch is among the trace's calls. *)
ReportedHolds ==
    /\ pc = "recorded" => KeyOf[cur.batch] = cur.key /\ cur.batch \in Opened(cur.key).held
    /\ GivenUpIsCounted

(* A step that loses no call of a trace but those it counts misses none. *)
LEMMA StillCounted ==
    ASSUME Typed, reported' \subseteq Batch, NEW k \in Key, Opened(k)' \in DbState,
           Cardinality(Missing(k)) <= Opened(k).dropped,
           NEW P \in SUBSET Batch, Missing(k)' \subseteq Missing(k) \cup P,
           Opened(k)'.dropped = Opened(k).dropped + Cardinality(P)
    PROVE  Cardinality(Missing(k)') <= Opened(k)'.dropped
<1> DEFINE M == Missing(k)
           N == Missing(k)'
<1>1. M \in SUBSET Batch /\ N \in SUBSET Batch /\ N \subseteq M \cup P
  BY DEF Missing, Typed, TypeOK
<1>2. Opened(k).dropped \in Nat /\ Opened(k)'.dropped \in Nat
  BY OpenedIsDb DEF DbState
<1> HIDE DEF M, N
<1>3. IsFiniteSet(M) /\ IsFiniteSet(N) /\ IsFiniteSet(P) /\ IsFiniteSet(M \cup P) /\ IsFiniteSet(M \cap P)
  BY <1>1, FS_Subset, BatchesAssumption
<1>4. Cardinality(M \cup P) = Cardinality(M) + Cardinality(P) - Cardinality(M \cap P)
  BY <1>3, FS_Union
<1>5. Cardinality(N) <= Cardinality(M \cup P)
  BY <1>1, <1>3, FS_Subset
<1>6. \A S \in {M, N, P, M \cap P, M \cup P} : Cardinality(S) \in Nat
  BY <1>3, FS_CardinalityType
<1>7. Cardinality(M) <= Opened(k).dropped
  BY DEF M
<1>8. Cardinality(N) <= Opened(k)'.dropped
  BY <1>2, <1>4, <1>5, <1>6, <1>7
<1> QED
  BY <1>8 DEF N

(* Nor does one that leaves the databases, or takes calls away from none. *)
LEMMA NoneMissing ==
    ASSUME Typed, Typed', GivenUpIsCounted, expired \subseteq expired',
           \A k \in Key \ expired : /\ Missing(k)' \subseteq Missing(k)
                                    /\ Opened(k)'.dropped = Opened(k).dropped
    PROVE  GivenUpIsCounted'
<1> SUFFICES ASSUME NEW k \in Key \ expired PROVE Cardinality(Missing(k)') <= Opened(k)'.dropped
  BY DEF GivenUpIsCounted
<1>1. Opened(k)' \in DbState /\ Opened(k) \in DbState
  <2>1. Opened(k) \in DbState
    BY OpenedIsDb
  <2>2. Opened(k)' \in DbState
    BY BoundsAssumption DEF Opened, Typed, DbState, FreshDb
  <2> QED
    BY <2>1, <2>2
<1>2. Opened(k)'.dropped = Opened(k).dropped + Cardinality({})
  BY <1>1, FS_EmptySet DEF DbState
<1> QED
  BY <1>1, <1>2, StillCounted DEF GivenUpIsCounted, Typed, TypeOK

(* A reported batch leaves a trace's calls when finalize gives it up. *)
LEMMA ReportedStep == IInv /\ IInv' /\ ReportedHolds /\ [Next]_vars => ReportedHolds'
<1> SUFFICES ASSUME IInv, Typed', ReportedHolds, [Next]_vars PROVE ReportedHolds'
  BY DEF IInv
<1>0. Typed /\ TickHolds /\ SweepHolds /\ GivenUpIsCounted
  BY DEF IInv, ReportedHolds
<1>1. ASSUME NEW b \in Batch, RecordTrace(b) PROVE ReportedHolds'
  <2> DEFINE k == KeyOf[b]
             e == db'[k]
  <2>1. /\ k \in Key /\ cur'.key = k /\ cur'.batch = b /\ db' = [db EXCEPT ![k] = e]
        /\ e # NoDb /\ e.held = Opened(k).held \cup {b}
    BY <1>0, <1>1, RecordTraceKeeps
  <2>2. reported' = reported /\ expired' = expired
    BY <1>1 DEF RecordTrace, clock
  <2>3. e.dropped = Opened(k).dropped
    BY <1>0, <1>1, <2>1, OpenedIsDb DEF RecordTrace, Typed, DbState
  <2>4. Opened(k)' = e /\ \A q \in Key : q # k => Opened(q)' = Opened(q)
    BY <1>0, <2>1 DEF Opened, Typed
  <2> HIDE DEF e, k
  <2>5. \A q \in Key : Missing(q)' \subseteq Missing(q) /\ Opened(q)'.dropped = Opened(q).dropped
    BY <2>1, <2>2, <2>3, <2>4 DEF Missing
  <2>6. GivenUpIsCounted'
    BY <1>0, <2>2, <2>5, NoneMissing
  <2>7. (KeyOf[cur.batch] = cur.key /\ cur.batch \in Opened(cur.key).held)'
    BY <2>1, <2>4 DEF k, Opened
  <2> QED
    BY <2>6, <2>7 DEF ReportedHolds
<1>2. CASE RecordIndex
  <2>1. /\ reported' = reported \cup {cur.batch} /\ db' = db /\ expired' = expired
        /\ pc = "recorded" /\ pc' = "free"
    BY <1>2 DEF RecordIndex
  <2>2. \A k : Opened(k)' = Opened(k)
    BY <2>1 DEF Opened
  <2>3. \A k \in Key : Missing(k)' \subseteq Missing(k)
    BY <2>1, <2>2 DEF Missing, ReportedHolds
  <2>4. GivenUpIsCounted'
    BY <1>0, <2>1, <2>2, <2>3, NoneMissing
  <2> QED
    BY <2>1, <2>4 DEF ReportedHolds
<1>3. ASSUME NEW c \in todo, FinalizeTrace(c) PROVE ReportedHolds'
  <2> DEFINE k == c.key
             d == Opened(k)
             e == db'[k]
  <2>1. k \in Key /\ d \in DbState /\ db' = [db EXCEPT ![k] = e] /\ e = Closed(d) /\ e \in DbState /\ e # NoDb
    BY <1>0, <1>3, FinalizeTraceKeeps
  <2>2. reported' = reported /\ expired' = expired /\ pc' = "closed"
    BY <1>3 DEF FinalizeTrace, clock, bounds
  <2>3. Opened(k)' = e /\ \A q \in Key : q # k => Opened(q)' = Opened(q)
    BY <1>0, <2>1 DEF Opened, Typed
  <2>4. e.held = d.held \ Pending(d.held) /\ e.dropped = d.dropped + Cardinality(Pending(d.held))
    <3>1. d.held \in SUBSET Batch
      BY <2>1 DEF DbState
    <3>2. e.held = Folded(d.held) /\ e.dropped = d.dropped + Cardinality(Pending(d.held))
      BY <2>1 DEF Closed, DbState
    <3>3. Folded(d.held) = d.held \ Pending(d.held)
      BY <3>1, FoldedSplits DEF Pending
    <3> QED
      BY <3>2, <3>3
  <2>5. Pending(d.held) \in SUBSET Batch
    BY <2>1, FoldedSplits DEF DbState
  <2> HIDE DEF e, k
  <2>6. ASSUME NEW q \in Key \ expired PROVE Cardinality(Missing(q)') <= Opened(q)'.dropped
    <3> DEFINE P == IF q = k THEN Pending(Opened(q).held) ELSE {}
    <3>1. Opened(q) \in DbState
      BY <1>0, OpenedIsDb
    <3>2. P \in SUBSET Batch /\ Opened(q)' \in DbState
      BY <2>1, <2>3, <2>5, <3>1
    <3>3. Missing(q)' \subseteq Missing(q) \cup P
      BY <2>2, <2>3, <2>4 DEF Missing
    <3>4. Opened(q)'.dropped = Opened(q).dropped + Cardinality(P)
      BY <2>3, <2>4, <3>1, FS_EmptySet DEF DbState
    <3> HIDE DEF P
    <3> QED
      BY <1>0, <3>2, <3>3, <3>4, StillCounted DEF GivenUpIsCounted, Typed, TypeOK
  <2> QED
    BY <2>2, <2>6 DEF ReportedHolds, GivenUpIsCounted
<1>4. ASSUME NEW k \in Key, db' = [db EXCEPT ![k] = Opened(k)], reported' = reported,
             expired' = expired, pc' # "recorded"
      PROVE  ReportedHolds'
  <2>1. \A q \in Key : Opened(q)' = Opened(q)
    BY <1>0, <1>4 DEF Opened, Typed
  <2> QED
    BY <1>0, <1>4, <2>1, NoneMissing DEF Missing, ReportedHolds
<1>5. ASSUME NEW c \in todo, DeleteDb(c) PROVE ReportedHolds'
  <2>1. /\ c.key \in expired /\ db' = [db EXCEPT ![c.key] = NoDb] /\ pc' # "recorded"
        /\ reported' = reported /\ expired' = expired
    BY <1>0, <1>5 DEF DeleteDb, SweepHolds, InSweep, clock, bounds
  <2>2. \A q \in Key \ expired : Opened(q)' = Opened(q)
    BY <1>0, <2>1 DEF Opened, Typed
  <2> QED
    BY <1>0, <2>1, <2>2, NoneMissing DEF Missing, ReportedHolds
<1>6. ASSUME db' = db, reported' = reported, expired \subseteq expired',
             pc' = "recorded" => pc = "recorded" /\ cur' = cur
      PROVE  ReportedHolds'
  <2>1. \A q : Opened(q)' = Opened(q)
    BY <1>6 DEF Opened
  <2>2. GivenUpIsCounted'
    BY <1>0, <1>6, <2>1, NoneMissing DEF Missing
  <2> QED
    BY <1>6, <2>1, <2>2 DEF ReportedHolds
<1>7. ASSUME NEW b \in Batch, RecordTraceFails(b) PROVE ReportedHolds'
  BY <1>4, <1>7, BatchesAssumption DEF RecordTraceFails, clock, mutex
<1>8. ASSUME NEW c \in todo, FinalizeTraceFails(c) PROVE ReportedHolds'
  BY <1>0, <1>4, <1>8 DEF FinalizeTraceFails, clock, Typed
<1>9. CASE FinalizeIndex \/ DeleteRow \/ \E k \in Key : Expire(k)
  BY <1>6, <1>9 DEF FinalizeIndex, DeleteRow, Expire, clock, bounds, mutex, store
<1>10. CASE Quiet
  BY <1>6, <1>10 DEF Quiet
<1> QED
  BY <1>0, <1>1, <1>2, <1>3, <1>5, <1>7, <1>8, <1>9, <1>10, StepKinds

(* Nothing is reported at first. *)
LEMMA InitReported == Init => ReportedHolds
<1> SUFFICES ASSUME Init PROVE ReportedHolds
  OBVIOUS
<1>1. \A k \in Key : Missing(k) = {} /\ Opened(k).dropped = 0
  BY DEF Init, Missing, Opened, FreshDb
<1>2. GivenUpIsCounted
  BY <1>1, FS_EmptySet DEF GivenUpIsCounted
<1> QED
  BY <1>2 DEF Init, ReportedHolds

(***************************************************************************)
(* DI-4, "anything left is flagged DQ-2 anomaly and counted": whatever     *)
(* fails, a batch that record_batch returned Ok for is among its trace's   *)
(* calls or among those that finalize_trace counted when it gave them up,  *)
(* until retention.                                                        *)
(***************************************************************************)
THEOREM GivenUpIsCountedHolds == Spec => []GivenUpIsCounted
<1>1. Init => ReportedHolds
  BY InitReported
<1>2. IInv /\ IInv' /\ ReportedHolds /\ [Next]_vars => ReportedHolds'
  BY ReportedStep
<1>3. ReportedHolds => GivenUpIsCounted
  BY DEF ReportedHolds
<1> QED
  BY <1>1, <1>2, <1>3, Inductive, PTL DEF Spec
=============================================================================
