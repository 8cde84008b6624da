---------------------------- MODULE CollectorProofs ----------------------------
(***************************************************************************)
(* Proofs about Collector, from those about its two parts.  A step of the  *)
(* collector is a step of one part that leaves the other's variables       *)
(* alone, or one of both; the files are all they share.                    *)
(***************************************************************************)
EXTENDS Collector, FiniteSetTheorems, SequenceTheorems, TLAPS

(* The proofs of the parts, of the same constants as In and St. *)
HP == INSTANCE IngestProofs WITH
    TraceOf <- KeyOf, NoToken <- {}, WrongType <- {}, TooLarge <- {}, NoMeta <- {}, OtherSchema <- {}

SP == INSTANCE TraceStoreProofs WITH
    MaxRecords <- Cardinality(Request) * MaxPosts, MaxStored <- 0, Faults <- Faults \cap {"crash"}

-----------------------------------------------------------------------------
(***************************************************************************)
(* HP and SP hold copies of the definitions in In and St: what the one     *)
(* calls a step is a step to the other.  First the operators they use.     *)
(***************************************************************************)
LEMMA SameHelpers ==
    /\ \A S : In!Cardinality(S) = HP!Cardinality(S) /\ St!Cardinality(S) = SP!Cardinality(S)
    /\ \A S : In!Max(S) = HP!Max(S)
BY DEF In!Cardinality, HP!Cardinality, St!Cardinality, SP!Cardinality, In!Max, HP!Max

(* The free slots of the channel, and the next batch number. *)
LEMMA SameSlots ==
    /\ In!HasSlot = HP!HasSlot
    /\ \A f, k : In!NextNumber(f, k) = HP!NextNumber(f, k)
BY SameHelpers
   DEF In!HasSlot, HP!HasSlot, In!Permits, HP!Permits, In!NextNumber, HP!NextNumber,
       In!Numbers, HP!Numbers, In!FilesOf, HP!FilesOf

(* A handler from the request to the reservation. *)
LEMMA SameReceiving ==
    \A r :
        /\ In!PostRefused(r) => HP!PostRefused(r)
        /\ In!Post(r) => HP!Post(r)
        /\ In!PostFails(r) => HP!PostFails(r)
        /\ In!Buffer(r) => HP!Buffer(r)
        /\ In!BufferFails(r) => HP!BufferFails(r)
        /\ In!Reserve(r) => HP!Reserve(r)
        /\ In!Refuse(r) => HP!Refuse(r)
        /\ In!RefuseFails(r) => HP!RefuseFails(r)
BY SameSlots
   DEF In!PostRefused, HP!PostRefused, In!Post, HP!Post, In!PostFails, HP!PostFails, In!Buffer, 
       HP!Buffer, In!BufferFails, HP!BufferFails, In!Reserve, HP!Reserve, In!Refuse, HP!Refuse, 
       In!RefuseFails, HP!RefuseFails,
       In!Again, HP!Again, In!EarlyStatus, HP!EarlyStatus, In!Answers, HP!Answers, In!files, 
       HP!files, In!decoder, HP!decoder, In!Goes, HP!Goes, In!Happens, HP!Happens, In!Refuses, 
       HP!Refuses, In!Status, HP!Status, In!WithoutPartial, HP!WithoutPartial, In!Partial, 
       HP!Partial

(* A handler in its commit, and a client that goes away. *)
LEMMA SameCommit ==
    \A r :
        /\ In!Lock(r) => HP!Lock(r)
        /\ In!EnsureDir(r) => HP!EnsureDir(r)
        /\ In!PickNumber(r) => HP!PickNumber(r)
        /\ In!PickNumberFull(r) => HP!PickNumberFull(r)
        /\ In!Rename(r) => HP!Rename(r)
        /\ In!Sync(r) => HP!Sync(r)
        /\ In!FindsNothing(r) => HP!FindsNothing(r)
        /\ In!CommitFails(r) => HP!CommitFails(r)
        /\ In!Send(r) => HP!Send(r)
        /\ In!Disconnect(r) => HP!Disconnect(r)
BY SameSlots
   DEF In!Lock, HP!Lock, In!EnsureDir, HP!EnsureDir, In!PickNumber, HP!PickNumber, 
       In!PickNumberFull, HP!PickNumberFull, In!Rename, HP!Rename, In!Sync, HP!Sync, 
       In!FindsNothing, HP!FindsNothing, In!CommitFails, HP!CommitFails, In!Send, HP!Send, 
       In!Disconnect, HP!Disconnect, In!LockFree, HP!LockFree, In!Goes, HP!Goes, In!files, 
       HP!files, In!decoder, HP!decoder, In!KeyFor, HP!KeyFor, In!Answers, HP!Answers, 
       In!Renamed, HP!Renamed, In!WithoutPartial, HP!WithoutPartial, In!HasFile, HP!HasFile, 
       In!Refuses, HP!Refuses, In!InCommit, HP!InCommit, In!Happens, HP!Happens, In!Submission, 
       HP!Submission, In!Partial, HP!Partial, In!Numbers, HP!Numbers, In!FilesOf, HP!FilesOf

(* The decoder, the start and the end of the process. *)
LEMMA SameDecoder ==
    /\ In!Init => HP!Init
    /\ In!ReadFails => HP!ReadFails
    /\ In!Decode => HP!Decode
    /\ In!Done => HP!Done
    /\ In!Crash => HP!Crash
BY SameSlots
   DEF In!Init, HP!Init, In!ReadFails, HP!ReadFails, In!Decode, HP!Decode, In!Done, HP!Done, 
       In!Crash, HP!Crash, In!Happens, HP!Happens, In!Finished, HP!Finished, In!Receive, 
       HP!Receive, In!Read, HP!Read, In!ReadNothing, HP!ReadNothing, In!DropUnparsed, 
       HP!DropUnparsed, In!Bodies, HP!Bodies, In!DrainedPartials, HP!DrainedPartials, In!files, 
       HP!files, In!handler, HP!handler, In!HasFile, HP!HasFile, In!FileOf, HP!FileOf, 
       In!Numbers, HP!Numbers, In!FilesOf, HP!FilesOf

(* A rename that goes on without its handler. *)
LEMMA SameLate ==
    \A l : In!LateRename(l) => HP!LateRename(l)
BY SameSlots
   DEF In!LateRename, HP!LateRename, In!KeyFor, HP!KeyFor, In!Renamed, HP!Renamed, In!handler, 
       HP!handler, In!decoder, HP!decoder

(* What is folded, and what is parked. *)
LEMMA SameStoreHelpers ==
    /\ \A H : St!Folded(H) = SP!Folded(H)
    /\ \A H : St!Cardinality(St!Pending(H)) = SP!Cardinality(SP!Pending(H))
BY SameHelpers
   DEF St!Folded, SP!Folded, St!Pending, SP!Pending, St!Tree!Resolvable, SP!Tree!Resolvable,
       St!Tree!IsClosed, SP!Tree!IsClosed

(* The first transaction of record_batch. *)
LEMMA SameRecord == \A b : St!RecordTrace(b) => SP!RecordTrace(b)
<1> SUFFICES ASSUME NEW b, St!RecordTrace(b)
             PROVE  SP!RecordTrace(b)
  OBVIOUS
<1> DEFINE k == KeyOf[b]
           d == St!Opened(k)
           H == d.held \cup {b}
<1>1. St!Opened(k) = SP!Opened(k) /\ St!NewCalls(d, b) = SP!NewCalls(d, b)
  BY DEF St!Opened, SP!Opened, St!FreshDb, SP!FreshDb, St!NewCalls, SP!NewCalls
<1>2. St!Pending(H) = SP!Pending(H)
  BY SameStoreHelpers DEF St!Pending, SP!Pending
<1>3. /\ St!Cardinality((St!Folded(H) \ St!Folded(d.held)) \cap Inverted)
         = SP!Cardinality((SP!Folded(H) \ SP!Folded(d.held)) \cap Inverted)
      /\ St!Cardinality(St!Pending(H)) = SP!Cardinality(SP!Pending(H))
  BY <1>2, SameHelpers, SameStoreHelpers
<1> HIDE DEF H, d
<1> QED
  BY <1>1, <1>3 DEF St!RecordTrace, SP!RecordTrace, St!files, SP!files, St!clock, SP!clock, H, d

(* The passing of time. *)
LEMMA SameTime ==
    \A k :
        /\ St!GrowOlder(k) => SP!GrowOlder(k)
        /\ St!Expire(k) => SP!Expire(k)
BY SameHelpers
   DEF St!GrowOlder, SP!GrowOlder, St!Expire, SP!Expire, St!store, SP!store, St!files, SP!files, 
       St!mutex, SP!mutex, St!bounds, SP!bounds

(* The second transaction, and the steps of the loops that take no candidate... *)
LEMMA SameTicks ==
    /\ St!Init => SP!Init
    /\ St!RecordIndex => SP!RecordIndex
    /\ St!FinalizeTick => SP!FinalizeTick
    /\ St!FinalizeIndex => SP!FinalizeIndex
    /\ St!FinalizeFails => SP!FinalizeFails
    /\ St!RemoveRaw => SP!RemoveRaw
    /\ St!RetentionTick => SP!RetentionTick
    /\ St!DeleteRow => SP!DeleteRow
    /\ St!DeleteFails => SP!DeleteFails
    /\ St!EndTick => SP!EndTick
    /\ St!Crash => SP!Crash
BY SameHelpers
   DEF St!Init, SP!Init, St!RecordIndex, SP!RecordIndex, St!FinalizeTick, SP!FinalizeTick, 
       St!FinalizeIndex, SP!FinalizeIndex, St!FinalizeFails, SP!FinalizeFails, St!RemoveRaw, 
       SP!RemoveRaw, St!RetentionTick, SP!RetentionTick, St!DeleteRow, SP!DeleteRow, 
       St!DeleteFails, SP!DeleteFails, St!EndTick, SP!EndTick, St!Crash, SP!Crash, 
       St!NoCandidate, SP!NoCandidate, St!NoDelta, SP!NoDelta, St!Inserted, SP!Inserted, 
       St!Upserted, SP!Upserted, St!files, SP!files, St!ToFinalize, SP!ToFinalize, St!store, 
       SP!store, St!clock, SP!clock, St!bounds, SP!bounds, St!Finalized, SP!Finalized, 
       St!MayFail, SP!MayFail, St!RemoveRawFiles, SP!RemoveRawFiles, St!RemoveRawDir, 
       SP!RemoveRawDir, St!RawDirNotEmpty, SP!RawDirNotEmpty, St!Expired, SP!Expired, 
       St!Candidate, SP!Candidate, St!IdleActive, SP!IdleActive, St!AnomalyRows, SP!AnomalyRows, 
       St!CpuAvailable, SP!CpuAvailable, St!FilesOf, SP!FilesOf, St!Folded, SP!Folded, 
       St!Tree!Resolvable, SP!Tree!Resolvable, St!Tree!IsClosed, SP!Tree!IsClosed

(* ... and those that do. *)
LEMMA SameCandidate ==
    \A c :
        /\ St!FinalizeTrace(c) => SP!FinalizeTrace(c)
        /\ St!FinalizeTraceFails(c) => SP!FinalizeTraceFails(c)
        /\ St!DeleteDb(c) => SP!DeleteDb(c)
        /\ St!DeleteDbFails(c) => SP!DeleteDbFails(c)
BY SameHelpers
   DEF St!FinalizeTrace, SP!FinalizeTrace, St!FinalizeTraceFails, SP!FinalizeTraceFails, 
       St!DeleteDb, SP!DeleteDb, St!DeleteDbFails, SP!DeleteDbFails, St!Closed, SP!Closed, 
       St!Opened, SP!Opened, St!files, SP!files, St!clock, SP!clock, St!bounds, SP!bounds, 
       St!MayFail, SP!MayFail, St!Evicted, SP!Evicted, St!Folded, SP!Folded, St!Pending, 
       SP!Pending, St!CpuAvailable, SP!CpuAvailable, St!FreshDb, SP!FreshDb, St!Tree!Resolvable, 
       SP!Tree!Resolvable, St!Tree!IsClosed, SP!Tree!IsClosed

-----------------------------------------------------------------------------
(* What the two parts assume of their constants holds of the collector's. *)
LEMMA PartsAssume ==
    /\ \A r \in Request : KeyOf[BodyOf[r]] \in Key
    /\ HP!IsFiniteSet(Request) /\ SP!IsFiniteSet(Batch)
    /\ Faults \cap {"crash"} \subseteq {"record", "finalize", "delete", "crash"}
    /\ Faults \subseteq {"io", "read", "disconnect", "clean", "crash"}
    /\ NoDb \notin SP!DbState /\ NoRow \notin SP!Row
    /\ Cardinality(Request) * MaxPosts \in Nat
    /\ SP!Cardinality(Request) * MaxPosts \in Nat
    /\ HP!Bodies \subseteq Batch
    /\ BatchMax \in Nat \ {0} /\ Capacity \in Nat \ {0} /\ MaxFaults \in Nat /\ MaxPosts \in Nat
<1> USE CollectorAssumption
<1>1. HP!IsFiniteSet(Request) /\ SP!IsFiniteSet(Batch)
  BY DEF IsFiniteSet, HP!IsFiniteSet, SP!IsFiniteSet
<1>2. SP!DbState = St!DbState /\ SP!Row = St!Row
  BY SameHelpers DEF SP!DbState, St!DbState, SP!Row, St!Row
<1>3. Cardinality(Request) \in Nat
  BY FS_CardinalityType
<1>4. SP!Cardinality(Request) = Cardinality(Request)
  BY DEF SP!Cardinality, Cardinality
<1>5. \A n \in Nat : n * MaxPosts \in Nat
  OBVIOUS
<1>6. \A r \in Request : BodyOf[r] \in Batch /\ KeyOf[BodyOf[r]] \in Key
  OBVIOUS
<1>7. HP!Bodies \subseteq Batch
  BY <1>6 DEF HP!Bodies
<1> QED
  BY <1>1, <1>2, <1>3, <1>4, <1>5, <1>6, <1>7

(* Both invariants hold, of the files they share. *)
IInv == HP!CommitInv /\ SP!IInv

(* Each is kept by the steps of its own part. *)
LEMMA PartsStep ==
    /\ HP!Init => HP!IInv
    /\ SP!Init => SP!IInv
    /\ HP!CommitInv /\ HP!Next => HP!CommitInv'
    /\ SP!IInv /\ SP!Next => SP!IInv'
    /\ HP!CommitInv /\ HP!Next => faults' \in 0..MaxFaults /\ faults' >= faults
BY PartsAssume, CollectorAssumption, HP!InitIInv, SP!InitIInv, HP!NextCommit, SP!NextIInv, HP!FaultsGrow

(* And by those of the other: handlers do not write the databases... *)
LEMMA StoreWaits ==
    ASSUME HP!CommitInv, SP!IInv, HP!Next, UNCHANGED store
    PROVE  SP!IInv'
<1>1. faults' \in 0..MaxFaults /\ faults' >= faults
  BY PartsStep
<1>2. HP!TypeOK'
  BY PartsStep DEF HP!CommitInv
<1>3. raw' \subseteq [key : Key, num : 1..BatchMax, body : Batch] /\ rawDirs' \subseteq Key
  BY <1>2, PartsAssume DEF HP!TypeOK
<1> QED
  BY <1>1, <1>3, PartsAssume, CollectorAssumption, SP!OthersFiles
     DEF store, SP!store, SP!clock, SP!mutex

(* ... and the loops only take files away. *)
LEMMA HandlersLose ==
    ASSUME HP!CommitInv, UNCHANGED <<http, faults>>, raw' \subseteq raw, rawDirs' \subseteq rawDirs
    PROVE  HP!CommitInv'
BY PartsAssume, CollectorAssumption, HP!LosingFiles DEF http, HP!own, HP!handler, HP!decoder

-----------------------------------------------------------------------------
(* The loops do not touch what the handlers and the decoder have, and fail *)
(* only with the process.                                                  *)
LEMMA LoopsTake ==
    ASSUME St!Loops
    PROVE  /\ SP!Loops
           /\ faults' = faults /\ raw' \subseteq raw /\ rawDirs' \subseteq rawDirs
<1>1. SP!Loops
  BY SameTicks, SameCandidate
     DEF St!Loops, SP!Loops, St!Finalize, SP!Finalize, St!Retain, SP!Retain, St!RemoveRaw, SP!RemoveRaw
<1>2. \A what : SP!MayFail(what) => what = "crash"
  BY DEF SP!MayFail
<1> SUFFICES faults' = faults /\ raw' \subseteq raw /\ rawDirs' \subseteq rawDirs
  BY <1>1
<1> USE DEF SP!bounds, SP!files
<1>3. CASE SP!Finalize
  BY <1>2, <1>3 DEF SP!Finalize, SP!FinalizeTick, SP!FinalizeTrace, SP!FinalizeTraceFails,
       SP!FinalizeIndex, SP!FinalizeFails
<1>4. CASE SP!Retain
  BY <1>2, <1>4 DEF SP!Retain, SP!RetentionTick, SP!DeleteDb, SP!DeleteDbFails, SP!DeleteRow,
       SP!DeleteFails
<1>5. CASE SP!RemoveRaw
  BY <1>5 DEF SP!RemoveRaw, SP!RemoveRawFiles, SP!RemoveRawDir, SP!RawDirNotEmpty
<1>6. CASE SP!EndTick
  BY <1>6 DEF SP!EndTick
<1> QED
  BY <1>1, <1>3, <1>4, <1>5, <1>6 DEF SP!Loops

(* The steps of the handlers, and of the decoder outside record_batch. *)
LEMMA HttpSteps ==
    ASSUME Http
    PROVE  HP!Requests \/ HP!Failures \/ HP!Decode
<1>1. \A r : In!Handle(r) => HP!Handle(r)
  BY SameReceiving, SameCommit
     DEF In!Handle, HP!Handle, In!Receiving, HP!Receiving, In!CommitPartial, HP!CommitPartial
<1>2. CASE In!Requests
  BY <1>1, <1>2, SameReceiving DEF In!Requests, HP!Requests
<1>3. CASE In!Failures
  BY <1>3, SameReceiving, SameCommit, SameLate, SameDecoder DEF In!Failures, HP!Failures
<1>4. CASE In!Decode
  BY <1>4, SameDecoder
<1> QED
  BY <1>2, <1>3, <1>4 DEF Http

(* What each step is for either part. *)
LEMMA Steps ==
    ASSUME Next
    PROVE  \/ HP!Next /\ UNCHANGED store /\ Http
           \/ /\ \E b \in Batch \ NoCalls : b = body /\ SP!RecordTrace(b)
              /\ UNCHANGED <<http, raw, rawDirs, faults>>
           \/ SP!RecordIndex /\ HP!Done
           \/ /\ SP!Loops
              /\ UNCHANGED <<http, faults>> /\ raw' \subseteq raw /\ rawDirs' \subseteq rawDirs
           \/ /\ \E k \in Key : (Resumes \/ ~Underway(k)) /\ (SP!GrowOlder(k) \/ SP!Expire(k))
              /\ UNCHANGED <<http, raw, rawDirs, faults>>
           \/ SP!Crash /\ HP!Crash
<1>1. CASE Http
  BY <1>1, HttpSteps DEF HP!Next, Http
<1>2. CASE RecordTrace
  <2>1. body \in Batch \ NoCalls /\ SP!RecordTrace(body) /\ UNCHANGED http
    BY <1>2, SameRecord DEF RecordTrace
  <2>2. UNCHANGED <<raw, rawDirs, faults>>
    BY <2>1 DEF SP!RecordTrace, SP!files
  <2> QED
    BY <2>1, <2>2
<1>3. CASE RecordIndex
  BY <1>3, SameTicks, SameDecoder DEF RecordIndex
<1>4. CASE Loops
  BY <1>4, LoopsTake DEF Loops
<1>5. CASE Time
  <2>1. PICK k \in Key : (Resumes \/ ~Underway(k)) /\ (SP!GrowOlder(k) \/ SP!Expire(k))
    BY <1>5, SameTime DEF Time
  <2>2. UNCHANGED <<raw, rawDirs, faults>>
    BY <2>1 DEF SP!GrowOlder, SP!Expire, SP!files, SP!bounds
  <2> QED
    BY <1>5, <2>1, <2>2 DEF Time
<1>6. CASE Crash
  BY <1>6, SameTicks, SameDecoder DEF Crash
<1> QED
  BY <1>1, <1>2, <1>3, <1>4, <1>5, <1>6 DEF Next

(* The two invariants hold together. *)
LEMMA IInvStep == IInv /\ [Next]_vars => IInv'
<1> SUFFICES ASSUME HP!CommitInv, SP!IInv, [Next]_vars
             PROVE  HP!CommitInv' /\ SP!IInv'
  BY DEF IInv
<1>1. ASSUME HP!Next, UNCHANGED store PROVE HP!CommitInv' /\ SP!IInv'
  BY <1>1, PartsStep, StoreWaits
<1>2. ASSUME SP!Next, UNCHANGED <<http, faults>>, raw' \subseteq raw, rawDirs' \subseteq rawDirs
      PROVE  HP!CommitInv' /\ SP!IInv'
  BY <1>2, PartsStep, HandlersLose
<1>3. ASSUME SP!Next, HP!Next PROVE HP!CommitInv' /\ SP!IInv'
  BY <1>3, PartsStep
<1>4. ASSUME NEW b \in Batch, SP!RecordTrace(b) PROVE SP!Next
  BY <1>4 DEF SP!Next, SP!Record
<1>5. ASSUME SP!RecordIndex, HP!Done PROVE SP!Next /\ HP!Next
  BY <1>5 DEF SP!Next, SP!Record, HP!Next
<1>6. ASSUME SP!Loops PROVE SP!Next
  BY <1>6 DEF SP!Next
<1>7. ASSUME NEW k \in Key, SP!GrowOlder(k) \/ SP!Expire(k) PROVE SP!Next
  BY <1>7 DEF SP!Next, SP!Time
<1>8. ASSUME SP!Crash, HP!Crash PROVE SP!Next /\ HP!Next
  BY <1>8 DEF SP!Next, HP!Next
<1>9. CASE UNCHANGED vars
  <2>1. UNCHANGED <<http, faults, raw, rawDirs>> /\ UNCHANGED store
    BY <1>9 DEF vars
  <2>2. HP!CommitInv'
    BY <2>1, HandlersLose
  <2>3. UNCHANGED SP!vars
    BY <2>1 DEF store, SP!vars, SP!store, SP!files, SP!clock, SP!mutex, SP!bounds
  <2>4. SP!IInv'
    BY <2>3, PartsAssume, CollectorAssumption, SP!NextIInv
  <2> QED
    BY <2>2, <2>4
<1>10. CASE Next
  BY <1>1, <1>2, <1>3, <1>4, <1>5, <1>6, <1>7, <1>8, <1>10, Steps
<1> QED
  BY <1>9, <1>10

(* They hold from the start. *)
LEMMA Inductive == Spec => []IInv
<1>1. Init => IInv
  BY PartsStep, SameDecoder, SameTicks DEF Init, IInv, HP!IInv
<1> QED
  BY <1>1, IInvStep, PTL DEF Spec

-----------------------------------------------------------------------------
(***************************************************************************)
(* The loops take up a trace that is idle or past retention.  When a trace *)
(* does not go on after that (~Resumes), nothing of it is under way then,  *)
(* and nothing will be: what they remove, nobody waits for.                *)
(***************************************************************************)
Handling == {"closed", "cleaning", "cleaned", "unlinked", "emptied", "dropping"}

Busy == {k \in Key : Underway(k)}

IdleTraces ==
    /\ \A k \in Key : age[k] # "fresh" \/ k \in expired => k \notin Busy
    /\ \A c \in todo : c.key \notin Busy
    /\ pc \in Handling => cur.key \notin Busy

(* The decoder has a submission or has nothing, and no batch is "unread". *)
LEMMA NothingHolds == HP!Nothing
BY PartsAssume, CollectorAssumption DEF HP!Nothing, HP!Submissions, In!Submissions

(* What the handlers' steps do to those who are done, in its own words. *)
LEMMA HandlersStep ==
    ASSUME HP!CommitInv, HP!Next
    PROVE  /\ \A r \in Request : In!Over(r) => In!Over(r)'
           /\ \/ \E r \in Request :
                    at[r] = "synced" /\ queue' = Append(queue, In!Submission(r)) /\ item' = item
              \/ item' = Head(queue) /\ queue' = Tail(queue) /\ queue # <<>>
              \/ queue' = queue /\ item' \in {item, NoItem}
              \/ queue' = <<>> /\ item' = NoItem
<1>1. ASSUME NEW r \in Request PROVE In!Over(r) => In!Over(r)'
  <2>1. HP!Over(r) => HP!Over(r)'
    BY PartsAssume, CollectorAssumption, HP!OverStays
  <2> QED
    BY <2>1 DEF In!Over, HP!Over
<1>2. \/ \E r \in Request : HP!Send(r)
      \/ HP!Receive \/ HP!Read \/ HP!Crash
      \/ HP!ReadNothing \/ HP!ReadFails \/ HP!DropUnparsed \/ HP!Done
      \/ UNCHANGED <<queue, HP!decoder>>
  BY PartsAssume, CollectorAssumption, HP!ChannelChange
<1>3. ASSUME NEW r \in Request, HP!Send(r)
      PROVE  at[r] = "synced" /\ queue' = Append(queue, In!Submission(r)) /\ item' = item
  BY <1>3 DEF HP!Send, HP!decoder, HP!Submission, HP!KeyFor, In!Submission, In!KeyFor
<1>4. HP!Receive => item' = Head(queue) /\ queue' = Tail(queue) /\ queue # <<>>
  BY DEF HP!Receive
<1>5. HP!Crash => queue' = <<>> /\ item' = NoItem
  BY DEF HP!Crash
<1>6. HP!Read \/ HP!ReadNothing \/ HP!ReadFails \/ HP!DropUnparsed \/ HP!Done
      => queue' = queue /\ item' \in {item, NoItem}
  BY DEF HP!Read, HP!ReadNothing, HP!ReadFails, HP!DropUnparsed, HP!Done, HP!Finished
<1>7. UNCHANGED <<queue, HP!decoder>> => queue' = queue /\ item' \in {item, NoItem}
  BY DEF HP!decoder
<1> QED
  BY <1>1, <1>2, <1>3, <1>4, <1>5, <1>6, <1>7

(* A trace of which nothing is under way stays so. *)
LEMMA UnderwayStays ==
    ASSUME HP!CommitInv, HP!Next, NEW k, ~Underway(k)
    PROVE  ~Underway(k)'
<1>1. /\ item # NoItem => item.key # k
      /\ \A r \in Request : KeyOf[BodyOf[r]] = k => In!Over(r)
      /\ \A i \in DOMAIN queue : queue[i].key # k
  BY DEF Underway
<1>2. queue \in Seq(HP!Submissions)
  BY DEF HP!CommitInv, HP!TypeOK
<1>3. \A r \in Request : KeyOf[BodyOf[r]] = k => In!Over(r)'
  BY <1>1, HandlersStep
<1>4. /\ item' # NoItem => item'.key # k
      /\ \A i \in DOMAIN queue' : queue'[i].key # k
  <2>1. ASSUME NEW r \in Request, at[r] = "synced", queue' = Append(queue, In!Submission(r)), item' = item
        PROVE  <1>4
    <3>1. KeyOf[BodyOf[r]] # k
      BY <1>1, <2>1 DEF In!Over
    <3>2. In!Submission(r).key # k
      BY <3>1 DEF In!Submission, In!KeyFor
    <3>3. \A i \in DOMAIN queue' :
             queue'[i] = In!Submission(r) \/ (i \in DOMAIN queue /\ queue'[i] = queue[i])
      <4> DEFINE s == In!Submission(r)
      <4>1. queue' = Append(queue, s)
        BY <2>1
      <4> HIDE DEF s
      <4> QED
        BY <1>2, <4>1 DEF s
    <3> QED
      BY <1>1, <2>1, <3>2, <3>3
  <2>2. ASSUME item' = Head(queue), queue' = Tail(queue), queue # <<>>
        PROVE  <1>4
    <3>1. Head(queue) = queue[1] /\ 1 \in DOMAIN queue
      BY <1>2, <2>2
    <3>2. \A i \in DOMAIN queue' : i + 1 \in DOMAIN queue /\ queue'[i] = queue[i + 1]
      BY <1>2, <2>2
    <3> QED
      BY <1>1, <2>2, <3>1, <3>2
  <2>3. ASSUME queue' = queue, item' \in {item, NoItem} PROVE <1>4
    BY <1>1, <2>3
  <2>4. ASSUME queue' = <<>>, item' = NoItem PROVE <1>4
    BY <2>4
  <2> QED
    BY <2>1, <2>2, <2>3, <2>4, HandlersStep
<1> QED
  BY <1>3, <1>4 DEF Underway

(* So the traces with something under way only become fewer, and only by   *)
(* what the handlers and the decoder do.                                   *)
LEMMA BusyShrinks ==
    /\ HP!CommitInv /\ HP!Next => Busy' \subseteq Busy
    /\ UNCHANGED http => Busy' = Busy
<1>1. HP!CommitInv /\ HP!Next => Busy' \subseteq Busy
  BY UnderwayStays DEF Busy
<1>2. UNCHANGED http => Busy' = Busy
  BY DEF Busy, Underway, http, In!Over
<1> QED
  BY <1>1, <1>2

(* The loops turn to idle or expired traces, and remove files of the one   *)
(* they are at.                                                            *)
LEMMA LoopsTurn ==
    ASSUME SP!Typed, SP!Loops
    PROVE  /\ \A k \in Key : age'[k] = age[k] \/ age'[k] = "fresh"
           /\ expired' = expired
           /\ \A c \in todo' : c \in todo \/ (c.key \in Key /\ (age[c.key] # "fresh" \/ c.key \in expired))
           /\ pc' \in Handling => cur' \in todo \/ (pc \in Handling /\ cur' = cur)
           /\ raw' = raw \/ (pc \in Handling /\ raw' = {f \in raw : f.key # cur.key})
<1>1. age \in [Key -> {"fresh", "idle", "old"}] /\ \A c \in todo : c.key \in Key
  BY DEF SP!Typed, SP!TypeOK
<1> USE DEF SP!store, SP!files, SP!clock, Handling
<1>2. CASE SP!FinalizeTick
  <2>1. \A c \in SP!ToFinalize : c.key \in Key /\ age[c.key] # "fresh"
    BY DEF SP!ToFinalize, SP!IdleActive, SP!Candidate
  <2> QED
    BY <1>2, <2>1 DEF SP!FinalizeTick
<1>3. CASE SP!RetentionTick
  <2>1. \A c \in todo' : c.key \in Key /\ c.key \in expired
    BY <1>3 DEF SP!RetentionTick, SP!Expired, SP!Candidate, SP!Typed, SP!TypeOK
  <2> QED
    BY <1>3, <2>1 DEF SP!RetentionTick
<1>4. CASE \E c \in todo : SP!FinalizeTrace(c) \/ SP!FinalizeTraceFails(c)
  BY <1>4 DEF SP!FinalizeTrace, SP!FinalizeTraceFails
<1>5. CASE SP!FinalizeIndex \/ SP!FinalizeFails
  BY <1>5 DEF SP!FinalizeIndex, SP!FinalizeFails
<1>6. CASE \E c \in todo : SP!DeleteDb(c) \/ SP!DeleteDbFails(c)
  BY <1>6 DEF SP!DeleteDb, SP!DeleteDbFails
<1>7. CASE SP!DeleteRow \/ SP!DeleteFails
  BY <1>1, <1>7 DEF SP!DeleteRow, SP!DeleteFails
<1>8. CASE SP!RemoveRawFiles
  BY <1>8 DEF SP!RemoveRawFiles, SP!FilesOf
<1>9. CASE SP!RemoveRawDir \/ SP!RawDirNotEmpty
  BY <1>9 DEF SP!RemoveRawDir, SP!RawDirNotEmpty
<1>10. CASE SP!EndTick
  BY <1>10 DEF SP!EndTick
<1> QED
  BY <1>2, <1>3, <1>4, <1>5, <1>6, <1>7, <1>8, <1>9, <1>10
     DEF SP!Loops, SP!Finalize, SP!Retain, SP!RemoveRaw

(* No step of a run in which no trace goes on makes an idle trace busy. *)
LEMMA IdleStep ==
    ASSUME ~Resumes, IInv, IdleTraces, Next
    PROVE  IdleTraces'
<1>0. /\ HP!CommitInv /\ SP!Typed
      /\ age \in [Key -> {"fresh", "idle", "old"}]
  BY DEF IInv, SP!IInv, SP!Typed, SP!TypeOK
<1>1. CASE HP!Next /\ UNCHANGED store
  BY <1>0, <1>1, BusyShrinks DEF store, IdleTraces
<1>2. ASSUME NEW b \in Batch, SP!RecordTrace(b), UNCHANGED http PROVE IdleTraces'
  BY <1>2, BusyShrinks DEF SP!RecordTrace, SP!clock, IdleTraces, Handling
<1>3. CASE SP!RecordIndex /\ HP!Done
  <2>1. Busy' \subseteq Busy
    BY <1>0, <1>3, BusyShrinks DEF HP!Next
  <2> QED
    BY <1>0, <1>3, <2>1 DEF SP!RecordIndex, IdleTraces, Handling
<1>4. CASE SP!Loops /\ UNCHANGED http
  <2>1. Busy' = Busy
    BY <1>4, BusyShrinks
  <2> QED
    BY <1>0, <1>4, <2>1, LoopsTurn DEF IdleTraces
<1>5. ASSUME NEW k \in Key, ~Underway(k), SP!GrowOlder(k) \/ SP!Expire(k), UNCHANGED http
      PROVE  IdleTraces'
  <2>1. Busy' = Busy /\ k \notin Busy
    BY <1>5, BusyShrinks DEF Busy
  <2>2. /\ \A q \in Key : q # k => age'[q] = age[q] /\ (q \in expired' => q \in expired)
        /\ UNCHANGED <<pc, cur, todo>>
    BY <1>0, <1>5 DEF SP!GrowOlder, SP!Expire, SP!mutex
  <2> QED
    BY <2>1, <2>2 DEF IdleTraces
<1>6. CASE SP!Crash /\ HP!Crash
  <2>1. Busy' \subseteq Busy
    BY <1>0, <1>6, BusyShrinks DEF HP!Next
  <2> QED
    BY <1>6, <2>1 DEF SP!Crash, SP!clock, IdleTraces, Handling
<1> QED
  BY <1>1, <1>2, <1>3, <1>4, <1>5, <1>6, Steps

(* No trace goes on after it was idle, and no client leaves.  Processes    *)
(* may die, and file operations and reads may fail.                        *)
Gentle == ~Resumes /\ "disconnect" \notin Faults

(* Then no directory goes but by the loops, and no rename is late. *)
LEMMA GentleIsUndisturbed == Gentle => HP!Undisturbed
BY CollectorAssumption DEF Gentle, HP!Undisturbed

(* What the loops remove is nobody's. *)
LEMMA LoopsSpare ==
    ASSUME HP!CommitInv, HP!DeliverInv, IdleTraces, SP!Typed, SP!Loops,
           UNCHANGED <<http, faults>>, raw' \subseteq raw
    PROVE  /\ HP!DeliverInv'
           /\ \A f \in raw : f.key \in Busy => f \in raw'
<1>1. \A f \in raw : f.key \in Busy => f \in raw'
  BY LoopsTurn DEF IdleTraces
<1>2. ASSUME NEW r \in Request, at[r] \in {"renamed", "synced"}
      PROVE  HP!MyFile(r) \in raw'
  <2>1. HP!MyFile(r) \in raw /\ HP!MyFile(r).key = KeyOf[BodyOf[r]] /\ KeyOf[BodyOf[r]] \in Key
    BY <1>2, PartsAssume DEF HP!DeliverInv, HP!MyFile, HP!KeyFor
  <2>2. KeyOf[BodyOf[r]] \in Busy
    BY <1>2, <2>1 DEF Busy, Underway, In!Over
  <2> QED
    BY <1>1, <2>1, <2>2
<1>3. queue \in Seq(HP!Submissions) /\ item \in HP!Submissions \cup {NoItem}
  BY DEF HP!CommitInv, HP!TypeOK
<1>4. ASSUME NEW i \in DOMAIN queue PROVE HP!Kept(queue[i], raw')
  <2>0. queue[i] \in HP!Submissions
    BY <1>3
  <2>1. HP!Kept(queue[i], raw) /\ queue[i].key \in Key
    BY <2>0 DEF HP!DeliverInv, HP!Submissions
  <2>2. queue[i].key \in Busy
    BY <2>1 DEF Busy, Underway
  <2> QED
    BY <1>1, <2>1, <2>2 DEF HP!Kept
<1>5. ASSUME item # NoItem, body = "unread" PROVE HP!Kept(item, raw')
  <2>1. HP!Kept(item, raw) /\ item.key \in Key
    BY <1>3, <1>5 DEF HP!DeliverInv, HP!Submissions
  <2>2. item.key \in Busy
    BY <1>5, <2>1 DEF Busy, Underway
  <2> QED
    BY <1>1, <2>1, <2>2 DEF HP!Kept
<1>6. HP!NamesUnique'
  BY DEF HP!DeliverInv, HP!NamesUnique
<1>7. HP!DeliverInv'
  BY <1>2, <1>4, <1>5, <1>6 DEF HP!DeliverInv, http, HP!MyFile, HP!KeyFor
<1> QED
  BY <1>1, <1>7

(* What the delivery of a batch to the decoder rests on. *)
DeliveryInv == IInv /\ IdleTraces /\ HP!DeliverInv

(* A step keeps the files of what is under way. *)
LEMMA DeliverStep ==
    ASSUME Gentle, DeliveryInv, Next
    PROVE  HP!DeliverInv' /\ \A f \in raw : f.key \in Busy => f \in raw'
<1>0. HP!CommitInv /\ SP!Typed /\ IdleTraces /\ HP!DeliverInv /\ HP!Undisturbed /\ HP!Nothing
  BY GentleIsUndisturbed, NothingHolds DEF DeliveryInv, IInv, SP!IInv
<1>1. ASSUME HP!Next PROVE HP!DeliverInv' /\ raw \subseteq raw'
  BY <1>0, <1>1, PartsAssume, CollectorAssumption, HP!DeliverStep, HP!NothingDisturbs
<1>2. ASSUME UNCHANGED <<http, raw, rawDirs, faults>> PROVE HP!DeliverInv' /\ raw \subseteq raw'
  BY <1>0, <1>2 DEF http, HP!DeliverInv, HP!NamesUnique, HP!MyFile, HP!KeyFor, HP!Kept
<1>3. CASE SP!Loops /\ UNCHANGED <<http, faults>> /\ raw' \subseteq raw
  BY <1>0, <1>3, LoopsSpare
<1>4. HP!Done \/ HP!Crash => HP!Next
  BY DEF HP!Next
<1> QED
  BY <1>1, <1>2, <1>3, <1>4, Steps

(* They hold of every run in which no trace goes on and no client leaves. *)
LEMMA DeliveryHolds == ASSUME Gentle PROVE Spec => []DeliveryInv
<1>1. Init => DeliveryInv
  <2> SUFFICES ASSUME Init PROVE DeliveryInv
    OBVIOUS
  <2>1. HP!Init /\ SP!Init
    BY SameDecoder, SameTicks DEF Init
  <2>2. IInv
    BY <2>1, PartsStep DEF IInv, HP!IInv
  <2>3. IdleTraces
    BY <2>1 DEF SP!Init, IdleTraces, Handling
  <2>4. HP!DeliverInv
    BY <2>1, PartsAssume, CollectorAssumption, HP!InitDelivers
  <2> QED
    BY <2>2, <2>3, <2>4 DEF DeliveryInv
<1>2. DeliveryInv /\ [Next]_vars => DeliveryInv'
  <2> SUFFICES ASSUME DeliveryInv, [Next]_vars PROVE DeliveryInv'
    OBVIOUS
  <2>1. IInv'
    BY IInvStep DEF DeliveryInv
  <2>2. CASE Next
    BY <2>1, <2>2, IdleStep, DeliverStep DEF DeliveryInv, Gentle
  <2>3. CASE UNCHANGED vars
    <3>1. UNCHANGED <<http, store, raw>>
      BY <2>3 DEF vars
    <3>2. IdleTraces'
      BY <3>1, BusyShrinks DEF store, DeliveryInv, IdleTraces
    <3>3. HP!DeliverInv'
      BY <3>1 DEF http, DeliveryInv, HP!DeliverInv, HP!NamesUnique, HP!MyFile, HP!KeyFor, HP!Kept
    <3> QED
      BY <2>1, <3>2, <3>3 DEF DeliveryInv
  <2> QED
    BY <2>2, <2>3
<1> QED
  BY <1>1, <1>2, PTL DEF Spec

(***************************************************************************)
(* A clean finalize and a deletion take no file away that waits to be      *)
(* read, whatever file operation fails and whenever the process dies, as   *)
(* long as no trace goes on after it was idle and no client leaves during  *)
(* its commit.                                                             *)
(***************************************************************************)
THEOREM CleaningSparesTheUnreadHolds == ASSUME Gentle PROVE Spec => CleaningSparesTheUnread
<1> DEFINE Mine(i) == [key |-> queue[i].key, num |-> queue[i].num, body |-> BodyOf[queue[i].req]]
           Spares == \A i \in DOMAIN queue : Mine(i) \in raw => Mine(i) \in raw'
<1>1. ASSUME DeliveryInv, [Next]_vars PROVE Spares
  <2>1. CASE Next
    <3> SUFFICES ASSUME NEW i \in DOMAIN queue, Mine(i) \in raw PROVE Mine(i) \in raw'
      OBVIOUS
    <3>1. Mine(i).key = queue[i].key /\ queue[i].key \in Key
      BY <1>1 DEF DeliveryInv, IInv, HP!CommitInv, HP!TypeOK, HP!Submissions
    <3>2. Mine(i).key \in Busy
      BY <3>1 DEF Busy, Underway
    <3> QED
      BY <1>1, <2>1, <3>2, DeliverStep
  <2>2. CASE UNCHANGED vars
    BY <2>2 DEF vars
  <2> QED
    BY <1>1, <2>1, <2>2
<1>2. DeliveryInv /\ [Next]_vars => [Spares]_vars
  BY <1>1
<1> QED
  BY <1>2, DeliveryHolds, PTL DEF Spec, CleaningSparesTheUnread

(***************************************************************************)
(* The collector implements Intake: while it runs and the decoder can      *)
(* read, what was answered 200 is read once, in order, as it was sent,     *)
(* although the loops remove directories under no common lock.             *)
(***************************************************************************)
THEOREM DecoderReadsWhatWasSentHolds ==
    ASSUME ~Resumes, Faults \subseteq {"io"}
    PROVE  Spec => DecoderReadsWhatWasSent
<1>1. Gentle /\ HP!Calm
  BY DEF Gentle, HP!Calm
<1>2. /\ In!Waiting = HP!Waiting /\ (In!Waiting)' = (HP!Waiting)'
      /\ {r \in Request : In!Sent(r)} = HP!Accepted
      /\ {r \in Request : In!Sent(r)}' = (HP!Accepted)'
  BY DEF In!Waiting, HP!Waiting, In!Sent, HP!Sent, HP!Accepted
<1>3. Init => In!Promise!Init
  <2>1. Init => HP!Accepted = {} /\ HP!Waiting = <<>> /\ handed = <<>>
    BY PartsAssume, CollectorAssumption, SameDecoder, HP!InitDelivers DEF Init
  <2> QED
    BY <1>2, <2>1 DEF In!Promise!Init
<1>4. ASSUME DeliveryInv, [Next]_vars PROVE [In!Promise!Next]_(In!Promise!vars)
  <2>1. CASE HP!Next
    <3>1. \/ \E r \in Request :
               /\ r \notin HP!Accepted /\ (HP!Accepted)' = HP!Accepted \cup {r}
               /\ Len(HP!Waiting) <= Capacity
               /\ (HP!Waiting)' = Append(HP!Waiting, r)
               /\ handed' = handed
          \/ /\ HP!Waiting # <<>>
             /\ handed' = Append(handed, BodyOf[Head(HP!Waiting)])
             /\ (HP!Waiting)' = Tail(HP!Waiting)
             /\ (HP!Accepted)' = HP!Accepted
          \/ UNCHANGED <<HP!Accepted, HP!Waiting, handed>>
      BY <1>1, <1>4, <2>1, NothingHolds, PartsAssume, CollectorAssumption, HP!IntakeStep
         DEF DeliveryInv, IInv
    <3> QED
      BY <1>2, <3>1 DEF In!Promise!Next, In!Promise!Accept, In!Promise!HandOver, In!Promise!vars
  <2>2. CASE UNCHANGED http
    BY <2>2 DEF http, In!Waiting, In!Sent, In!Promise!vars
  <2>3. HP!Done \/ HP!Crash => HP!Next
    BY DEF HP!Next
  <2>4. UNCHANGED vars => UNCHANGED http
    BY DEF vars
  <2> QED
    BY <1>4, <2>1, <2>2, <2>3, <2>4, Steps
<1>5. DeliveryInv /\ [Next]_vars => [In!Promise!Next]_(In!Promise!vars)
  BY <1>4
<1> QED
  BY <1>1, <1>3, <1>5, DeliveryHolds, PTL
     DEF Spec, DecoderReadsWhatWasSent, In!ImplementsIntake, In!Promise!Spec

-----------------------------------------------------------------------------
(***************************************************************************)
(* From the 200 to the commit of record_batch: a batch is in the channel,  *)
(* or the decoder has it, or it is recorded (or parse_batch drops it).     *)
(***************************************************************************)
Accounted(r) ==
    \/ \E i \in DOMAIN queue : queue[i].req = r
    \/ item # NoItem /\ item.req = r
    \/ BodyOf[r] \in reported \cup NoCalls

AckedIsKept == \A r \in Request : In!Sent(r) => Accounted(r)

(* What the decoder has in hand is what its submission was sent for, and   *)
(* what the storage records is what the decoder has.                       *)
InHand ==
    /\ item # NoItem => HP!Kept(item, raw)
    /\ body # "unread" => body = BodyOf[item.req]
    /\ pc = "recorded" => body \notin NoCalls \cup {"unread"} /\ cur.batch = body

KeepInv == DeliveryInv /\ InHand /\ AckedIsKept

(* No trace goes on after it was idle, and nothing fails but what a        *)
(* handler does with its files.                                            *)
Running == ~Resumes /\ Faults \subseteq {"io"}

(* Who is answered 200 is in the channel with the answer. *)
LEMMA AnswerAccounts ==
    ASSUME KeepInv, NEW r \in Request, HP!Send(r)
    PROVE  /\ queue' = Append(queue, HP!Submission(r)) /\ UNCHANGED <<item, body>>
           /\ \A q \in Request :
                (\E i \in DOMAIN queue : queue[i].req = q) \/ q = r
                => \E i \in DOMAIN queue' : (queue'[i]).req = q
<1> DEFINE s == HP!Submission(r)
<1>1. queue' = Append(queue, s) /\ UNCHANGED <<item, body>> /\ s.req = r
  BY DEF HP!Send, HP!decoder, HP!Submission
<1>2. queue \in Seq(HP!Submissions)
  BY DEF KeepInv, DeliveryInv, IInv, HP!CommitInv, HP!TypeOK
<1> HIDE DEF s
<1>3. /\ \A i \in DOMAIN queue : i \in DOMAIN queue' /\ queue'[i] = queue[i]
      /\ Len(queue) + 1 \in DOMAIN queue' /\ queue'[Len(queue) + 1] = s
  BY <1>1, <1>2
<1> QED
  BY <1>1, <1>3 DEF s

(* What the decoder takes from the channel, it has. *)
LEMMA TakenIsInHand ==
    ASSUME KeepInv, HP!Receive
    PROVE  /\ HP!Kept(item', raw) /\ item' # NoItem /\ body = "unread" /\ body' = body
           /\ \A q \in Request :
                (\E i \in DOMAIN queue : queue[i].req = q)
                => (\E i \in DOMAIN queue' : (queue'[i]).req = q) \/ (item').req = q
<1>1. item = NoItem /\ queue # <<>> /\ item' = Head(queue) /\ queue' = Tail(queue) /\ body' = body
  BY DEF HP!Receive
<1>2. queue \in Seq(HP!Submissions) /\ body = "unread" /\ \A i \in DOMAIN queue : HP!Kept(queue[i], raw)
  BY <1>1 DEF KeepInv, DeliveryInv, IInv, HP!CommitInv, HP!TypeOK, HP!DeliverInv
<1>3. 1 \in DOMAIN queue /\ Head(queue) = queue[1] /\ queue[1] \in HP!Submissions
  BY <1>1, <1>2
<1>4. \A i \in DOMAIN queue : i # 1 => i - 1 \in DOMAIN queue' /\ queue'[i - 1] = queue[i]
  BY <1>1, <1>2
<1>5. item' # NoItem
  BY <1>1, <1>3, NothingHolds DEF HP!Nothing
<1>6. HP!Kept(queue[1], raw)
  BY <1>2, <1>3
<1>7. ASSUME NEW q \in Request, NEW i \in DOMAIN queue, queue[i].req = q
      PROVE  (\E j \in DOMAIN queue' : (queue'[j]).req = q) \/ (item').req = q
  BY <1>1, <1>3, <1>4, <1>7
<1> QED
  BY <1>1, <1>2, <1>3, <1>5, <1>6, <1>7

(* What it reads is what was sent. *)
LEMMA ReadIsSent ==
    ASSUME KeepInv, HP!Read
    PROVE  item # NoItem /\ body' = BodyOf[item.req] /\ UNCHANGED <<queue, item>>
<1>1. item # NoItem /\ body = "unread" /\ body' = HP!FileOf(item).body /\ UNCHANGED <<queue, item>>
  BY DEF HP!Read
<1>2. HP!FileOf(item) \in raw /\ HP!FileOf(item).key = item.key /\ HP!FileOf(item).num = item.num
  BY DEF HP!Read, HP!HasFile, HP!Numbers, HP!FilesOf, HP!FileOf
<1>3. HP!FileOf(item) = [key |-> item.key, num |-> item.num, body |-> BodyOf[item.req]]
  BY <1>1, <1>2 DEF KeepInv, DeliveryInv, HP!DeliverInv, HP!NamesUnique, HP!Kept
<1> QED
  BY <1>1, <1>3

(* The decoder always finds the file. *)
LEMMA FileIsThere ==
    ASSUME KeepInv, item # NoItem
    PROVE  HP!HasFile(item.key, item.num)
<1>1. [key |-> item.key, num |-> item.num, body |-> BodyOf[item.req]] \in raw
  BY DEF KeepInv, InHand, HP!Kept
<1> QED
  BY <1>1 DEF HP!HasFile, HP!Numbers, HP!FilesOf

(* The steps of the handlers and the decoder. *)
LEMMA RunningKeeps ==
    ASSUME Running, KeepInv, HP!Next, HP!Requests \/ HP!Failures \/ HP!Decode, UNCHANGED store,
           HP!DeliverInv', \A f \in raw : f.key \in Busy => f \in raw'
    PROVE  InHand' /\ AckedIsKept'
<1> USE DEF store
<1>0. /\ \A r \in Request : In!Sent(r)' <=> In!Sent(r) \/ HP!Send(r)
      /\ HP!CommitInv
  <2>1. HP!CommitInv
    BY DEF KeepInv, DeliveryInv, IInv
  <2>2. \A r \in Request : HP!Sent(r)' <=> HP!Sent(r) \/ HP!Send(r)
    BY <2>1, PartsAssume, CollectorAssumption, HP!OverStays
  <2> QED
    BY <2>1, <2>2 DEF In!Sent, HP!Sent
<1>1. \A r \in Request : In!Sent(r) => Accounted(r)
  BY DEF KeepInv, AckedIsKept
<1>2. item # NoItem => HP!Kept(item, raw')
  <2>1. SUFFICES ASSUME item # NoItem PROVE HP!Kept(item, raw')
    OBVIOUS
  <2>2. item \in HP!Submissions
    BY <1>0, <2>1 DEF HP!CommitInv, HP!TypeOK
  <2>3. item.key \in Busy
    BY <2>1, <2>2 DEF Busy, Underway, HP!Submissions
  <2> QED
    BY <2>1, <2>3 DEF KeepInv, InHand, HP!Kept
<1>3. /\ body # "unread" => item # NoItem /\ body = BodyOf[item.req]
      /\ pc = "recorded" => body \notin NoCalls \cup {"unread"} /\ cur.batch = body
  BY DEF KeepInv, InHand, DeliveryInv, HP!DeliverInv
<1>4. ASSUME NEW r \in Request, HP!Send(r) PROVE InHand' /\ AckedIsKept'
  <2>1. \A q \in Request : In!Sent(q)' => In!Sent(q) \/ q = r
    BY <1>0, <1>4, AnswerAccounts DEF HP!Send, HP!Answers, HP!Goes, In!Sent, HP!CommitInv, HP!TypeOK
  <2>2. InHand'
    BY <1>2, <1>3, <1>4, AnswerAccounts DEF InHand
  <2>3. AckedIsKept'
    BY <1>1, <1>4, <2>1, AnswerAccounts DEF AckedIsKept, Accounted
  <2> QED
    BY <2>2, <2>3
<1> SUFFICES ASSUME \A r \in Request : ~HP!Send(r)
             PROVE  InHand' /\ \A r \in Request : Accounted(r) => Accounted(r)'
  BY <1>0, <1>1, <1>4 DEF AckedIsKept
<1>5. CASE HP!Receive
  <2>1. raw' = raw
    BY <1>5 DEF HP!Receive, HP!files
  <2>2. InHand'
    BY <1>3, <1>5, <2>1, TakenIsInHand DEF InHand
  <2>3. item = NoItem
    BY <1>5 DEF HP!Receive
  <2> QED
    BY <1>5, <2>2, <2>3, TakenIsInHand DEF Accounted
<1>6. CASE HP!Read
  <2>1. pc # "recorded"
    BY <1>3, <1>6 DEF HP!Read
  <2> QED
    BY <1>2, <1>6, <2>1, ReadIsSent DEF InHand, Accounted
<1>7. CASE HP!DropUnparsed
  <2>1. /\ pc # "recorded" /\ queue' = queue /\ item' = NoItem /\ body' = "unread"
        /\ body \in NoCalls /\ body # "unread"
    BY <1>3, <1>7, NothingHolds DEF HP!DropUnparsed, HP!Finished, HP!Nothing
  <2>2. BodyOf[item.req] \in NoCalls
    BY <1>3, <2>1
  <2> QED
    BY <2>1, <2>2 DEF InHand, Accounted
<1>8. CASE UNCHANGED <<queue, HP!decoder>>
  BY <1>2, <1>3, <1>8 DEF HP!decoder, InHand, Accounted
<1>9. ~HP!ReadNothing /\ ~HP!ReadFails
  BY FileIsThere DEF HP!ReadNothing, HP!ReadFails, HP!Happens, Running
<1>10. \/ \E r \in Request : HP!Send(r)
       \/ HP!Receive \/ HP!Read
       \/ HP!ReadNothing \/ HP!ReadFails \/ HP!DropUnparsed
       \/ UNCHANGED <<queue, HP!decoder>>
  BY PartsAssume, CollectorAssumption, HP!RunningChange
<1> QED
  BY <1>5, <1>6, <1>7, <1>8, <1>9, <1>10

(* No loop reports a batch or has the decoder's place at the mutex. *)
LEMMA LoopsReportNothing == SP!Loops => pc' # "recorded" /\ reported' = reported
<1> USE DEF SP!bounds
<1>1. SP!Finalize => pc' # "recorded" /\ reported' = reported
  BY DEF SP!Finalize, SP!FinalizeTick, SP!FinalizeTrace, SP!FinalizeTraceFails, SP!FinalizeIndex,
         SP!FinalizeFails
<1>2. SP!Retain => pc' # "recorded" /\ reported' = reported
  BY DEF SP!Retain, SP!RetentionTick, SP!DeleteDb, SP!DeleteDbFails, SP!DeleteRow, SP!DeleteFails
<1>3. SP!RemoveRaw \/ SP!EndTick => pc' # "recorded" /\ reported' = reported
  BY DEF SP!RemoveRaw, SP!RemoveRawFiles, SP!RemoveRawDir, SP!RawDirNotEmpty, SP!EndTick
<1> QED
  BY <1>1, <1>2, <1>3 DEF SP!Loops

(* Every step keeps what was acknowledged. *)
LEMMA KeepStep ==
    ASSUME Running, KeepInv, Next
    PROVE  KeepInv'
<1>0. DeliveryInv /\ InHand /\ AckedIsKept /\ Gentle
  BY DEF KeepInv, Gentle, Running
<1>1. HP!DeliverInv' /\ \A f \in raw : f.key \in Busy => f \in raw'
  BY <1>0, DeliverStep
<1>2. DeliveryInv'
  <2>1. IInv' /\ IdleTraces'
    BY <1>0, IInvStep, IdleStep DEF DeliveryInv, Running
  <2> QED
    BY <1>1, <2>1 DEF DeliveryInv
<1>3. item # NoItem => HP!Kept(item, raw')
  <2> SUFFICES ASSUME item # NoItem PROVE HP!Kept(item, raw')
    OBVIOUS
  <2>1. item \in HP!Submissions
    BY <1>0 DEF DeliveryInv, IInv, HP!CommitInv, HP!TypeOK
  <2>2. item.key \in Busy
    BY <2>1 DEF Busy, Underway, HP!Submissions
  <2> QED
    BY <1>0, <1>1, <2>2 DEF InHand, HP!Kept
<1>4. ASSUME UNCHANGED http, reported \subseteq reported' PROVE AckedIsKept'
  BY <1>0, <1>4 DEF http, AckedIsKept, Accounted, In!Sent
<1>5. ASSUME UNCHANGED http,
             pc' = "recorded" => body \notin NoCalls \cup {"unread"} /\ cur'.batch = body
      PROVE  InHand'
  BY <1>0, <1>3, <1>5 DEF http, InHand, HP!Kept, HP!KeyFor
<1>6. CASE HP!Next /\ UNCHANGED store /\ Http
  BY <1>0, <1>1, <1>2, <1>6, HttpSteps, RunningKeeps DEF KeepInv
<1>7. CASE (\E b \in Batch \ NoCalls : b = body /\ SP!RecordTrace(b)) /\ UNCHANGED http
  <2>1. body \in Batch \ NoCalls /\ SP!RecordTrace(body)
    BY <1>7
  <2>2. cur'.batch = body /\ reported' = reported
    BY <2>1 DEF SP!RecordTrace
  <2> QED
    BY <1>2, <1>4, <1>5, <1>7, <2>1, <2>2, CollectorAssumption DEF KeepInv
<1>8. CASE SP!RecordIndex /\ HP!Done
  <2>1. /\ reported' = reported \cup {cur.batch} /\ pc = "recorded" /\ pc' = "free"
        /\ item' = NoItem /\ body' = "unread" /\ UNCHANGED <<queue, at, answer>>
    BY <1>8 DEF SP!RecordIndex, HP!Done, HP!Finished, HP!handler
  <2>2. cur.batch = BodyOf[item.req]
    BY <1>0, <2>1 DEF InHand
  <2>3. InHand'
    BY <2>1 DEF InHand
  <2>4. AckedIsKept'
    BY <1>0, <2>1, <2>2 DEF AckedIsKept, Accounted, In!Sent
  <2> QED
    BY <1>2, <2>3, <2>4 DEF KeepInv
<1>9. CASE SP!Loops /\ UNCHANGED http
  BY <1>2, <1>4, <1>5, <1>9, LoopsReportNothing DEF KeepInv
<1>10. ASSUME NEW k \in Key, SP!GrowOlder(k) \/ SP!Expire(k), UNCHANGED http PROVE KeepInv'
  <2>1. pc' # "recorded" /\ reported' = reported
    BY <1>10 DEF SP!GrowOlder, SP!Expire, SP!mutex, SP!bounds
  <2> QED
    BY <1>2, <1>4, <1>5, <1>10, <2>1 DEF KeepInv
<1>11. ~HP!Crash
  BY DEF HP!Crash, HP!Happens, Running
<1> QED
  BY <1>6, <1>7, <1>8, <1>9, <1>10, <1>11, Steps

(* So it holds as long as the process runs. *)
LEMMA KeepHolds == ASSUME Running PROVE Spec => []KeepInv
<1>1. Init /\ DeliveryInv => KeepInv
  <2>1. Init => HP!Init /\ SP!Init
    BY SameDecoder, SameTicks DEF Init
  <2> QED
    BY <2>1 DEF HP!Init, SP!Init, KeepInv, InHand, AckedIsKept, In!Sent
<1>2. KeepInv /\ DeliveryInv' /\ [Next]_vars => KeepInv'
  <2> SUFFICES ASSUME KeepInv, UNCHANGED vars, DeliveryInv' PROVE KeepInv'
    BY KeepStep
  <2>1. UNCHANGED <<http, store, raw>>
    BY DEF vars
  <2> QED
    BY <2>1 DEF http, store, KeepInv, InHand, HP!Kept, HP!KeyFor, AckedIsKept, Accounted, In!Sent
<1>3. Gentle
  BY DEF Running, Gentle
<1> QED
  BY <1>1, <1>2, <1>3, DeliveryHolds, PTL DEF Spec

(***************************************************************************)
(* INV-1, "extension forgets the batch on 2xx and has no spool": what was  *)
(* answered 200 is in the channel, in the decoder's hands or recorded, as  *)
(* long as the process runs, whatever file operation of a handler fails.   *)
(***************************************************************************)
THEOREM AckedIsKeptHolds == ASSUME Running PROVE Spec => []AckedIsKept
<1>1. KeepInv => AckedIsKept
  BY DEF KeepInv
<1> QED
  BY <1>1, KeepHolds, PTL

(***************************************************************************)
(* And until it is recorded its file is there: what AC-3.1.3 says holds of *)
(* a process that is not killed, if what is sent parses.                   *)
(***************************************************************************)
THEOREM NothingLostWithoutKill ==
    ASSUME Running, NoCalls = {}
    PROVE  Spec => []KillLosesNothing
<1>1. KeepInv => KillLosesNothing
  <2> SUFFICES ASSUME KeepInv, NEW r \in Request, In!Sent(r)
               PROVE  In!Stored(BodyOf[r]) \/ BodyOf[r] \in reported
    BY DEF KillLosesNothing
  <2>1. \A s : HP!Kept(s, raw) => In!Stored(BodyOf[s.req])
    BY DEF HP!Kept, HP!KeyFor, In!Stored
  <2>2. \A i \in DOMAIN queue : HP!Kept(queue[i], raw)
    BY DEF KeepInv, DeliveryInv, HP!DeliverInv
  <2>3. item # NoItem => HP!Kept(item, raw)
    BY DEF KeepInv, InHand
  <2>4. Accounted(r)
    BY DEF KeepInv, AckedIsKept
  <2> QED
    BY <2>1, <2>2, <2>3, <2>4 DEF Accounted
<1> QED
  BY <1>1, KeepHolds, PTL

-----------------------------------------------------------------------------
(* What the storage says of reported batches, the handlers leave true. *)
LEMMA CountedStep == IInv /\ IInv' /\ SP!ReportedHolds /\ [Next]_vars => SP!ReportedHolds'
<1> SUFFICES ASSUME IInv, IInv', SP!ReportedHolds, [Next]_vars PROVE SP!ReportedHolds'
  OBVIOUS
<1>1. CASE UNCHANGED store
  BY <1>1 DEF store, SP!ReportedHolds, SP!GivenUpIsCounted, SP!Missing, SP!Opened
<1>2. CASE SP!Next
  BY <1>2, PartsAssume, CollectorAssumption, SP!ReportedStep DEF IInv
<1>3. UNCHANGED vars => UNCHANGED store
  BY DEF vars
<1>4. Next => UNCHANGED store \/ SP!Next
  BY Steps DEF SP!Next, SP!Record, SP!Time
<1> QED
  BY <1>1, <1>2, <1>3, <1>4

(* The batches of k that were answered 200 and are past the decoder. *)
Settled(k) ==
    {BodyOf[r] : r \in {q \in Request :
        /\ In!Sent(q) /\ KeyOf[BodyOf[q]] = k
        /\ \A i \in DOMAIN queue : queue[i].req # q
        /\ item # NoItem => item.req # q}} \ NoCalls

SettledIsCounted ==
    \A k \in Key \ expired : Cardinality(Settled(k) \ St!Opened(k).held) <= St!Opened(k).dropped

(***************************************************************************)
(* From the 200 to the tree: as long as the process runs, as many of the   *)
(* acknowledged batches of a trace that are past the decoder and parsed as *)
(* are not in its database, finalize_trace counted there as given up,      *)
(* until retention takes the trace.                                        *)
(***************************************************************************)
THEOREM SettledIsCountedHolds == ASSUME Running PROVE Spec => []SettledIsCounted
<1>1. Init => SP!ReportedHolds
  <2>1. Init => SP!Init
    BY SameTicks DEF Init
  <2> QED
    BY <2>1, PartsAssume, CollectorAssumption, SP!InitReported
<1>2. IInv /\ IInv' /\ SP!ReportedHolds /\ [Next]_vars => SP!ReportedHolds'
  BY CountedStep
<1>3. KeepInv /\ SP!ReportedHolds => SettledIsCounted
  <2> SUFFICES ASSUME KeepInv, SP!ReportedHolds, NEW k \in Key \ expired
               PROVE  Cardinality(Settled(k) \ St!Opened(k).held) <= St!Opened(k).dropped
    BY DEF SettledIsCounted
  <2> DEFINE S == Settled(k) \ SP!Opened(k).held
             M == SP!Missing(k)
  <2>1. St!Opened(k) = SP!Opened(k)
    BY DEF St!Opened, SP!Opened, St!FreshDb, SP!FreshDb
  <2>2. S \subseteq M
    BY DEF KeepInv, AckedIsKept, Accounted, Settled, SP!Missing
  <2>3. M \subseteq Batch /\ SP!Opened(k).dropped \in Int
    <3>1. SP!Opened(k).dropped \in Nat /\ reported \subseteq Batch
      BY PartsAssume, CollectorAssumption, SP!OpenedIsDb
         DEF KeepInv, DeliveryInv, IInv, SP!IInv, SP!Typed, SP!TypeOK, SP!DbState
    <3> QED
      BY <3>1 DEF SP!Missing
  <2>4. SP!Cardinality(M) <= SP!Opened(k).dropped
    BY DEF SP!ReportedHolds, SP!GivenUpIsCounted
  <2> HIDE DEF S, M
  <2>5. IsFiniteSet(M) /\ Cardinality(S) <= Cardinality(M) /\ Cardinality(S) \in Nat /\ Cardinality(M) \in Nat
    BY <2>2, <2>3, FS_Subset, FS_CardinalityType, CollectorAssumption
  <2>6. SP!Cardinality(M) = Cardinality(M)
    BY DEF SP!Cardinality, Cardinality
  <2>7. Cardinality(S) <= SP!Opened(k).dropped
    BY <2>3, <2>4, <2>5, <2>6
  <2> QED
    BY <2>1, <2>7 DEF S
<1> QED
  BY <1>1, <1>2, <1>3, KeepHolds, Inductive, PTL DEF Spec
=============================================================================
