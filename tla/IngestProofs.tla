---------------------------- MODULE IngestProofs ----------------------------
(***************************************************************************)
(* Proofs about Ingest for every set of requests and traces.  The          *)
(* invariant says who owns what in the middle of a commit: the lock of the *)
(* trace, the number picked under it, the file renamed to it (CommitInv);  *)
(* and, from there, what a handler leaves on disk, stored or partial.  The *)
(* last two parts are about runs with fewer faults: no file is replaced,   *)
(* and the handlers, the channel and the decoder implement Intake.         *)
(***************************************************************************)
EXTENDS Ingest, RawFilesProofs, FiniteSetTheorems, SequenceTheorems

(* The number a commit picks is free in the directory it has listed. *)
LEMMA PickedIsFree ==
    ASSUME TypeOK, NEW k \in Key
    PROVE  /\ NextNumber(raw, k) \in Nat \ {0}
           /\ NextNumber(raw, k) \notin Numbers(raw, k)
<1>1. \A f \in raw : f.num \in 1..BatchMax
  BY DEF TypeOK
<1> QED
  BY <1>1, NextNumberIsFree

-----------------------------------------------------------------------------
(* A request that was sent has a partial file's name, a commit that has    *)
(* come to its rename has a number, and no request is refused with 200.    *)
Begun ==
    \A r \in Request :
        /\ at[r] # "idle" => posts[r] >= 1
        /\ at[r] \in {"numbered", "renamed", "synced"} => num[r] >= 1
        /\ at[r] = "refusing" => answer[r] # "200"

(* A trace has one commit at a time. *)
LocksExclude == \A r, s \in InCommit : KeyFor(r) = KeyFor(s) => r = s

(* A number picked is still free, as only the holder of the lock renames. *)
NumberIsFree ==
    \A r \in Request :
        at[r] = "numbered" => num[r] \notin Numbers(raw, KeyFor(r)) \/ KeyFor(r) \in disturbed

LateDisturbs == \A l \in late : KeyFor(l.req) \in disturbed

(* The file of r has been renamed. *)
Committed(r) == at[r] \in {"renamed", "synced"} \/ Sent(r)

CommittedIsStored ==
    \A r \in Request : Committed(r) => Stored(BodyOf[r]) \/ KeyFor(r) \in disturbed

(* What holds of a commit also when its directory is removed meanwhile. *)
CommitInv ==
    /\ TypeOK
    /\ Begun
    /\ ChannelBounded
    /\ LocksExclude
    /\ NumberIsFree
    /\ LateDisturbs

IInv == CommitInv /\ CommittedIsStored

(* The trace of a request is one of the traces. *)
LEMMA KeyForIsKey == \A r \in Request : KeyFor(r) \in Key
BY IngestAssumption DEF KeyFor

(* The invariant holds at the start. *)
LEMMA InitIInv == Init => IInv
<1> SUFFICES ASSUME Init
             PROVE  IInv
  OBVIOUS
<1>1. TypeOK
  BY RawAssumption, IngestAssumption DEF Init, TypeOK
<1>2. Permits = {}
  BY DEF Init, Permits
<1>3. Len(queue) = 0
  BY DEF Init
<1>4. ChannelBounded
  BY <1>2, <1>3, FS_EmptySet, IngestAssumption DEF ChannelBounded
<1> QED
  BY <1>1, <1>4 DEF Init, IInv, CommitInv, Begun, LocksExclude, InCommit, NumberIsFree,
       LateDisturbs, CommittedIsStored, Committed, Sent

-----------------------------------------------------------------------------
(* Every step keeps the types, and Begun. *)
LEMMA ReceivingTyped ==
    ASSUME CommitInv, NEW r \in Request,
           \/ PostRefused(r) \/ Post(r) \/ PostFails(r) \/ Buffer(r) \/ BufferFails(r)
           \/ Receiving(r) \/ RefuseFails(r)
    PROVE  TypeOK' /\ Begun'
<1> USE DEF Answers, Refuses, Goes, Happens, files, decoder
<1>1. CASE PostRefused(r)
  <2>1. EarlyStatus(r) \in {"401", "413", "415"}
    BY <1>1 DEF PostRefused, EarlyStatus
  <2>2. answer' \in [Request -> {"none", "gone", "lost", "200", "400", "401", "413", "415",
                                 "422", "500", "503"}]
    BY <1>1, <2>1 DEF CommitInv, TypeOK, PostRefused
  <2>3. /\ posts' \in [Request -> 0..MaxPosts] /\ posts'[r] \in 1..MaxPosts
        /\ \A s \in Request : posts'[s] >= posts[s]
    BY <1>1, IngestAssumption DEF CommitInv, TypeOK, PostRefused
  <2>4. at' = [at EXCEPT ![r] = "done"]
        /\ UNCHANGED <<num, partials, unremoved, raw, rawDirs, late, queue, item, body, handed, disturbed, faults>>
    BY <1>1 DEF PostRefused
  <2>5. TypeOK'
    BY <2>2, <2>3, <2>4 DEF CommitInv, TypeOK
  <2>6. Begun'
    BY <2>3, <2>4, <1>1, <2>1 DEF CommitInv, TypeOK, Begun, PostRefused
  <2> QED
    BY <2>5, <2>6
<1>2. CASE Post(r)
  <2>1. /\ posts' \in [Request -> 0..MaxPosts] /\ posts'[r] \in 1..MaxPosts
        /\ \A s \in Request : posts'[s] >= posts[s]
    BY <1>2, IngestAssumption DEF CommitInv, TypeOK, Post
  <2>2. TypeOK'
    <3>1. at' \in [Request -> {"idle", "streaming", "buffered", "refusing", "reserved", "locked",
                               "dir", "numbered", "renamed", "synced", "done"}]
      BY <1>2 DEF CommitInv, TypeOK, Post
    <3>2. num' \in [Request -> 0..BatchMax]
      BY <1>2, RawAssumption DEF CommitInv, TypeOK, Post
    <3>3. partials' = partials \cup {<<r, posts'[r]>>}
      BY <1>2 DEF Post
    <3>4. partials' \subseteq Request \X (1..MaxPosts)
      BY <2>1, <3>3 DEF CommitInv, TypeOK
    <3>5. answer' = [answer EXCEPT ![r] = "none"]
          /\ UNCHANGED <<unremoved, raw, rawDirs, late, queue, item, body, handed, disturbed, faults>>
      BY <1>2 DEF Post
    <3> QED
      BY <2>1, <3>1, <3>2, <3>4, <3>5 DEF CommitInv, TypeOK
  <2>3. Begun'
    BY <1>2, <2>1 DEF CommitInv, TypeOK, Begun, Post
  <2> QED
    BY <2>2, <2>3
<1>3. CASE PostFails(r)
  <2>1. /\ posts' \in [Request -> 0..MaxPosts] /\ posts'[r] \in 1..MaxPosts
        /\ \A s \in Request : posts'[s] >= posts[s]
    BY <1>3, IngestAssumption DEF CommitInv, TypeOK, PostFails
  <2>2. faults' \in 0..MaxFaults
    BY <1>3, IngestAssumption DEF CommitInv, TypeOK, PostFails
  <2>3. TypeOK'
    BY <1>3, <2>1, <2>2 DEF CommitInv, TypeOK, PostFails
  <2>4. Begun'
    BY <1>3, <2>1 DEF CommitInv, TypeOK, Begun, PostFails
  <2> QED
    BY <2>3, <2>4
<1>4. CASE Buffer(r)
  BY <1>4 DEF CommitInv, TypeOK, Begun, Buffer
<1>5. CASE BufferFails(r)
  BY <1>5, IngestAssumption DEF CommitInv, TypeOK, Begun, BufferFails
<1>6. CASE Receiving(r)
  BY <1>6 DEF CommitInv, TypeOK, Begun, Receiving, Reserve, Refuse, Status, WithoutPartial
<1>7. CASE RefuseFails(r)
  <2>1. posts[r] \in 1..MaxPosts
    BY <1>7, IngestAssumption DEF CommitInv, TypeOK, Begun, RefuseFails
  <2>2. unremoved' \subseteq Request \X (1..MaxPosts)
    BY <1>7, <2>1 DEF CommitInv, TypeOK, RefuseFails, Partial
  <2>3. faults' \in 0..MaxFaults
    BY <1>7, IngestAssumption DEF CommitInv, TypeOK, RefuseFails
  <2> QED
    BY <1>7, <2>2, <2>3 DEF CommitInv, TypeOK, Begun, RefuseFails
<1> QED
  BY <1>1, <1>2, <1>3, <1>4, <1>5, <1>6, <1>7

(* The commit, up to the message. *)
LEMMA CommitTyped ==
    ASSUME CommitInv, NEW r \in Request, CommitPartial(r) \/ CommitFails(r)
    PROVE  TypeOK' /\ Begun'
<1> USE DEF Answers, Refuses, Goes, Happens, files, decoder
<1>1. CASE Lock(r) \/ EnsureDir(r)
  BY <1>1, KeyForIsKey DEF CommitInv, TypeOK, Begun, Lock, EnsureDir
<1>2. CASE PickNumber(r)
  <2>1. NextNumber(raw, KeyFor(r)) \in 1..BatchMax
    BY <1>2, PickedIsFree, KeyForIsKey, RawAssumption DEF CommitInv, PickNumber
  <2>2. num' \in [Request -> 0..BatchMax] /\ \A s \in Request : num'[s] # num[s] => num'[s] >= 1
    BY <1>2, <2>1, RawAssumption DEF CommitInv, TypeOK, PickNumber
  <2>3. TypeOK'
    BY <1>2, <2>2 DEF CommitInv, TypeOK, PickNumber
  <2>4. num'[r] >= 1
    BY <1>2, <2>1, RawAssumption DEF CommitInv, TypeOK, PickNumber
  <2>5. Begun'
    BY <1>2, <2>2, <2>4 DEF CommitInv, TypeOK, Begun, PickNumber
  <2> QED
    BY <2>3, <2>5
<1>3. CASE PickNumberFull(r)
  BY <1>3 DEF CommitInv, TypeOK, Begun, PickNumberFull
<1>4. CASE Rename(r)
  <2>1. num[r] \in 1..BatchMax
    BY <1>4, RawAssumption DEF CommitInv, TypeOK, Begun, Rename
  <2>2. Renamed(r, num[r]) \subseteq [key : Key, num : 1..BatchMax, body : Bodies]
    BY <2>1, KeyForIsKey DEF CommitInv, TypeOK, Renamed, Bodies
  <2> QED
    BY <1>4, <2>2 DEF CommitInv, TypeOK, Begun, Rename, WithoutPartial
<1>5. CASE Sync(r) \/ FindsNothing(r)
  BY <1>5 DEF CommitInv, TypeOK, Begun, Sync, FindsNothing
<1>6. CASE Send(r)
  <2>1. Submission(r) \in Submissions
    BY <1>6, KeyForIsKey, RawAssumption DEF CommitInv, TypeOK, Begun, Send, Submission, Submissions
  <2>2. queue' \in Seq(Submissions)
    BY <1>6, <2>1 DEF CommitInv, TypeOK, Send
  <2> QED
    BY <1>6, <2>2 DEF CommitInv, TypeOK, Begun, Send
<1>7. CASE CommitFails(r)
  <2>1. faults' \in 0..MaxFaults /\ answer' = [answer EXCEPT ![r] = "500"]
        /\ at' = [at EXCEPT ![r] = "refusing"] /\ at[r] # "idle"
        /\ UNCHANGED <<num, posts, partials, unremoved, raw, rawDirs, late, queue, item, body,
                       handed, disturbed>>
    BY <1>7, IngestAssumption DEF CommitInv, TypeOK, CommitFails, InCommit
  <2> QED
    BY <2>1 DEF CommitInv, TypeOK, Begun
<1> QED
  BY <1>1, <1>2, <1>3, <1>4, <1>5, <1>6, <1>7 DEF CommitPartial

(* The decoder. *)
LEMMA DecoderTyped ==
    ASSUME CommitInv, Decode \/ ReadFails \/ Done
    PROVE  TypeOK' /\ Begun'
<1> USE DEF Happens, Finished, handler, files
<1>1. Begun'
  BY DEF CommitInv, Begun, Decode, Receive, Read, ReadNothing, DropUnparsed, ReadFails, Done, decoder
<1>2. CASE Receive
  <2>1. Head(queue) \in Submissions /\ Tail(queue) \in Seq(Submissions)
    BY <1>2 DEF CommitInv, TypeOK, Receive
  <2> QED
    BY <1>1, <1>2, <2>1 DEF CommitInv, TypeOK, Receive
<1>3. CASE Read
  <2>1. FileOf(item) \in raw
    BY <1>3 DEF Read, HasFile, Numbers, FilesOf, FileOf
  <2>2. FileOf(item).body \in Bodies
    BY <2>1 DEF CommitInv, TypeOK
  <2>3. handed' \in Seq(Bodies)
    BY <1>3, <2>2 DEF CommitInv, TypeOK, Read
  <2> QED
    BY <1>1, <1>3, <2>2, <2>3 DEF CommitInv, TypeOK, Read
<1>4. CASE ReadNothing \/ DropUnparsed \/ Done
  BY <1>1, <1>4 DEF CommitInv, TypeOK, ReadNothing, DropUnparsed, Done
<1>5. CASE ReadFails
  <2>1. faults' \in 0..MaxFaults
    BY <1>5, IngestAssumption DEF CommitInv, TypeOK, ReadFails
  <2>2. /\ item' = NoItem /\ body' = "unread"
        /\ UNCHANGED <<at, answer, num, posts, partials, unremoved, raw, rawDirs, late, queue,
                       handed, disturbed>>
    BY <1>5 DEF ReadFails
  <2> QED
    BY <1>1, <2>1, <2>2 DEF CommitInv, TypeOK
<1> QED
  BY <1>2, <1>3, <1>4, <1>5 DEF Decode

(* A client that goes away, a late rename, a removal, a kill. *)
LEMMA DisturbanceTyped ==
    ASSUME CommitInv,
           \/ \E r \in Request : Disconnect(r)
           \/ \E l \in late : LateRename(l)
           \/ \E k \in Key : Clean(k)
           \/ Crash
    PROVE  TypeOK' /\ Begun'
<1> USE DEF Happens, handler, files, decoder
<1>1. ASSUME NEW r \in Request, Disconnect(r)
      PROVE  TypeOK' /\ Begun'
  <2> DEFINE L == {[req |-> s, num |-> num[s], from |-> Partial(s)] :
                       s \in {q \in {r} : at[q] = "numbered"}}
  <2>1. L \subseteq [req : Request, num : 1..BatchMax, from : Request \X (1..MaxPosts)]
    <3>1. at[r] = "numbered" => num[r] \in 1..BatchMax /\ posts[r] \in 1..MaxPosts
      BY IngestAssumption, RawAssumption DEF CommitInv, TypeOK, Begun
    <3>2. at[r] = "numbered" => Partial(r) \in Request \X (1..MaxPosts)
      BY <3>1 DEF Partial
    <3>3. \A l \in L : at[r] = "numbered" /\ l = [req |-> r, num |-> num[r], from |-> Partial(r)]
      OBVIOUS
    <3> HIDE DEF L
    <3> QED
      BY <3>1, <3>2, <3>3
  <2>2. disturbed' \subseteq Key
    BY <1>1, KeyForIsKey DEF CommitInv, TypeOK, Disconnect
  <2>3. late' = late \cup L
    BY <1>1 DEF Disconnect
  <2>4. faults' \in 0..MaxFaults
    BY <1>1, IngestAssumption DEF CommitInv, TypeOK, Disconnect
  <2> HIDE DEF L
  <2>5. late' \subseteq [req : Request, num : 1..BatchMax, from : Request \X (1..MaxPosts)]
    BY <2>1, <2>3 DEF CommitInv, TypeOK
  <2>6. /\ at' = [at EXCEPT ![r] = "done"] /\ answer' = [answer EXCEPT ![r] = "gone"]
        /\ at[r] # "idle"
        /\ UNCHANGED <<num, posts, partials, unremoved, raw, rawDirs, queue, item, body, handed>>
    BY <1>1 DEF Disconnect, Answers, Goes, InCommit
  <2>7. TypeOK'
    BY <2>2, <2>4, <2>5, <2>6 DEF CommitInv, TypeOK
  <2> QED
    BY <2>6, <2>7 DEF CommitInv, TypeOK, Begun
<1>2. ASSUME NEW l \in late, LateRename(l)
      PROVE  TypeOK' /\ Begun'
  <2>1. l.req \in Request /\ l.num \in 1..BatchMax
    BY DEF CommitInv, TypeOK
  <2>2. Renamed(l.req, l.num) \subseteq [key : Key, num : 1..BatchMax, body : Bodies]
    BY <2>1, KeyForIsKey DEF CommitInv, TypeOK, Renamed, Bodies
  <2> QED
    BY <1>2, <2>2 DEF CommitInv, TypeOK, Begun, LateRename
<1>3. ASSUME NEW k \in Key, Clean(k)
      PROVE  TypeOK' /\ Begun'
  <2>1. faults' \in 0..MaxFaults
    BY <1>3, IngestAssumption DEF CommitInv, TypeOK, Clean
  <2> QED
    BY <1>3, <2>1 DEF CommitInv, TypeOK, Begun, Clean, FilesOf
<1>4. CASE Crash
  <2>1. faults' \in 0..MaxFaults
    BY <1>4, IngestAssumption DEF CommitInv, TypeOK, Crash
  <2> QED
    BY <1>4, <2>1 DEF CommitInv, TypeOK, Begun, Crash, DrainedPartials
<1> QED
  BY <1>1, <1>2, <1>3, <1>4

(* All steps. *)
LEMMA NextTyped == CommitInv /\ [Next]_vars => TypeOK' /\ Begun'
<1> SUFFICES ASSUME CommitInv, [Next]_vars
             PROVE  TypeOK' /\ Begun'
  OBVIOUS
<1>1. CASE Next
  BY <1>1, ReceivingTyped, CommitTyped, DecoderTyped, DisturbanceTyped
     DEF Next, Requests, Failures, Handle
<1>2. CASE UNCHANGED vars
  BY <1>2 DEF CommitInv, TypeOK, Begun, vars, own, handler, files, decoder
<1> QED
  BY <1>1, <1>2

-----------------------------------------------------------------------------
(***************************************************************************)
(* What a step may do to the files, the locks and the channel.  Each lemma *)
(* names the few actions that matter and says of all others that they      *)
(* leave the thing alone.                                                  *)
(***************************************************************************)

(* Files change by a rename, in its commit or late, and by a removal. *)
LEMMA FilesChange ==
    ASSUME Next
    PROVE  \/ \E r \in Request : Rename(r)
           \/ \E l \in late : LateRename(l)
           \/ \E k \in Key : Clean(k)
           \/ raw' = raw /\ disturbed \subseteq disturbed'
<1> USE DEF files
<1>1. CASE Requests
  BY <1>1 DEF Requests, Handle, Receiving, CommitPartial, PostRefused, Post, Buffer, Reserve,
       Refuse, Lock, EnsureDir, PickNumber, PickNumberFull, Sync, FindsNothing, Send
<1>2. CASE Failures
  BY <1>2 DEF Failures, PostFails, BufferFails, RefuseFails, CommitFails, Disconnect, ReadFails, Finished
<1>3. CASE Decode \/ Done
  BY <1>3 DEF Decode, Receive, Read, ReadNothing, DropUnparsed, Done, Finished
<1>4. CASE Crash
  BY <1>4 DEF Crash
<1> QED
  BY <1>1, <1>2, <1>3, <1>4 DEF Next

(***************************************************************************)
(* A handler comes to each stage of its commit from the one before it.     *)
(***************************************************************************)
LEMMA HandlersMove ==
    ASSUME CommitInv, Next, NEW r \in Request
    PROVE  /\ r \in InCommit' => r \in InCommit \/ Lock(r)
           /\ at'[r] = "numbered" =>
                \/ PickNumber(r)
                \/ at[r] = "numbered" /\ num'[r] = num[r]
           /\ Committed(r)' => Committed(r) \/ Rename(r)
<1> USE DEF CommitInv, TypeOK, InCommit, Committed, Sent, Goes, Answers, Refuses
<1>1. CASE Requests
  <2>1. PICK s \in Request : PostRefused(s) \/ Post(s) \/ Buffer(s) \/ Handle(s)
    BY <1>1 DEF Requests
  <2>2. CASE PostRefused(s) \/ Post(s) \/ Buffer(s) \/ Receiving(s)
    <3>1. CASE PostRefused(s)
      BY <3>1 DEF PostRefused, Again
    <3>2. CASE Post(s)
      <4>1. at' = [at EXCEPT ![s] = "streaming"]
        BY <3>2 DEF Post
      <4>2. answer' = [answer EXCEPT ![s] = "none"] /\ num' = [num EXCEPT ![s] = 0]
        BY <3>2 DEF Post
      <4>3. CASE r = s
        <5>1. at'[r] = "streaming"
          BY <4>1, <4>3
        <5> QED
          BY <5>1
      <4>4. CASE r # s
        <5>1. at'[r] = at[r] /\ answer'[r] = answer[r] /\ num'[r] = num[r]
          BY <4>1, <4>2, <4>4
        <5> QED
          BY <5>1
      <4> QED
        BY <4>3, <4>4
    <3>3. CASE Buffer(s) \/ Refuse(s) \/ RefuseFails(s)
      <4>1. at'[s] \in {"buffered", "refusing", "done"} /\ at[s] \in {"streaming", "refusing"}
        BY <3>3 DEF Buffer, Refuse, RefuseFails
      <4>2. at'[s] = "done" => answer'[s] = answer[s] /\ at[s] = "refusing"
        BY <3>3 DEF Buffer, Refuse, RefuseFails
      <4>3. r # s => at'[r] = at[r] /\ answer'[r] = answer[r]
        BY <3>3 DEF Buffer, Refuse, RefuseFails
      <4>4. num' = num
        BY <3>3 DEF Buffer, Refuse, RefuseFails
      <4>5. at[s] = "refusing" => answer[s] # "200"
        BY DEF Begun
      <4> QED
        BY <4>1, <4>2, <4>3, <4>4, <4>5
    <3>4. CASE Reserve(s)
      BY <3>4 DEF Reserve, Status
    <3> QED
      BY <2>2, <3>1, <3>2, <3>3, <3>4 DEF Receiving
  <2>3. CASE CommitPartial(s)
    BY <2>3 DEF CommitPartial, Lock, EnsureDir, PickNumber, PickNumberFull, Rename, Sync,
         FindsNothing, Send
  <2> QED
    BY <2>1, <2>2, <2>3 DEF Handle
<1>2. CASE Failures
  <2>1. CASE \E s \in Request : PostFails(s) \/ BufferFails(s) \/ RefuseFails(s) \/ CommitFails(s)
    <3>1. PICK s \in Request : PostFails(s) \/ BufferFails(s) \/ RefuseFails(s) \/ CommitFails(s)
      BY <2>1
    <3>2. CASE PostFails(s)
      BY <3>2 DEF PostFails, Again
    <3>3. CASE BufferFails(s)
      BY <3>3 DEF BufferFails
    <3>4. CASE CommitFails(s)
      BY <3>4 DEF CommitFails
    <3>5. CASE RefuseFails(s)
      BY <3>5 DEF RefuseFails, Begun
    <3> QED
      BY <3>1, <3>2, <3>3, <3>4, <3>5
  <2>2. CASE \E s \in Request : Disconnect(s)
    BY <2>2 DEF Disconnect
  <2>3. CASE (\E l \in late : LateRename(l)) \/ ReadFails
    BY <2>3 DEF LateRename, ReadFails, Finished, handler
  <2> QED
    BY <1>2, <2>1, <2>2, <2>3 DEF Failures
<1>3. CASE Decode \/ Done \/ \E k \in Key : Clean(k)
  BY <1>3 DEF Decode, Receive, Read, ReadNothing, DropUnparsed, Done, Finished, Clean, handler
<1>4. CASE Crash
  BY <1>4 DEF Crash
<1> QED
  BY <1>1, <1>2, <1>3, <1>4 DEF Next

(* A late rename is left by a client that went away. *)
LEMMA LateAppears ==
    ASSUME Next
    PROVE  late' \subseteq late \/ \E r \in Request : Disconnect(r)
<1>1. CASE Requests
  BY <1>1 DEF Requests, Handle, Receiving, CommitPartial, PostRefused, Post, Buffer, Reserve,
       Refuse, Lock, EnsureDir, PickNumber, PickNumberFull, Rename, Sync, FindsNothing, Send
<1>2. CASE Failures
  BY <1>2 DEF Failures, PostFails, BufferFails, RefuseFails, CommitFails, LateRename, ReadFails, Finished
<1>3. CASE Decode \/ Done \/ Crash \/ \E k \in Key : Clean(k)
  BY <1>3 DEF Decode, Receive, Read, ReadNothing, DropUnparsed, Done, Finished, Crash, Clean
<1> QED
  BY <1>1, <1>2, <1>3 DEF Next

(* Disturbances are remembered. *)
LEMMA DisturbedStays ==
    ASSUME Next
    PROVE  disturbed \subseteq disturbed'
<1>1. CASE \E r \in Request : Rename(r)
  BY <1>1 DEF Rename
<1>2. CASE \E l \in late : LateRename(l)
  BY <1>2 DEF LateRename
<1>3. CASE \E k \in Key : Clean(k)
  BY <1>3 DEF Clean
<1> QED
  BY <1>1, <1>2, <1>3, FilesChange

-----------------------------------------------------------------------------
(***************************************************************************)
(* The argument of the comment in http/storage.rs: the number was free     *)
(* when the directory was listed, the lock keeps every other commit of the *)
(* trace away until the rename, so the rename replaces nothing.            *)
(***************************************************************************)
LEMMA FileStays ==
    ASSUME CommitInv, Next, NEW f \in raw
    PROVE  f \in raw' \/ f.key \in disturbed'
<1>1. CASE \E r \in Request : Rename(r)
  BY <1>1 DEF CommitInv, NumberIsFree, Rename, Renamed, Numbers, FilesOf
<1>2. CASE \E l \in late : LateRename(l)
  BY <1>2 DEF CommitInv, LateDisturbs, LateRename, Renamed
<1>3. CASE \E k \in Key : Clean(k)
  BY <1>3 DEF Clean, FilesOf
<1> QED
  BY <1>1, <1>2, <1>3, FilesChange

(* The guard of Lock is enough: no other action enters a commit. *)
LEMMA LocksExcludeStep == ASSUME CommitInv, Next PROVE LocksExclude'
<1>1. CASE \E r \in Request : Lock(r)
  <2>1. PICK r \in Request : Lock(r)
    BY <1>1
  <2>2. InCommit' = InCommit \cup {r}
    BY <2>1 DEF CommitInv, TypeOK, Lock, Goes, InCommit
  <2> QED
    BY <2>1, <2>2 DEF CommitInv, LocksExclude, Lock, LockFree, KeyFor, InCommit
<1>2. CASE ~ \E r \in Request : Lock(r)
  <2>1. InCommit' \subseteq InCommit
    BY <1>2, HandlersMove DEF InCommit
  <2> QED
    BY <2>1 DEF CommitInv, LocksExclude, KeyFor
<1> QED
  BY <1>1, <1>2

(* What another commit or a late rename adds is not under this number. *)
LEMMA NumberIsFreeStep == ASSUME CommitInv, Next PROVE NumberIsFree'
<1> SUFFICES ASSUME NEW r \in Request, at'[r] = "numbered", KeyFor(r) \notin disturbed'
             PROVE  num'[r] \notin Numbers(raw', KeyFor(r))
  BY DEF NumberIsFree, KeyFor
<1>1. CASE PickNumber(r)
  <2>1. num'[r] = NextNumber(raw, KeyFor(r)) /\ raw' = raw
    BY <1>1 DEF CommitInv, TypeOK, PickNumber, files
  <2> QED
    BY <2>1, PickedIsFree, KeyForIsKey DEF CommitInv
<1>2. CASE at[r] = "numbered" /\ num'[r] = num[r]
  <2>1. num[r] \notin Numbers(raw, KeyFor(r))
    BY <1>2, DisturbedStays DEF CommitInv, NumberIsFree
  <2>2. CASE \E s \in Request : Rename(s)
    <3>1. PICK s \in Request : Rename(s)
      BY <2>2
    <3>2. s # r
      BY <3>1 DEF CommitInv, TypeOK, Rename, Goes
    <3>3. KeyFor(s) # KeyFor(r)
      BY <1>2, <3>1, <3>2 DEF CommitInv, LocksExclude, InCommit, Rename
    <3> QED
      BY <1>2, <2>1, <3>1, <3>3 DEF Rename, Renamed, Numbers, FilesOf
  <2>3. CASE \E l \in late : LateRename(l)
    <3>1. PICK l \in late : LateRename(l)
      BY <2>3
    <3>2. KeyFor(l.req) # KeyFor(r)
      BY <3>1, DisturbedStays DEF CommitInv, LateDisturbs
    <3> QED
      BY <1>2, <2>1, <3>1, <3>2 DEF LateRename, Renamed, Numbers, FilesOf
  <2>4. CASE \E k \in Key : Clean(k)
    BY <1>2, <2>1, <2>4 DEF Clean, Numbers, FilesOf
  <2>5. CASE raw' = raw
    BY <1>2, <2>1, <2>5
  <2> QED
    BY <2>2, <2>3, <2>4, <2>5, FilesChange
<1> QED
  BY <1>1, <1>2, HandlersMove

(* A rename only comes late when its client went away in mid-commit. *)
LEMMA LateDisturbsStep == ASSUME CommitInv, Next PROVE LateDisturbs'
<1>1. CASE late' \subseteq late
  BY <1>1, DisturbedStays DEF CommitInv, LateDisturbs, KeyFor
<1>2. CASE \E r \in Request : Disconnect(r)
  <2>1. PICK r \in Request : Disconnect(r)
    BY <1>2
  <2>2. \A l \in late' \ late : at[r] = "numbered" /\ l.req = r
    BY <2>1 DEF Disconnect
  <2>3. at[r] = "numbered" => KeyFor(r) \in disturbed'
    BY <2>1 DEF Disconnect, InCommit
  <2> QED
    BY <2>2, <2>3, DisturbedStays DEF CommitInv, LateDisturbs, KeyFor
<1> QED
  BY <1>1, <1>2, LateAppears

(* The rename stores the batch, and the file stays. *)
LEMMA CommittedIsStoredStep == ASSUME IInv, Next PROVE CommittedIsStored'
<1> SUFFICES ASSUME NEW r \in Request, Committed(r)', KeyFor(r) \notin disturbed'
             PROVE  \E f \in raw' : f.body = BodyOf[r] /\ f.key = KeyOf[BodyOf[r]]
  BY DEF CommittedIsStored, Stored, KeyFor
<1>1. CASE Rename(r)
  <2>1. [key |-> KeyFor(r), num |-> num[r], body |-> BodyOf[r]] \in raw'
    BY <1>1 DEF Rename, Renamed
  <2> QED
    BY <2>1 DEF KeyFor
<1>2. CASE Committed(r)
  <2>1. PICK f \in raw : f.body = BodyOf[r] /\ f.key = KeyOf[BodyOf[r]]
    BY <1>2, DisturbedStays DEF IInv, CommittedIsStored, Stored
  <2> QED
    BY <2>1, FileStays DEF IInv, KeyFor
<1> QED
  BY <1>1, <1>2, HandlersMove DEF IInv

-----------------------------------------------------------------------------
(* Permits can be counted. *)
LEMMA PermitsFinite == IsFiniteSet(Permits) /\ Cardinality(Permits) \in Nat
<1>1. Permits \in SUBSET Request
  BY DEF Permits
<1>2. IsFiniteSet(Permits)
  BY <1>1, FS_Subset, IngestAssumption
<1> QED
  BY <1>2, FS_CardinalityType

(* A permit is taken when the handler reserves, and leaves with its message. *)
LEMMA PermitsChange ==
    ASSUME CommitInv, Next
    PROVE  \/ \E r \in Request :
                /\ Permits' \subseteq Permits \cup {r}
                /\ HasSlot /\ queue' = queue
           \/ \E r \in Permits :
                /\ Permits' = Permits \ {r}
                /\ Len(queue') = Len(queue) + 1
           \/ /\ Permits' \subseteq Permits
              /\ Len(queue') <= Len(queue)
<1> USE DEF CommitInv, TypeOK, Permits, Goes, Answers, Refuses
<1>1. Len(queue) \in Nat
  OBVIOUS
<1>2. CASE \E r \in Request : Reserve(r)
  BY <1>1, <1>2 DEF Reserve, Status
<1>3. CASE \E r \in Request : Send(r)
  <2>1. PICK r \in Request : Send(r)
    BY <1>3
  <2>2. Len(queue') = Len(queue) + 1
    BY <2>1 DEF Send
  <2>3. r \in Permits /\ Permits' = Permits \ {r}
    BY <2>1 DEF Send
  <2> QED
    BY <2>2, <2>3
<1>4. CASE \E r \in Request : PostRefused(r) \/ Post(r) \/ Buffer(r) \/ Refuse(r) \/ RefuseFails(r)
                               \/ PostFails(r) \/ BufferFails(r)
  BY <1>1, <1>4 DEF PostRefused, Post, Buffer, Refuse, RefuseFails, PostFails, BufferFails, Again
<1>5. CASE \E r \in Request : Lock(r) \/ EnsureDir(r) \/ PickNumber(r) \/ PickNumberFull(r)
                               \/ Rename(r) \/ Sync(r) \/ FindsNothing(r) \/ CommitFails(r)
  BY <1>1, <1>5 DEF Lock, EnsureDir, PickNumber, PickNumberFull, Rename, Sync, FindsNothing,
       CommitFails, InCommit
<1>6. CASE Receive
  BY <1>1, <1>6 DEF Receive, handler
<1>7. CASE Read \/ ReadNothing \/ DropUnparsed \/ Done \/ ReadFails
  BY <1>1, <1>7 DEF Read, ReadNothing, DropUnparsed, Done, ReadFails, Finished, handler
<1>8. CASE (\E l \in late : LateRename(l)) \/ \E k \in Key : Clean(k)
  BY <1>1, <1>8 DEF LateRename, Clean, handler
<1>9. CASE \E r \in Request : Disconnect(r)
  BY <1>1, <1>9 DEF Disconnect
<1>10. CASE Crash
  BY <1>1, <1>10 DEF Crash
<1> QED
  BY <1>2, <1>3, <1>4, <1>5, <1>6, <1>7, <1>8, <1>9, <1>10
     DEF Next, Requests, Failures, Decode, Handle, Receiving, CommitPartial

(* A slot is reserved only where there is one. *)
LEMMA ChannelStep == ASSUME CommitInv, Next, TypeOK' PROVE ChannelBounded'
<1>1. /\ IsFiniteSet(Permits) /\ Cardinality(Permits) \in Nat
      /\ Len(queue) \in Nat /\ Len(queue') \in Nat /\ Capacity \in Nat
  BY PermitsFinite, IngestAssumption DEF CommitInv, TypeOK
<1>2. Len(queue) + Cardinality(Permits) <= Capacity
  BY DEF CommitInv, ChannelBounded
<1>3. IsFiniteSet(Permits') /\ Cardinality(Permits') \in Nat
  <2>1. Permits' \in SUBSET Request
    BY DEF Permits
  <2> QED
    BY <2>1, FS_Subset, FS_CardinalityType, IngestAssumption
<1>4. CASE \E r \in Request : Permits' \subseteq Permits \cup {r} /\ HasSlot /\ queue' = queue
  <2>1. PICK r \in Request : Permits' \subseteq Permits \cup {r} /\ HasSlot /\ queue' = queue
    BY <1>4
  <2>2. IsFiniteSet(Permits \cup {r}) /\ Cardinality(Permits \cup {r}) <= Cardinality(Permits) + 1
    <3>1. Cardinality(Permits \cup {r}) = IF r \in Permits THEN Cardinality(Permits) ELSE Cardinality(Permits) + 1
      BY <1>1, FS_AddElement
    <3>2. IsFiniteSet(Permits \cup {r})
      BY <1>1, FS_AddElement
    <3> QED
      BY <1>1, <3>1, <3>2
  <2>3. Cardinality(Permits') <= Cardinality(Permits \cup {r}) /\ Cardinality(Permits \cup {r}) \in Nat
    BY <2>1, <2>2, FS_Subset, FS_CardinalityType
  <2> QED
    BY <1>1, <1>3, <2>1, <2>2, <2>3 DEF HasSlot, ChannelBounded
<1>5. CASE \E r \in Permits : Permits' = Permits \ {r} /\ Len(queue') = Len(queue) + 1
  <2>1. PICK r \in Permits : Permits' = Permits \ {r} /\ Len(queue') = Len(queue) + 1
    BY <1>5
  <2>2. Cardinality(Permits') = Cardinality(Permits) - 1
    BY <1>1, <2>1, FS_RemoveElement
  <2> QED
    BY <1>1, <1>2, <2>1, <2>2 DEF ChannelBounded
<1>6. CASE Permits' \subseteq Permits /\ Len(queue') <= Len(queue)
  <2>1. Cardinality(Permits') <= Cardinality(Permits)
    BY <1>1, <1>6, FS_Subset
  <2> QED
    BY <1>1, <1>2, <1>3, <1>6, <2>1 DEF ChannelBounded
<1> QED
  BY <1>4, <1>5, <1>6, PermitsChange

-----------------------------------------------------------------------------
(* Every step keeps the commits in order. *)
LEMMA NextCommit == CommitInv /\ [Next]_vars => CommitInv'
<1> SUFFICES ASSUME CommitInv, [Next]_vars
             PROVE  CommitInv'
  OBVIOUS
<1>1. CASE Next
  BY <1>1, NextTyped, ChannelStep, LocksExcludeStep, NumberIsFreeStep, LateDisturbsStep
     DEF CommitInv
<1>2. CASE UNCHANGED vars
  BY <1>2, NextTyped DEF CommitInv, ChannelBounded, Permits, LocksExclude, InCommit, NumberIsFree,
     LateDisturbs, KeyFor, vars, own, handler, files, decoder
<1> QED
  BY <1>1, <1>2

(* Faults are only counted up. *)
LEMMA FaultsGrow == ASSUME CommitInv, Next PROVE faults' \in 0..MaxFaults /\ faults' >= faults
<1>1. faults \in 0..MaxFaults /\ faults' \in 0..MaxFaults
  BY NextCommit DEF CommitInv, TypeOK
<1>2. faults' = faults \/ faults' = faults + 1
  <2>1. CASE Requests
    BY <2>1 DEF Requests, Handle, Receiving, CommitPartial, PostRefused, Post, Buffer, Reserve,
         Refuse, Lock, EnsureDir, PickNumber, PickNumberFull, Rename, Sync, FindsNothing, Send
  <2>2. CASE Failures
    BY <2>2 DEF Failures, PostFails, BufferFails, RefuseFails, CommitFails, Disconnect, LateRename, ReadFails,
         Happens
  <2>3. CASE Decode \/ Done \/ Crash
    BY <2>3 DEF Decode, Receive, Read, ReadNothing, DropUnparsed, Done, Crash, Happens
  <2>4. CASE \E k \in Key : Clean(k)
    BY <2>4 DEF Clean, Happens
  <2> QED
    BY <2>1, <2>2, <2>3, <2>4 DEF Next
<1> QED
  BY <1>1, <1>2, IngestAssumption

(* So does a removal of files by someone who tells nobody. *)
LEMMA LosingFiles ==
    ASSUME CommitInv, raw' \subseteq raw, rawDirs' \subseteq rawDirs, UNCHANGED own
    PROVE  CommitInv'
<1> USE DEF CommitInv, own, handler, decoder
<1>1. TypeOK'
  BY DEF TypeOK
<1>2. Begun' /\ ChannelBounded' /\ LocksExclude' /\ LateDisturbs'
  BY DEF Begun, ChannelBounded, Permits, LocksExclude, InCommit, LateDisturbs, KeyFor
<1>3. NumberIsFree'
  BY DEF NumberIsFree, Numbers, FilesOf, KeyFor
<1> QED
  BY <1>1, <1>2, <1>3

(* Every step keeps the invariant. *)
LEMMA NextIInv == IInv /\ [Next]_vars => IInv'
<1> SUFFICES ASSUME IInv, [Next]_vars
             PROVE  IInv'
  OBVIOUS
<1>1. CASE Next
  BY <1>1, NextCommit, CommittedIsStoredStep DEF IInv
<1>2. CASE UNCHANGED vars
  BY <1>2, NextCommit DEF IInv, CommittedIsStored, Committed, Sent, Stored, KeyFor,
     vars, own, handler, files
<1> QED
  BY <1>1, <1>2

(***************************************************************************)
(* The invariant holds for any number of requests, traces, slots, batch    *)
(* numbers, faults and retries.                                            *)
(***************************************************************************)
THEOREM Inductive == Spec => []IInv
BY InitIInv, NextIInv, PTL DEF Spec

(* What the proofs below need of it. *)
LEMMA CommitsHold == Spec => []CommitInv
<1>1. IInv => CommitInv
  BY DEF IInv
<1> QED
  BY <1>1, Inductive, PTL

(***************************************************************************)
(* Every variable has its type: no handler picks a number past BatchMax.   *)
(***************************************************************************)
THEOREM TypeCorrect == Spec => []TypeOK
<1>1. CommitInv => TypeOK
  BY DEF CommitInv
<1> QED
  BY <1>1, CommitsHold, PTL

(***************************************************************************)
(* The permit reserved before the commit is what keeps the channel within  *)
(* its capacity when the message is sent after it (http/ingest.rs).        *)
(***************************************************************************)
THEOREM ChannelBoundedHolds == Spec => []ChannelBounded
<1>1. CommitInv => ChannelBounded
  BY DEF CommitInv
<1> QED
  BY <1>1, CommitsHold, PTL

(***************************************************************************)
(* What was answered 200 is on disk, whatever fails and whenever the       *)
(* process dies, in a trace that the loops did not clean and no client     *)
(* left in mid-commit.                                                     *)
(***************************************************************************)
THEOREM AckedIsOnDiskHolds == Spec => []AckedIsOnDisk
<1>1. IInv => AckedIsOnDisk
  BY DEF IInv, CommittedIsStored, Committed, AckedIsOnDisk
<1> QED
  BY <1>1, Inductive, PTL

(***************************************************************************)
(* No batch file is removed or replaced in an undisturbed trace: the lock  *)
(* around the numbering and the rename does what http/storage.rs says.     *)
(***************************************************************************)
THEOREM CommittedFilesStayHolds == Spec => CommittedFilesStay
<1>1. CommitInv /\ [Next]_vars => [\A f \in raw : f \in raw' \/ f.key \in disturbed']_vars
  BY FileStays
<1> QED
  BY <1>1, CommitsHold, PTL DEF Spec, CommittedFilesStay

(* Who turns an answer into a 503 saw no slot. *)
LEMMA NewBackpressure ==
    ASSUME CommitInv, Next, NEW r \in Request, (answer[r])' = "503", answer[r] # "503"
    PROVE  ~HasSlot
<1> USE DEF CommitInv, TypeOK, Goes, Answers, Refuses
<1>1. CASE \E s \in Request : Reserve(s)
  BY <1>1 DEF Reserve, Status
<1>2. CASE \E s \in Request : PostRefused(s)
  BY <1>2 DEF PostRefused, EarlyStatus
<1>3. CASE \E s \in Request : Post(s) \/ Buffer(s) \/ Refuse(s) \/ RefuseFails(s) \/ PostFails(s) \/ BufferFails(s)
  BY <1>3 DEF Post, Buffer, Refuse, RefuseFails, PostFails, BufferFails
<1>4. CASE \E s \in Request : Lock(s) \/ EnsureDir(s) \/ PickNumber(s) \/ PickNumberFull(s)
                               \/ Rename(s) \/ Sync(s) \/ FindsNothing(s) \/ Send(s)
                               \/ CommitFails(s) \/ Disconnect(s)
  BY <1>4 DEF Lock, EnsureDir, PickNumber, PickNumberFull, Rename, Sync, FindsNothing, Send,
       CommitFails, Disconnect
<1>5. CASE Decode \/ Done \/ ReadFails
  BY <1>5 DEF Decode, Receive, Read, ReadNothing, DropUnparsed, Done, ReadFails, Finished, handler
<1>6. CASE (\E l \in late : LateRename(l)) \/ \E k \in Key : Clean(k)
  BY <1>6 DEF LateRename, Clean, handler
<1>7. CASE Crash
  BY <1>7 DEF Crash
<1> QED
  BY <1>1, <1>2, <1>3, <1>4, <1>5, <1>6, <1>7
     DEF Next, Requests, Failures, Handle, Receiving, CommitPartial

(***************************************************************************)
(* /ready answers 503 before any request is refused for lack of a slot, as *)
(* it counts the permits that the handlers hold.                           *)
(***************************************************************************)
THEOREM BackpressureForeseen == Spec => BackpressureIsForeseen
<1> DEFINE A == \A r \in Request : (answer[r])' = "503" /\ answer[r] # "503" => ~Ready
<1>1. CommitInv /\ [Next]_vars => [A]_vars
  <2> SUFFICES ASSUME CommitInv, Next, NEW r \in Request, (answer[r])' = "503", answer[r] # "503"
               PROVE  ~Ready
    BY DEF vars
  <2>1. ~HasSlot
    BY NewBackpressure
  <2>2. Cardinality(Permits) \in Nat /\ Len(queue) \in Nat /\ Capacity \in Nat \ {0}
    BY PermitsFinite, IngestAssumption DEF CommitInv, TypeOK
  <2> QED
    BY <2>1, <2>2 DEF HasSlot, Ready, Spare
<1> QED
  BY <1>1, CommitsHold, PTL DEF Spec, BackpressureIsForeseen

-----------------------------------------------------------------------------
(***************************************************************************)
(* What a handler leaves on disk.  What is stored came with the token and  *)
(* passed every check; a partial file is that of a handler at work, or is  *)
(* left where Ingest says so.                                              *)
(***************************************************************************)

(* The headers of r pass, and the batch b is within size, meta and schema. *)
Asked(r)  == r \notin NoToken \cup WrongType
Decent(b) == b \notin TooLarge \cup NoMeta \cup OtherSchema

(* A handler that has come this far has made these checks. *)
HandlersChecked ==
    \A r \in Request :
        /\ at[r] \notin {"idle", "done"} => Asked(r)
        /\ at[r] = "buffered" => BodyOf[r] \notin TooLarge
        /\ r \in Permits => Decent(BodyOf[r])

LateChecked == \A l \in late : Asked(l.req) /\ Decent(BodyOf[l.req])

FilesChecked == \A f \in raw : f.key = KeyOf[f.body] /\ Decent(f.body) /\ Welcome(f.body)

(* A request sent once, whose batch is stored, has come to its rename. *)
PastRename(r) ==
    \/ at[r] \in {"renamed", "synced"}
    \/ at[r] \in {"refusing", "done"} /\ answer[r] \in {"200", "500", "gone", "lost"}

StoredByItself ==
    \A r \in Request : Stored(BodyOf[r]) => posts[r] >= 1 /\ (posts[r] = 1 => PastRename(r))

LateIsGone ==
    \A l \in late : LET r == l.req
                     IN  posts[r] >= 1 /\ (posts[r] = 1 => at[r] = "done" /\ answer[r] = "gone")

(* The trace of r has no number left, or had none until it was disturbed. *)
Full(r) == BatchMax \in Numbers(raw, KeyFor(r)) \/ KeyFor(r) \in disturbed

PartialsKnown ==
    /\ \A p \in partials : p[2] <= posts[p[1]]
    /\ \A r \in Request : Partial(r) \in partials =>
        /\ at[r] \notin {"renamed", "synced"}
        /\ at[r] = "done" => \/ answer[r] = "gone"
                             \/ Partial(r) \in unremoved
                             \/ answer[r] = "500" /\ Full(r)

Checked == HandlersChecked /\ LateChecked /\ FilesChecked

-----------------------------------------------------------------------------
(* Every step by its actor. *)
LEMMA Actions ==
    ASSUME Next
    PROVE  \/ \E s \in Request :
                \/ PostRefused(s) \/ Post(s) \/ PostFails(s)
                \/ Buffer(s) \/ BufferFails(s) \/ Reserve(s) \/ Refuse(s) \/ RefuseFails(s)
                \/ Lock(s) \/ EnsureDir(s) \/ PickNumber(s) \/ PickNumberFull(s)
                \/ Rename(s) \/ Sync(s) \/ FindsNothing(s) \/ CommitFails(s) \/ Send(s)
                \/ Disconnect(s)
           \/ Crash
           \/ UNCHANGED <<handler, partials>>
           \/ \E l \in late : LateRename(l) /\ UNCHANGED handler /\ partials' \subseteq partials
<1>1. CASE Requests
  BY <1>1 DEF Requests, Handle, Receiving, CommitPartial
<1>2. CASE Failures
  <2>1. ASSUME NEW l \in late, LateRename(l) PROVE UNCHANGED handler /\ partials' \subseteq partials
    BY <2>1 DEF LateRename
  <2>2. CASE ReadFails
    BY <2>2 DEF ReadFails, Finished
  <2> QED
    BY <1>2, <2>1, <2>2 DEF Failures
<1>3. CASE Decode \/ Done
  BY <1>3 DEF Decode, Receive, Read, ReadNothing, DropUnparsed, Done, Finished
<1>4. CASE \E k \in Key : Clean(k)
  BY <1>4 DEF Clean
<1> QED
  BY <1>1, <1>2, <1>3, <1>4 DEF Next

(***************************************************************************)
(* How one handler goes on: within one request it never goes back before   *)
(* its rename nor changes its answer, and there are few ways to the end.   *)
(***************************************************************************)
Onward(r) ==
    /\ posts'[r] = posts[r] \/ posts'[r] = posts[r] + 1
    /\ posts'[r] = posts[r] =>
        /\ PastRename(r) => PastRename(r)'
        /\ at[r] = "done" => at'[r] = "done" /\ answer'[r] = answer[r]
        /\ at'[r] \in {"renamed", "synced"} => at[r] \in {"renamed", "synced"} \/ Rename(r)
        /\ at'[r] = "done" =>
            \/ at[r] \in {"done", "synced"} \/ answer'[r] = "gone"
            \/ Refuse(r) \/ RefuseFails(r) \/ PickNumberFull(r) \/ Crash
    /\ posts'[r] # posts[r] => at'[r] \in {"streaming", "done"}

(* Every step takes a handler on in this way. *)
LEMMA HandlersGoOn == ASSUME CommitInv, Next, NEW r \in Request PROVE Onward(r)
<1> USE DEF Onward, PastRename, Goes, Answers, Refuses, handler
<1>0. /\ at \in [Request -> {"idle", "streaming", "buffered", "refusing", "reserved", "locked",
                             "dir", "numbered", "renamed", "synced", "done"}]
      /\ answer \in [Request -> {"none", "gone", "lost", "200", "400", "401", "413", "415",
                                 "422", "500", "503"}]
      /\ posts \in [Request -> 0..MaxPosts] /\ posts[r] + 1 # posts[r]
  BY IngestAssumption DEF CommitInv, TypeOK
<1>1. ASSUME NEW s \in Request, PostRefused(s) \/ Post(s) \/ PostFails(s) PROVE Onward(r)
  BY <1>0, <1>1 DEF PostRefused, Post, PostFails
<1>2. ASSUME NEW s \in Request, Buffer(s) \/ BufferFails(s) PROVE Onward(r)
  BY <1>0, <1>2 DEF Buffer, BufferFails
<1>3. ASSUME NEW s \in Request, Reserve(s) PROVE Onward(r)
  BY <1>0, <1>3 DEF Reserve
<1>4. ASSUME NEW s \in Request, Refuse(s) \/ RefuseFails(s) PROVE Onward(r)
  BY <1>0, <1>4 DEF Refuse, RefuseFails
<1>5. ASSUME NEW s \in Request, Lock(s) \/ EnsureDir(s) \/ PickNumber(s) PROVE Onward(r)
  BY <1>0, <1>5 DEF Lock, EnsureDir, PickNumber
<1>6. ASSUME NEW s \in Request, PickNumberFull(s) PROVE Onward(r)
  BY <1>0, <1>6 DEF PickNumberFull
<1>7. ASSUME NEW s \in Request, Rename(s) \/ Sync(s) \/ FindsNothing(s) PROVE Onward(r)
  BY <1>0, <1>7 DEF Rename, Sync, FindsNothing
<1>8. ASSUME NEW s \in Request, CommitFails(s) PROVE Onward(r)
  BY <1>0, <1>8 DEF CommitFails, InCommit
<1>9. ASSUME NEW s \in Request, Send(s) PROVE Onward(r)
  BY <1>0, <1>9 DEF Send
<1>10. ASSUME NEW s \in Request, Disconnect(s) PROVE Onward(r)
  BY <1>0, <1>10 DEF Disconnect, InCommit
<1>11. CASE Crash
  BY <1>0, <1>11 DEF Crash
<1>12. CASE UNCHANGED handler
  BY <1>0, <1>12
<1> QED
  BY <1>1, <1>2, <1>3, <1>4, <1>5, <1>6, <1>7, <1>8, <1>9, <1>10, <1>11, <1>12, Actions

-----------------------------------------------------------------------------
(* A handler goes past a check only when it holds. *)
LEMMA HandlersCheckedStep == ASSUME CommitInv, HandlersChecked, Next PROVE HandlersChecked'
<1> USE DEF Goes, Answers, Refuses, Permits, handler
<1>0. at \in [Request -> {"idle", "streaming", "buffered", "refusing", "reserved", "locked",
                          "dir", "numbered", "renamed", "synced", "done"}]
  BY DEF CommitInv, TypeOK
<1>1. ASSUME NEW s \in Request, PostRefused(s) \/ PostFails(s) PROVE HandlersChecked'
  BY <1>0, <1>1 DEF PostRefused, PostFails, HandlersChecked
<1>2. ASSUME NEW s \in Request, Post(s) PROVE HandlersChecked'
  <2>1. Asked(s)
    BY <1>2 DEF Post, EarlyStatus, Asked
  <2> QED
    BY <1>0, <1>2, <2>1 DEF Post, HandlersChecked
<1>3. ASSUME NEW s \in Request, Buffer(s) \/ BufferFails(s) PROVE HandlersChecked'
  BY <1>0, <1>3 DEF Buffer, BufferFails, HandlersChecked
<1>4. ASSUME NEW s \in Request, Reserve(s) PROVE HandlersChecked'
  <2>1. Status(s) = "200" => BodyOf[s] \notin NoMeta \cup OtherSchema
    BY DEF Status
  <2>2. at[s] = "buffered" /\ BodyOf[s] \notin TooLarge
    BY <1>4 DEF Reserve, HandlersChecked
  <2>3. at' = [at EXCEPT ![s] = "refusing"] \/ (at' = [at EXCEPT ![s] = "reserved"] /\ Decent(BodyOf[s]))
    BY <1>4, <2>1, <2>2 DEF Reserve, Decent
  <2> QED
    BY <1>0, <2>2, <2>3 DEF HandlersChecked
<1>5. ASSUME NEW s \in Request,
             \/ Refuse(s) \/ RefuseFails(s) \/ Lock(s) \/ EnsureDir(s) \/ PickNumber(s) \/ PickNumberFull(s)
             \/ Rename(s) \/ Sync(s) \/ FindsNothing(s) \/ CommitFails(s) \/ Send(s) \/ Disconnect(s)
      PROVE  HandlersChecked'
  <2>1. PICK place : /\ at' = [at EXCEPT ![s] = place]
                     /\ place \in {"locked", "dir", "numbered", "renamed", "synced", "refusing", "done"}
                     /\ place = "refusing" \/ place = "done" \/ s \in Permits
                     /\ place # "done" => at[s] \notin {"idle", "done"}
    BY <1>5 DEF Refuse, RefuseFails, Lock, EnsureDir, PickNumber, PickNumberFull, Rename, Sync, FindsNothing,
                CommitFails, Send, Disconnect, InCommit
  <2> QED
    BY <1>0, <2>1 DEF HandlersChecked
<1>6. CASE Crash
  BY <1>0, <1>6 DEF Crash, HandlersChecked
<1>7. CASE UNCHANGED handler
  BY <1>0, <1>7 DEF HandlersChecked
<1> QED
  BY <1>1, <1>2, <1>3, <1>4, <1>5, <1>6, <1>7, Actions

(* A late rename is one of a handler in its commit. *)
LEMMA LateCheckedStep == ASSUME CommitInv, Checked, Next PROVE LateChecked'
<1>1. CASE late' \subseteq late
  BY <1>1 DEF Checked, LateChecked
<1>2. ASSUME NEW r \in Request, Disconnect(r) PROVE LateChecked'
  <2>1. \A l \in late' \ late : at[r] = "numbered" /\ l.req = r
    BY <1>2 DEF Disconnect
  <2>2. at[r] = "numbered" => Asked(r) /\ Decent(BodyOf[r])
    BY DEF Checked, HandlersChecked, Permits
  <2> QED
    BY <2>1, <2>2 DEF Checked, LateChecked
<1> QED
  BY <1>1, <1>2, LateAppears

(* What a rename stores was checked. *)
LEMMA FilesCheckedStep == ASSUME CommitInv, Checked, Next PROVE FilesChecked'
<1>1. ASSUME NEW r \in Request, NEW n, Asked(r), Decent(BodyOf[r]), raw' = Renamed(r, n)
      PROVE  FilesChecked'
  BY <1>1 DEF Checked, FilesChecked, Renamed, Welcome, Asked, KeyFor
<1>2. ASSUME NEW r \in Request, Rename(r) PROVE FilesChecked'
  <2>1. Asked(r) /\ Decent(BodyOf[r])
    BY <1>2 DEF Rename, Checked, HandlersChecked, Permits
  <2> QED
    BY <1>1, <1>2, <2>1 DEF Rename
<1>3. ASSUME NEW l \in late, LateRename(l) PROVE FilesChecked'
  <2>1. l.req \in Request /\ Asked(l.req) /\ Decent(BodyOf[l.req])
    BY DEF CommitInv, TypeOK, Checked, LateChecked
  <2> QED
    BY <1>1, <1>3, <2>1 DEF LateRename, Checked, FilesChecked
<1>4. ASSUME NEW k \in Key, Clean(k) PROVE FilesChecked'
  BY <1>4 DEF Clean, Checked, FilesChecked
<1> QED
  BY <1>2, <1>3, <1>4, FilesChange DEF Checked, FilesChecked

-----------------------------------------------------------------------------
(* Each batch is carried by one request, which the recorder sends again. *)
Apart == \A r, s \in Request : BodyOf[r] = BodyOf[s] => r = s

(* A batch that is stored has been renamed, by its handler or after it. *)
LEMMA StoredBy ==
    ASSUME CommitInv, Apart, Next, NEW r \in Request, Stored(BodyOf[r])'
    PROVE  Stored(BodyOf[r]) \/ Rename(r) \/ \E l \in late : LateRename(l) /\ l.req = r
<1>1. ASSUME NEW s \in Request, NEW n, raw' = Renamed(s, n), s # r PROVE Stored(BodyOf[r])
  BY <1>1 DEF Stored, Renamed, Apart
<1>2. ASSUME NEW s \in Request, Rename(s), s # r PROVE Stored(BodyOf[r])
  BY <1>1, <1>2 DEF Rename
<1>3. ASSUME NEW l \in late, LateRename(l), l.req # r PROVE Stored(BodyOf[r])
  <2>1. l.req \in Request
    BY DEF CommitInv, TypeOK
  <2>2. raw' = Renamed(l.req, l.num) \/ raw' = raw
    BY <1>3 DEF LateRename
  <2> QED
    BY <1>1, <1>3, <2>1, <2>2 DEF Stored
<1>4. ASSUME NEW k \in Key, Clean(k) PROVE Stored(BodyOf[r])
  BY <1>4 DEF Clean, Stored
<1>5. CASE raw' = raw
  BY <1>5 DEF Stored
<1> QED
  BY <1>2, <1>3, <1>4, <1>5, FilesChange

(* If no two requests have the same body, what is stored was renamed by its *)
(* own request, and a copy of a lost try belongs to one that went away.     *)
LEMMA StoredByItselfStep ==
    ASSUME CommitInv, Apart, StoredByItself, LateIsGone, Next
    PROVE  StoredByItself' /\ LateIsGone'
<1>0. \A r \in Request : Onward(r) /\ posts[r] \in Nat /\ (at[r] # "idle" => posts[r] >= 1)
  BY HandlersGoOn, IngestAssumption DEF CommitInv, TypeOK, Begun
<1>1. ASSUME NEW r \in Request, Stored(BodyOf[r])'
      PROVE  posts'[r] >= 1 /\ (posts'[r] = 1 => PastRename(r)')
  <2>1. CASE Stored(BodyOf[r])
    <3>1. posts[r] >= 1 /\ (posts[r] = 1 => PastRename(r))
      BY <2>1 DEF StoredByItself
    <3> QED
      BY <1>0, <3>1 DEF Onward
  <2>2. CASE Rename(r)
    BY <1>0, <2>2 DEF Rename, Goes, PastRename, CommitInv, TypeOK
  <2>3. ASSUME NEW l \in late, LateRename(l), l.req = r
        PROVE  posts'[r] >= 1 /\ (posts'[r] = 1 => PastRename(r)')
    BY <1>0, <2>3 DEF LateRename, LateIsGone, handler, PastRename
  <2> QED
    BY <1>1, <2>1, <2>2, <2>3, StoredBy
<1>2. ASSUME NEW l \in late' PROVE LET r == l.req
                                   IN  /\ posts'[r] >= 1
                                       /\ posts'[r] = 1 => at'[r] = "done" /\ answer'[r] = "gone"
  <2>1. CASE l \in late
    <3>1. l.req \in Request
      BY <2>1 DEF CommitInv, TypeOK
    <3> QED
      BY <1>0, <2>1, <3>1 DEF LateIsGone, Onward
  <2>2. CASE l \notin late
    <3>1. PICK r \in Request : Disconnect(r)
      BY <1>2, <2>2, LateAppears
    <3>2. l.req = r /\ at[r] = "numbered"
      BY <1>2, <2>2, <3>1 DEF Disconnect
    <3> QED
      BY <1>0, <3>1, <3>2 DEF Disconnect, Answers, Goes, CommitInv, TypeOK
  <2> QED
    BY <2>1, <2>2
<1> QED
  BY <1>1, <1>2 DEF StoredByItself, LateIsGone

-----------------------------------------------------------------------------
(* A trace that is full stays full: a rename gives no number back. *)
LEMMA FullStays ==
    ASSUME CommitInv, Next, NEW r \in Request, Full(r)
    PROVE  Full(r)'
<1>1. ASSUME NEW s, NEW n, raw' = Renamed(s, n)
      PROVE  \A k : Numbers(raw, k) \subseteq Numbers(raw', k)
  <2> SUFFICES ASSUME NEW k, NEW f \in raw, f.key = k
               PROVE  \E g \in raw' : g.key = k /\ g.num = f.num
    BY DEF Numbers, FilesOf
  <2>1. CASE f.key # KeyFor(s) \/ f.num # n
    BY <1>1, <2>1 DEF Renamed
  <2>2. CASE f.key = KeyFor(s) /\ f.num = n
    <3> DEFINE g == [key |-> KeyFor(s), num |-> n, body |-> BodyOf[s]]
    <3>1. g \in raw' /\ g.key = KeyFor(s) /\ g.num = n
      BY <1>1 DEF Renamed
    <3> QED
      BY <2>2, <3>1
  <2> QED
    BY <2>1, <2>2
<1>2. ASSUME \A k : Numbers(raw, k) \subseteq Numbers(raw', k) PROVE Full(r)'
  BY <1>2, DisturbedStays DEF Full, KeyFor
<1>3. CASE \E s \in Request : Rename(s)
  BY <1>1, <1>2, <1>3 DEF Rename
<1>4. CASE \E l \in late : LateRename(l)
  BY <1>1, <1>2, <1>4 DEF LateRename
<1>5. ASSUME NEW k \in Key, Clean(k) PROVE Full(r)'
  BY <1>5 DEF Clean, Full, KeyFor, Numbers, FilesOf
<1>6. CASE raw' = raw
  BY <1>2, <1>6
<1> QED
  BY <1>3, <1>4, <1>5, <1>6, FilesChange

(* PickNumberFull fails because the last number is taken. *)
LEMMA FullWhenPickFails ==
    ASSUME CommitInv, NEW r \in Request, PickNumberFull(r)
    PROVE  BatchMax \in Numbers(raw, KeyFor(r))
<1> DEFINE N == Numbers(raw, KeyFor(r))
           S == {0} \cup N
<1>1. N \subseteq 1..BatchMax
  BY DEF Numbers, FilesOf, CommitInv, TypeOK
<1>2. S \in SUBSET (0..BatchMax) /\ S # {}
  BY <1>1, RawAssumption
<1>3. Max(S) \in S
  <2> HIDE DEF S
  <2> QED
    BY <1>2, MaxBounds
<1>4. 1 + Max(S) > BatchMax
  BY DEF PickNumberFull, NextNumber
<1> HIDE DEF N
<1>5. Max(S) \in 0..BatchMax
  BY <1>2, <1>3
<1> HIDE DEF S
<1>6. Max(S) = BatchMax
  BY <1>4, <1>5, RawAssumption
<1> QED
  BY <1>3, <1>6, RawAssumption DEF S, N

(* A partial file is made by the request it is named after. *)
LEMMA PartialsChange ==
    ASSUME Next
    PROVE  \/ partials' \subseteq partials
           \/ \E s \in Request : Post(s) /\ partials' = partials \cup {<<s, posts'[s]>>}
<1> USE DEF WithoutPartial, handler
<1>1. ASSUME NEW s \in Request, Post(s) PROVE partials' = partials \cup {<<s, posts'[s]>>}
  BY <1>1 DEF Post
<1>2. ASSUME NEW s \in Request,
             \/ PostRefused(s) \/ PostFails(s)
             \/ Buffer(s) \/ BufferFails(s) \/ Reserve(s) \/ Refuse(s) \/ RefuseFails(s)
             \/ Lock(s) \/ EnsureDir(s) \/ PickNumber(s) \/ PickNumberFull(s)
             \/ Rename(s) \/ Sync(s) \/ FindsNothing(s) \/ CommitFails(s) \/ Send(s)
             \/ Disconnect(s)
      PROVE  partials' \subseteq partials
  BY <1>2 DEF PostRefused, PostFails, Buffer, BufferFails, Reserve, Refuse, RefuseFails, Lock, EnsureDir,
              PickNumber, PickNumberFull, Rename, Sync, FindsNothing, CommitFails, Send, Disconnect
<1>3. CASE Crash
  BY <1>3 DEF Crash, DrainedPartials
<1> QED
  BY <1>1, <1>2, <1>3, Actions

(* What could not be removed once is noted until the restart. *)
LEMMA UnremovedStay == ASSUME Next, ~Crash PROVE unremoved \subseteq unremoved'
<1>1. CASE Requests
  BY <1>1 DEF Requests, Handle, Receiving, CommitPartial, PostRefused, Post, Buffer, Reserve,
       Refuse, Lock, EnsureDir, PickNumber, PickNumberFull, Rename, Sync, FindsNothing, Send
<1>2. CASE Failures
  BY <1>2 DEF Failures, PostFails, BufferFails, RefuseFails, CommitFails, Disconnect, LateRename,
       ReadFails, Finished
<1>3. CASE Decode \/ Done \/ \E k \in Key : Clean(k)
  BY <1>3 DEF Decode, Receive, Read, ReadNothing, DropUnparsed, Done, Finished, Clean
<1> QED
  BY <1>1, <1>2, <1>3 DEF Next

(* A partial file belongs to a try that was made and did not reach its rename. *)
LEMMA PartialsStep == ASSUME CommitInv, PartialsKnown, Next PROVE PartialsKnown'
<1>0. \A r \in Request : Onward(r) /\ posts[r] \in Nat
  BY HandlersGoOn, IngestAssumption DEF CommitInv, TypeOK
<1>1. \A p \in partials' : p[2] <= posts'[p[1]]
  <2>1. \A p \in partials : p[1] \in Request /\ p[2] \in Nat /\ p[2] <= posts[p[1]]
    BY IngestAssumption DEF CommitInv, TypeOK, PartialsKnown
  <2>2. \A p \in partials : p[2] <= posts'[p[1]]
    BY <1>0, <2>1 DEF Onward
  <2>3. ASSUME NEW s \in Request PROVE posts'[s] <= posts'[s]
    BY <1>0 DEF Onward
  <2> QED
    BY <2>2, <2>3, PartialsChange
<1>2. ASSUME NEW r \in Request, Partial(r)' \in partials'
      PROVE  /\ at'[r] \notin {"renamed", "synced"}
             /\ at'[r] = "done" => \/ answer'[r] = "gone"
                                   \/ Partial(r)' \in unremoved'
                                   \/ answer'[r] = "500" /\ Full(r)'
  <2>1. CASE Partial(r)' \in partials
    <3>1. posts'[r] = posts[r] /\ Partial(r)' = Partial(r)
      <4>1. posts'[r] <= posts[r]
        BY <2>1 DEF Partial, PartialsKnown
      <4> QED
        BY <1>0, <4>1 DEF Onward, Partial
    <3>2. /\ at[r] \notin {"renamed", "synced"}
          /\ at[r] = "done" => \/ answer[r] = "gone"
                               \/ Partial(r) \in unremoved
                               \/ answer[r] = "500" /\ Full(r)
      BY <2>1, <3>1 DEF PartialsKnown
    <3>3. ~Rename(r) /\ ~Refuse(r)
      BY <1>2, <3>1 DEF Rename, Refuse, WithoutPartial
    <3>4. ~Crash
      BY <1>2 DEF Crash, DrainedPartials
    <3>5. PickNumberFull(r) => answer'[r] = "500" /\ Full(r)'
      <4>1. ASSUME PickNumberFull(r) PROVE answer'[r] = "500" /\ Full(r)'
        <5>1. Full(r)
          BY <4>1, FullWhenPickFails DEF Full
        <5>2. answer'[r] = "500"
          BY <4>1 DEF PickNumberFull, Answers, CommitInv, TypeOK
        <5> QED
          BY <5>1, <5>2, FullStays
      <4> QED
        BY <4>1
    <3>6. unremoved \subseteq unremoved' /\ (RefuseFails(r) => Partial(r) \in unremoved')
      BY <3>4, UnremovedStay DEF RefuseFails
    <3> QED
      BY <1>0, <3>1, <3>2, <3>3, <3>4, <3>5, <3>6, FullStays DEF Onward
  <2>2. CASE Partial(r)' \notin partials
    <3>1. PICK s \in Request : Post(s) /\ partials' = partials \cup {<<s, posts'[s]>>}
      BY <1>2, <2>2, PartialsChange
    <3>2. s = r
      BY <1>2, <2>2, <3>1 DEF Partial
    <3> QED
      BY <3>1, <3>2 DEF Post, Goes, CommitInv, TypeOK
  <2> QED
    BY <2>1, <2>2
<1> QED
  BY <1>1, <1>2 DEF PartialsKnown

-----------------------------------------------------------------------------
(* Nothing is stored, and nobody asks, at first. *)
LEMMA InitUploads == Init => Checked /\ StoredByItself /\ LateIsGone /\ PartialsKnown
BY DEF Init, Checked, HandlersChecked, LateChecked, FilesChecked, Permits, StoredByItself, Stored,
       LateIsGone, PartialsKnown

(* A stuttering step changes none of it. *)
LEMMA StutterUploads ==
    UNCHANGED vars =>
        /\ Checked => Checked'
        /\ StoredByItself => StoredByItself'
        /\ LateIsGone => LateIsGone'
        /\ PartialsKnown => PartialsKnown'
BY DEF vars, own, handler, files, Checked, HandlersChecked, LateChecked, FilesChecked, Permits,
       StoredByItself, Stored, PastRename, LateIsGone, PartialsKnown, Partial, Full, KeyFor

(* Whatever is stored, and every handler past a check, passed that check. *)
THEOREM CheckedHolds == Spec => []Checked
<1>1. CommitInv /\ Checked /\ [Next]_vars => Checked'
  BY HandlersCheckedStep, LateCheckedStep, FilesCheckedStep, StutterUploads DEF Checked
<1> QED
  BY <1>1, InitUploads, CommitsHold, PTL DEF Spec

(***************************************************************************)
(* No partial file is left behind but by a client that went away, by a     *)
(* full trace, by a remove_file that failed, or by a kill until the        *)
(* restart: every other path of the handler in http/ingest.rs removes or   *)
(* renames its own.                                                        *)
(***************************************************************************)
THEOREM PartialsKnownHolds == Spec => []PartialsKnown
<1>1. CommitInv /\ PartialsKnown /\ [Next]_vars => PartialsKnown'
  BY PartialsStep, StutterUploads
<1> QED
  BY <1>1, InitUploads, CommitsHold, PTL DEF Spec

(* The same, as the runs state it. *)
THEOREM PartialsAccountedHolds == Spec => []PartialsAccounted
<1>1. CommitInv /\ PartialsKnown => PartialsAccounted
  BY DEF CommitInv, TypeOK, PartialsKnown, PartialsAccounted, Full
<1> QED
  BY <1>1, CommitsHold, PartialsKnownHolds, PTL

(***************************************************************************)
(* INV-5: a batch that fails a check is never stored, and a request that   *)
(* is refused for one, or for lack of a slot, leaves no file, unless its   *)
(* partial cannot be removed.                                              *)
(***************************************************************************)
THEOREM RefusedLeavesNothingHolds ==
    ASSUME Apart
    PROVE  Spec => []RefusedLeavesNothing
<1>1. CommitInv /\ StoredByItself /\ LateIsGone /\ [Next]_vars => (StoredByItself /\ LateIsGone)'
  BY StoredByItselfStep, StutterUploads
<1>2. Checked /\ PartialsKnown /\ StoredByItself => RefusedLeavesNothing
  BY DEF Checked, FilesChecked, Decent, PartialsKnown, StoredByItself, PastRename,
         RefusedLeavesNothing
<1> QED
  BY <1>1, <1>2, InitUploads, CommitsHold, CheckedHolds, PartialsKnownHolds, PTL DEF Spec

(***************************************************************************)
(* Where the key tells traces apart, so do the directories: the handler    *)
(* files a batch under the key of its own meta and no other.               *)
(***************************************************************************)
THEOREM TracesApartHolds ==
    ASSUME \A a, b \in Bodies : KeyOf[a] = KeyOf[b] => TraceOf[a] = TraceOf[b]
    PROVE  Spec => []TracesApart
<1>1. ASSUME CommitInv, Checked, NEW f \in raw, NEW r \in Request, f.key = KeyFor(r)
      PROVE  TraceOf[f.body] = TraceOf[BodyOf[r]]
  <2>1. f.body \in Bodies
    BY <1>1 DEF CommitInv, TypeOK
  <2>2. BodyOf[r] \in Bodies
    BY DEF Bodies
  <2>3. KeyOf[f.body] = KeyOf[BodyOf[r]]
    BY <1>1 DEF Checked, FilesChecked, KeyFor
  <2> QED
    BY <2>1, <2>2, <2>3
<1>2. CommitInv /\ Checked => TracesApart
  BY <1>1 DEF TracesApart
<1> QED
  BY <1>2, CommitsHold, CheckedHolds, PTL

-----------------------------------------------------------------------------
(***************************************************************************)
(* What the comment in http/storage.rs relies on is that a handler is not  *)
(* dropped in its commit.  Then a number picked stays free although the    *)
(* directory may be removed, for the lock is kept until the rename is done. *)
(***************************************************************************)
StaysFree ==
    /\ late = {}
    /\ \A r \in Request : at[r] = "numbered" => num[r] \notin Numbers(raw, KeyFor(r))

LEMMA StaysFreeStep ==
    ASSUME "disconnect" \notin Faults, CommitInv, StaysFree, Next
    PROVE  StaysFree'
<1>1. late' = {}
  BY LateAppears DEF StaysFree, Disconnect, Happens
<1>2. ASSUME NEW r \in Request, at'[r] = "numbered"
      PROVE  num'[r] \notin Numbers(raw', KeyFor(r))
  <2>1. CASE PickNumber(r)
    <3>1. num'[r] = NextNumber(raw, KeyFor(r)) /\ raw' = raw
      BY <2>1 DEF CommitInv, TypeOK, PickNumber, files
    <3> QED
      BY <3>1, PickedIsFree, KeyForIsKey DEF CommitInv
  <2>2. CASE at[r] = "numbered" /\ num'[r] = num[r]
    <3>1. num[r] \notin Numbers(raw, KeyFor(r))
      BY <2>2 DEF StaysFree
    <3>2. ASSUME NEW s \in Request, Rename(s) PROVE num[r] \notin Numbers(raw', KeyFor(r))
      <4>1. s # r
        BY <1>2, <3>2 DEF CommitInv, TypeOK, Rename, Goes
      <4>2. KeyFor(s) # KeyFor(r)
        BY <2>2, <3>2, <4>1 DEF CommitInv, LocksExclude, InCommit, Rename
      <4> QED
        BY <3>1, <3>2, <4>2 DEF Rename, Renamed, Numbers, FilesOf
    <3>3. ASSUME NEW k \in Key, Clean(k) PROVE num[r] \notin Numbers(raw', KeyFor(r))
      BY <3>1, <3>3 DEF Clean, Numbers, FilesOf
    <3> QED
      BY <2>2, <3>1, <3>2, <3>3, FilesChange DEF StaysFree
  <2> QED
    BY <1>2, <2>1, <2>2, HandlersMove
<1> QED
  BY <1>1, <1>2 DEF StaysFree, KeyFor

(***************************************************************************)
(* "Two concurrent batches for the same trace cannot pick the same         *)
(* batch-NNNN filename" (http/storage.rs): true as long as no client goes  *)
(* away, also when directories are removed, files fail and the process     *)
(* dies.                                                                   *)
(***************************************************************************)
THEOREM FilesAreNeverReplacedHolds ==
    ASSUME "disconnect" \notin Faults
    PROVE  Spec => FilesAreNeverReplaced
<1> DEFINE Stay == \A f \in raw : f.num \in Numbers(raw', f.key) => f \in raw'
<1>1. Init => StaysFree
  BY DEF Init, StaysFree
<1>2. CommitInv /\ StaysFree /\ [Next]_vars => StaysFree'
  <2>1. CASE Next
    BY <2>1, StaysFreeStep
  <2>2. CASE UNCHANGED vars
    BY <2>2 DEF StaysFree, KeyFor, vars, own, handler, files
  <2> QED
    BY <2>1, <2>2
<1>3. ASSUME CommitInv, StaysFree, Next PROVE Stay
  <2>1. CASE \E r \in Request : Rename(r)
    BY <1>3, <2>1 DEF StaysFree, Rename, Renamed, Numbers, FilesOf
  <2>2. CASE \E k \in Key : Clean(k)
    BY <2>2 DEF Clean, Numbers, FilesOf
  <2>3. CASE raw' = raw
    BY <2>3
  <2> QED
    BY <1>3, <2>1, <2>2, <2>3, FilesChange DEF StaysFree
<1>4. CommitInv /\ StaysFree /\ [Next]_vars => [Stay]_vars
  BY <1>3
<1> QED
  BY <1>1, <1>2, <1>4, CommitsHold, PTL DEF Spec, FilesAreNeverReplaced

-----------------------------------------------------------------------------
(***************************************************************************)
(* Ingest implements Intake as long as no client goes away, nobody removes *)
(* a directory, the decoder can read and the process lives: of the faults, *)
(* failing file operations of the handlers remain.                         *)
(***************************************************************************)
Undisturbed == Faults \cap {"disconnect", "clean"} = {}

Calm == Faults \subseteq {"io"}

(* The decoder can tell having something from having nothing. *)
Nothing == "unread" \notin Bodies \cup NoCalls /\ NoItem \notin Submissions

(* The file of r's batch under the name its commit picked. *)
MyFile(r) == [key |-> KeyFor(r), num |-> num[r], body |-> BodyOf[r]]

(* The file a submission s was sent for is there, with what s.req carried. *)
Kept(s, fs) ==
    /\ s.key = KeyFor(s.req)
    /\ [key |-> s.key, num |-> s.num, body |-> BodyOf[s.req]] \in fs

(* A name has one file; it keeps it until the decoder has read it. *)
NamesUnique == \A f, g \in raw : f.key = g.key /\ f.num = g.num => f = g

DeliverInv ==
    /\ late = {} /\ disturbed = {}
    /\ NamesUnique
    /\ \A r \in Request : at[r] \in {"renamed", "synced"} => MyFile(r) \in raw
    /\ \A i \in DOMAIN queue : Kept(queue[i], raw)
    /\ item # NoItem /\ body = "unread" => Kept(item, raw)
    /\ item = NoItem => body = "unread"
    /\ body # "unread" => item # NoItem

(* The channel and the decoder change in these ways while the decoder is   *)
(* not in record_batch...                                                  *)
LEMMA RunningChange ==
    ASSUME Requests \/ Failures \/ Decode
    PROVE  \/ \E r \in Request : Send(r)
           \/ Receive \/ Read
           \/ ReadNothing \/ ReadFails \/ DropUnparsed
           \/ UNCHANGED <<queue, decoder>>
<1>1. CASE Requests
  BY <1>1 DEF Requests, Handle, Receiving, CommitPartial, PostRefused, Post, Buffer, Reserve,
       Refuse, Lock, EnsureDir, PickNumber, PickNumberFull, Rename, Sync, FindsNothing
<1>2. CASE Failures
  BY <1>2 DEF Failures, PostFails, BufferFails, RefuseFails, CommitFails, Disconnect, LateRename
<1>3. CASE Decode
  BY <1>3 DEF Decode
<1> QED
  BY <1>1, <1>2, <1>3

(* ... and in these altogether. *)
LEMMA ChannelChange ==
    ASSUME Next
    PROVE  \/ \E r \in Request : Send(r)
           \/ Receive \/ Read \/ Crash
           \/ ReadNothing \/ ReadFails \/ DropUnparsed \/ Done
           \/ UNCHANGED <<queue, decoder>>
<1>1. CASE \E k \in Key : Clean(k)
  BY <1>1 DEF Clean
<1> QED
  BY <1>1, RunningChange DEF Next

(* Only Send answers 200, and a request answered 200 is not sent again. *)
LEMMA OverStays ==
    ASSUME CommitInv, Next, NEW r \in Request
    PROVE  /\ Over(r) => Over(r)'
           /\ Sent(r)' <=> Sent(r) \/ Send(r)
<1> USE DEF Over, Sent, Goes, Answers, Refuses, handler
<1>0. /\ at \in [Request -> {"idle", "streaming", "buffered", "refusing", "reserved", "locked",
                             "dir", "numbered", "renamed", "synced", "done"}]
      /\ answer \in [Request -> {"none", "gone", "lost", "200", "400", "401", "413", "415",
                                 "422", "500", "503"}]
      /\ posts \in [Request -> 0..MaxPosts]
      /\ \A q \in Request : at[q] = "refusing" => answer[q] # "200"
  BY DEF CommitInv, TypeOK, Begun
<1> DEFINE G == /\ Over(r) => Over(r)'
                /\ Sent(r)' <=> Sent(r) \/ Send(r)
<1>1. ASSUME NEW s \in Request, PostRefused(s) \/ Post(s) \/ PostFails(s) PROVE G
  BY <1>0, <1>1, IngestAssumption DEF PostRefused, Post, PostFails, EarlyStatus, Again, Send
<1>2. ASSUME NEW s \in Request, Buffer(s) \/ BufferFails(s) PROVE G
  BY <1>0, <1>2 DEF Buffer, BufferFails, Send
<1>3. ASSUME NEW s \in Request, Reserve(s) \/ Refuse(s) \/ RefuseFails(s) PROVE G
  BY <1>0, <1>3 DEF Reserve, Refuse, RefuseFails, Send
<1>4. ASSUME NEW s \in Request, Lock(s) \/ EnsureDir(s) \/ PickNumber(s) \/ PickNumberFull(s) PROVE G
  BY <1>0, <1>4 DEF Lock, EnsureDir, PickNumber, PickNumberFull, Send
<1>5. ASSUME NEW s \in Request, Rename(s) \/ Sync(s) \/ FindsNothing(s) \/ CommitFails(s) PROVE G
  BY <1>0, <1>5 DEF Rename, Sync, FindsNothing, CommitFails, InCommit, Send
<1>6. ASSUME NEW s \in Request, Send(s) PROVE G
  BY <1>0, <1>6 DEF Send
<1>7. ASSUME NEW s \in Request, Disconnect(s) PROVE G
  BY <1>0, <1>7 DEF Disconnect, InCommit, Send
<1>8. CASE Crash
  BY <1>0, <1>8 DEF Crash, Send
<1>9. CASE UNCHANGED handler
  BY <1>0, <1>9 DEF Send
<1> QED
  BY <1>1, <1>2, <1>3, <1>4, <1>5, <1>6, <1>7, <1>8, <1>9, Actions

(* A trace is disturbed by a client that goes away or by a removal. *)
LEMMA DisturbedBy ==
    ASSUME Next
    PROVE  \/ disturbed' = disturbed
           \/ \E r \in Request : Disconnect(r)
           \/ \E k \in Key : Clean(k)
<1>1. CASE Requests
  BY <1>1 DEF Requests, Handle, Receiving, CommitPartial, PostRefused, Post, Buffer, Reserve,
       Refuse, Lock, EnsureDir, PickNumber, PickNumberFull, Rename, Sync, FindsNothing, Send
<1>2. CASE Failures
  BY <1>2 DEF Failures, PostFails, BufferFails, RefuseFails, CommitFails, LateRename, ReadFails, Finished
<1>3. CASE Decode \/ Done \/ Crash
  BY <1>3 DEF Decode, Receive, Read, ReadNothing, DropUnparsed, Done, Finished, Crash
<1> QED
  BY <1>1, <1>2, <1>3 DEF Next

(* Without either, no file goes or changes, and no rename is late. *)
LEMMA NothingDisturbs ==
    ASSUME CommitInv, DeliverInv, Undisturbed, Next
    PROVE  /\ late' = {} /\ disturbed' = {}
           /\ raw \subseteq raw'
           /\ raw' = raw \/ \E r \in Request : Rename(r)
<1>1. (\A r \in Request : ~Disconnect(r)) /\ (\A k \in Key : ~Clean(k))
  BY DEF Undisturbed, Disconnect, Clean, Happens
<1>2. late' = {} /\ disturbed' = {}
  BY <1>1, LateAppears, DisturbedBy DEF DeliverInv
<1>3. raw \subseteq raw'
  BY <1>2, FileStays
<1>4. raw' = raw \/ \E r \in Request : Rename(r)
  BY <1>1, FilesChange DEF DeliverInv
<1> QED
  BY <1>2, <1>3, <1>4

(* From its rename to its answer a handler keeps the number it picked. *)
LEMMA NumberStays ==
    ASSUME CommitInv, Next, NEW r \in Request, at'[r] \in {"renamed", "synced"}
    PROVE  num'[r] = num[r] /\ (at[r] \in {"renamed", "synced"} \/ Rename(r))
<1> USE DEF Goes, Answers, Refuses, handler
<1>0. /\ at \in [Request -> {"idle", "streaming", "buffered", "refusing", "reserved", "locked",
                             "dir", "numbered", "renamed", "synced", "done"}]
      /\ num \in [Request -> 0..BatchMax]
  BY DEF CommitInv, TypeOK
<1> DEFINE G == num'[r] = num[r] /\ (at[r] \in {"renamed", "synced"} \/ Rename(r))
<1>1. ASSUME NEW s \in Request,
             PostRefused(s) \/ Post(s) \/ PostFails(s) \/ Buffer(s) \/ BufferFails(s)
      PROVE  G
  BY <1>0, <1>1 DEF PostRefused, Post, PostFails, Buffer, BufferFails
<1>2. ASSUME NEW s \in Request, Reserve(s) \/ Refuse(s) \/ RefuseFails(s) \/ Lock(s) \/ EnsureDir(s) PROVE G
  BY <1>0, <1>2 DEF Reserve, Refuse, RefuseFails, Lock, EnsureDir
<1>3. ASSUME NEW s \in Request, PickNumber(s) \/ PickNumberFull(s) \/ Rename(s) \/ Sync(s) PROVE G
  <2>1. CASE Rename(s) \/ Sync(s)
    BY <1>0, <2>1 DEF Rename, Sync
  <2>2. CASE PickNumber(s) \/ PickNumberFull(s)
    BY <1>0, <2>2 DEF PickNumber, PickNumberFull
  <2> QED
    BY <1>3, <2>1, <2>2
<1>4. ASSUME NEW s \in Request, FindsNothing(s) \/ CommitFails(s) \/ Send(s) \/ Disconnect(s) PROVE G
  BY <1>0, <1>4 DEF FindsNothing, CommitFails, Send, Disconnect
<1>5. CASE Crash
  BY <1>0, <1>5 DEF Crash
<1>6. CASE UNCHANGED handler
  BY <1>0, <1>6
<1> QED
  BY <1>1, <1>2, <1>3, <1>4, <1>5, <1>6, Actions

(* A name keeps one file: the rename that would add a second replaces it. *)
LEMMA NamesUniqueStep ==
    ASSUME CommitInv, DeliverInv, Undisturbed, Next
    PROVE  NamesUnique'
<1>1. CASE raw' = raw
  BY <1>1 DEF DeliverInv, NamesUnique
<1>2. ASSUME NEW r \in Request, Rename(r) PROVE NamesUnique'
  BY <1>2 DEF DeliverInv, NamesUnique, Rename, Renamed
<1> QED
  BY <1>1, <1>2, NothingDisturbs

(* What was kept is kept as long as no file goes. *)
LEMMA KeptStays ==
    ASSUME NEW s, NEW fs, NEW gs, Kept(s, fs), fs \subseteq gs
    PROVE  Kept(s, gs)
BY DEF Kept

(* Every step keeps the files of what is under way. *)
LEMMA DeliverStep ==
    ASSUME CommitInv, DeliverInv, Nothing, Undisturbed, Next
    PROVE  DeliverInv'
<1>1. late' = {} /\ disturbed' = {} /\ raw \subseteq raw' /\ NamesUnique'
  BY NothingDisturbs, NamesUniqueStep
<1>2. ASSUME NEW r \in Request, at'[r] \in {"renamed", "synced"} PROVE MyFile(r)' \in raw'
  <2>1. MyFile(r)' = MyFile(r)
    BY <1>2, NumberStays DEF MyFile, KeyFor
  <2>2. CASE at[r] \in {"renamed", "synced"}
    BY <1>1, <2>1, <2>2 DEF DeliverInv
  <2>3. CASE Rename(r)
    BY <2>1, <2>3 DEF Rename, Renamed, MyFile
  <2> QED
    BY <1>2, <2>2, <2>3, NumberStays
<1> DEFINE D == /\ \A i \in DOMAIN queue' : Kept(queue'[i], raw')
                /\ item' # NoItem /\ body' = "unread" => Kept(item', raw')
                /\ item' = NoItem => body' = "unread"
                /\ body' # "unread" => item' # NoItem
<1> SUFFICES D
  BY <1>1, <1>2 DEF DeliverInv
<1>3. queue \in Seq(Submissions) /\ item \in Submissions \cup {NoItem}
  BY DEF CommitInv, TypeOK
<1>4. ASSUME NEW r \in Request, Send(r) PROVE D
  <2>1. queue' = Append(queue, Submission(r)) /\ UNCHANGED decoder /\ raw' = raw /\ at[r] = "synced"
    BY <1>4 DEF Send, files
  <2>2. Kept(Submission(r), raw)
    BY <2>1 DEF DeliverInv, Kept, Submission, MyFile
  <2>3. Submission(r) \in Submissions
    BY <1>4, KeyForIsKey, RawAssumption DEF CommitInv, TypeOK, Begun, Send, Submission, Submissions
  <2>4. \A i \in DOMAIN queue' : Kept(queue'[i], raw)
    BY <1>3, <2>1, <2>2, <2>3 DEF DeliverInv
  <2> QED
    BY <1>1, <2>1, <2>4, KeptStays DEF DeliverInv, decoder
<1>5. CASE Receive
  <2>1. /\ queue # <<>> /\ item = NoItem /\ item' = Head(queue) /\ queue' = Tail(queue)
        /\ body' = body
    BY <1>5 DEF Receive
  <2>2. /\ Head(queue) = queue[1] /\ 1 \in DOMAIN queue /\ queue[1] \in Submissions
        /\ \A i \in DOMAIN queue' : i + 1 \in DOMAIN queue /\ queue'[i] = queue[i + 1]
    BY <1>3, <2>1
  <2>3. \A i \in DOMAIN queue : Kept(queue[i], raw')
    BY <1>1, KeptStays DEF DeliverInv
  <2>4. Kept(item', raw') /\ \A i \in DOMAIN queue' : Kept(queue'[i], raw')
    BY <2>1, <2>2, <2>3 DEF Kept
  <2> QED
    BY <2>1, <2>2, <2>4 DEF DeliverInv, Nothing
<1>6. CASE Read
  <2>1. FileOf(item) \in raw
    BY <1>6 DEF Read, HasFile, Numbers, FilesOf, FileOf
  <2>2. FileOf(item).body # "unread"
    BY <2>1 DEF CommitInv, TypeOK, Nothing
  <2>3. queue' = queue /\ item' = item /\ item # NoItem /\ body' # "unread"
    BY <1>6, <2>2 DEF Read
  <2> QED
    BY <1>1, <2>3, KeptStays DEF DeliverInv
<1>7. CASE ReadNothing \/ ReadFails \/ DropUnparsed \/ Done
  <2>1. queue' = queue /\ item' = NoItem /\ body' = "unread"
    BY <1>7 DEF ReadNothing, ReadFails, DropUnparsed, Done, Finished
  <2> QED
    BY <1>1, <2>1, KeptStays DEF DeliverInv
<1>8. CASE Crash
  <2>1. queue' = <<>> /\ item' = NoItem /\ body' = "unread"
    BY <1>8 DEF Crash
  <2>2. DOMAIN queue' = {}
    BY <2>1
  <2>3. \A i \in DOMAIN queue' : Kept(queue'[i], raw')
    BY <2>2
  <2> QED
    BY <2>1, <2>3
<1>9. CASE UNCHANGED <<queue, decoder>>
  BY <1>1, <1>9, KeptStays DEF DeliverInv, decoder
<1> QED
  BY <1>4, <1>5, <1>6, <1>7, <1>8, <1>9, ChannelChange

-----------------------------------------------------------------------------
(* Taking the first of a sequence off, and adding one at its end. *)
LEMMA OneMore ==
    ASSUME NEW S, NEW p \in Seq(S), NEW q \in Seq(S), NEW x \in S
    PROVE  /\ <<>> \o q = q
           /\ <<x>> \o q # <<>> /\ Head(<<x>> \o q) = x /\ Tail(<<x>> \o q) = q
           /\ <<x>> \o q \in Seq(S) /\ Len(<<x>> \o q) = Len(q) + 1
           /\ p \o Append(q, x) = Append(p \o q, x)
<1>1. <<>> \o q = q
  BY ConcatEmptySeq
<1>2. <<x>> \in Seq(S) /\ Len(<<x>>) = 1 /\ <<x>>[1] = x
  OBVIOUS
<1>3. Len(q) \in Nat
  BY LenProperties
<1>4. /\ <<x>> \o q \in Seq(S) /\ Len(<<x>> \o q) = 1 + Len(q)
      /\ \A i \in 1..(1 + Len(q)) : (<<x>> \o q)[i] = IF i <= 1 THEN <<x>>[i] ELSE q[i - 1]
  BY <1>2, ConcatProperties
<1>5. <<x>> \o q # <<>>
  BY <1>3, <1>4, EmptySeq
<1>6. Head(<<x>> \o q) = x
  BY <1>2, <1>3, <1>4, <1>5
<1>7. Tail(<<x>> \o q) = q
  <2> DEFINE t == Tail(<<x>> \o q)
  <2>1. /\ t \in Seq(S) /\ Len(t) = Len(<<x>> \o q) - 1
        /\ \A i \in 1..Len(t) : t[i] = (<<x>> \o q)[i + 1]
    BY <1>4, <1>5, HeadTailProperties
  <2>2. Len(t) = Len(q)
    BY <1>3, <1>4, <2>1
  <2>3. \A i \in 1..Len(t) : t[i] = q[i]
    BY <1>3, <1>4, <2>1, <2>2
  <2> QED
    BY <2>1, <2>2, <2>3, SeqEqual
<1>8. p \o Append(q, x) = Append(p \o q, x)
  <2>1. Append(q, x) = q \o <<x>>
    BY AppendIsConcat
  <2>2. p \o q \in Seq(S)
    BY ConcatProperties
  <2>3. Append(p \o q, x) = (p \o q) \o <<x>>
    BY <2>2, AppendIsConcat
  <2>4. (p \o q) \o <<x>> = p \o (q \o <<x>>)
    BY <1>2, ConcatAssociative
  <2> QED
    BY <2>1, <2>3, <2>4
<1> QED
  BY <1>1, <1>3, <1>4, <1>5, <1>6, <1>7, <1>8

(* The requests of a queue of submissions. *)
Reqs(q) == [i \in DOMAIN q |-> q[i].req]

(* They are as many, in the same places. *)
LEMMA ReqsOf ==
    ASSUME NEW q \in Seq(Submissions)
    PROVE  /\ Reqs(q) \in Seq(Request) /\ Len(Reqs(q)) = Len(q) /\ Len(q) \in Nat
           /\ \A i \in 1..Len(q) : Reqs(q)[i] = q[i].req
<1>1. Len(q) \in Nat /\ DOMAIN q = 1..Len(q) /\ \A i \in 1..Len(q) : q[i] \in Submissions
  BY LenProperties, ElementOfSeq
<1>2. Reqs(q) \in [1..Len(q) -> Request]
  BY <1>1 DEF Reqs, Submissions
<1>3. Reqs(q) \in Seq(Request)
  BY <1>1, <1>2, SeqDef
<1>4. DOMAIN Reqs(q) = 1..Len(Reqs(q)) /\ Len(Reqs(q)) \in Nat
  BY <1>3, LenProperties
<1>5. Len(Reqs(q)) = Len(q)
  BY <1>1, <1>2, <1>4
<1> QED
  BY <1>1, <1>3, <1>5 DEF Reqs

(* They follow the queue. *)
LEMMA ReqsFollow ==
    ASSUME NEW q \in Seq(Submissions)
    PROVE  /\ \A s \in Submissions : Reqs(Append(q, s)) = Append(Reqs(q), s.req)
           /\ q # <<>> => Reqs(q) = <<Head(q).req>> \o Reqs(Tail(q))
           /\ Reqs(<<>>) = <<>>
<1>0. /\ Reqs(q) \in Seq(Request) /\ Len(Reqs(q)) = Len(q) /\ Len(q) \in Nat
      /\ \A i \in 1..Len(q) : Reqs(q)[i] = q[i].req
  BY ReqsOf
<1>1. ASSUME NEW s \in Submissions PROVE Reqs(Append(q, s)) = Append(Reqs(q), s.req)
  <2> DEFINE a == Append(q, s)
             b == Append(Reqs(q), s.req)
  <2>1. s.req \in Request
    BY DEF Submissions
  <2>2. /\ a \in Seq(Submissions) /\ Len(a) = Len(q) + 1 /\ a[Len(q) + 1] = s
        /\ \A i \in 1..Len(q) : a[i] = q[i]
    BY AppendProperties
  <2>3. /\ b \in Seq(Request) /\ Len(b) = Len(q) + 1 /\ b[Len(q) + 1] = s.req
        /\ \A i \in 1..Len(q) : b[i] = q[i].req
    BY <1>0, <2>1, AppendProperties
  <2> HIDE DEF a, b
  <2>4. /\ Reqs(a) \in Seq(Request) /\ Len(Reqs(a)) = Len(a)
        /\ \A i \in 1..Len(a) : Reqs(a)[i] = a[i].req
    BY <2>2, ReqsOf
  <2>5. ASSUME NEW i \in 1..(Len(q) + 1) PROVE Reqs(a)[i] = b[i]
    <3>1. Reqs(a)[i] = a[i].req
      BY <2>2, <2>4
    <3>2. CASE i \in 1..Len(q)
      BY <1>0, <2>2, <2>3, <3>1, <3>2
    <3>3. CASE i = Len(q) + 1
      BY <2>2, <2>3, <3>1, <3>3
    <3> QED
      BY <1>0, <3>2, <3>3
  <2>6. Reqs(a) = b
    BY <2>2, <2>3, <2>4, <2>5, SeqEqual
  <2> QED
    BY <2>6 DEF a, b
<1>2. ASSUME q # <<>> PROVE Reqs(q) = <<Head(q).req>> \o Reqs(Tail(q))
  <2> DEFINE h == Head(q).req
             t == Tail(q)
  <2>1. /\ t \in Seq(Submissions) /\ Len(t) = Len(q) - 1 /\ Head(q) = q[1] /\ Head(q) \in Submissions
        /\ \A i \in 1..Len(t) : t[i] = q[i + 1]
    BY <1>2, HeadTailProperties
  <2>2. h \in Request /\ h = q[1].req
    BY <2>1 DEF Submissions
  <2>3. Len(q) \in Nat \ {0}
    BY <1>2, EmptySeq
  <2> HIDE DEF h, t
  <2>4. /\ Reqs(t) \in Seq(Request) /\ Len(Reqs(t)) = Len(q) - 1
        /\ \A i \in 1..(Len(q) - 1) : Reqs(t)[i] = q[i + 1].req
    BY <2>1, <2>3, ReqsOf
  <2>5. <<h>> \in Seq(Request) /\ Len(<<h>>) = 1 /\ <<h>>[1] = h
    BY <2>2
  <2>6. /\ <<h>> \o Reqs(t) \in Seq(Request)
        /\ Len(<<h>> \o Reqs(t)) = Len(q)
        /\ \A i \in 1..Len(q) : (<<h>> \o Reqs(t))[i] = IF i <= 1 THEN <<h>>[i] ELSE Reqs(t)[i - 1]
    <3>1. /\ <<h>> \o Reqs(t) \in Seq(Request)
          /\ Len(<<h>> \o Reqs(t)) = Len(<<h>>) + Len(Reqs(t))
          /\ \A i \in 1..(Len(<<h>>) + Len(Reqs(t))) :
                (<<h>> \o Reqs(t))[i] = IF i <= Len(<<h>>) THEN <<h>>[i] ELSE Reqs(t)[i - Len(<<h>>)]
      BY <2>4, <2>5, ConcatProperties
    <3>2. Len(<<h>>) + Len(Reqs(t)) = Len(q)
      BY <2>3, <2>4, <2>5
    <3> QED
      BY <2>5, <3>1, <3>2
  <2>7. \A i \in 1..Len(q) : Reqs(q)[i] = (<<h>> \o Reqs(t))[i]
    BY <1>0, <2>2, <2>3, <2>4, <2>5, <2>6
  <2>8. Reqs(q) = <<h>> \o Reqs(t)
    BY <1>0, <2>6, <2>7, SeqEqual
  <2> QED
    BY <2>8 DEF h, t
<1>3. Reqs(<<>>) = <<>>
  <2>1. <<>> \in Seq(Submissions) /\ Len(<<>>) = 0
    BY EmptySeq
  <2>2. Reqs(<<>>) \in Seq(Request) /\ Len(Reqs(<<>>)) = 0
    BY <2>1, ReqsOf
  <2> QED
    BY <2>2, EmptySeq
<1> QED
  BY <1>1, <1>2, <1>3

(* Who waits to be read, as one operator of the queue and the decoder's hand. *)
LEMMA WaitingIs ==
    ASSUME CommitInv, DeliverInv
    PROVE  /\ Waiting = (IF item # NoItem /\ body = "unread" THEN <<item.req>> ELSE <<>>) \o Reqs(queue)
           /\ item # NoItem => item.req \in Request
           /\ queue \in Seq(Submissions) /\ Reqs(queue) \in Seq(Request)
           /\ Len(Waiting) <= Len(queue) + 1
<1>1. queue \in Seq(Submissions) /\ (item # NoItem => item.req \in Request)
  BY DEF CommitInv, TypeOK, Submissions
<1>2. Reqs(queue) \in Seq(Request) /\ Len(Reqs(queue)) = Len(queue) /\ Len(queue) \in Nat
  BY <1>1, ReqsOf
<1>3. Waiting = (IF item # NoItem /\ body = "unread" THEN <<item.req>> ELSE <<>>) \o Reqs(queue)
  BY DEF Waiting, Reqs
<1>4. CASE item # NoItem /\ body = "unread"
  <2>1. Len(<<item.req>> \o Reqs(queue)) = Len(queue) + 1
    BY <1>1, <1>2, <1>4, OneMore
  <2> QED
    BY <1>1, <1>2, <1>3, <1>4, <2>1
<1>5. CASE ~(item # NoItem /\ body = "unread")
  <2>1. Waiting = Reqs(queue)
    BY <1>2, <1>3, <1>5, ConcatEmptySeq
  <2> QED
    BY <1>1, <1>2, <1>3, <2>1
<1> QED
  BY <1>4, <1>5

(* The same of the next state. *)
LEMMA WaitingNext ==
    Waiting' = (IF item' # NoItem /\ body' = "unread" THEN <<item'.req>> ELSE <<>>) \o Reqs(queue')
BY DEF Waiting, Reqs

(* The requests answered 200. *)
Accepted == {r \in Request : Sent(r)}

(* Steps that are none of the specification's leave the three variables alone. *)
LEMMA IntakeStutters ==
    ASSUME CommitInv, DeliverInv, Next,
           \A r \in Request : ~Send(r), handed' = handed, Waiting' = Waiting
    PROVE  UNCHANGED <<Accepted, Waiting, handed>>
BY OverStays DEF Accepted

(* Send is Accept: who holds a permit finds a slot. *)
LEMMA SendAccepts ==
    ASSUME CommitInv, DeliverInv, Next, NEW r \in Request, Send(r)
    PROVE  /\ r \notin Accepted /\ Accepted' = Accepted \cup {r}
           /\ Len(Waiting) <= Capacity
           /\ Waiting' = Append(Waiting, r)
           /\ handed' = handed
<1> DEFINE w == IF item # NoItem /\ body = "unread" THEN <<item.req>> ELSE <<>>
<1>1. at[r] = "synced" /\ queue' = Append(queue, Submission(r)) /\ UNCHANGED decoder
  BY DEF Send
<1>2. \A s \in Request : Send(s) => s = r
  <2> SUFFICES ASSUME NEW s \in Request, Send(s), s # r PROVE FALSE
    OBVIOUS
  <2>1. at'[r] = at[r] /\ at'[r] = "done"
    BY DEF Send, Answers, Goes, CommitInv, TypeOK
  <2> QED
    BY <1>1, <2>1
<1>3. r \notin Accepted /\ Accepted' = Accepted \cup {r}
  BY <1>1, <1>2, OverStays DEF Accepted, Sent
<1>4. Len(queue) + 1 <= Capacity
  <2>1. IsFiniteSet(Permits) /\ Cardinality(Permits) \in Nat /\ r \in Permits
    BY <1>1, PermitsFinite DEF Permits
  <2>2. Cardinality(Permits) # 0
    BY <2>1, FS_EmptySet
  <2>3. Len(queue) \in Nat /\ Capacity \in Nat
    BY IngestAssumption, WaitingIs, LenProperties
  <2> QED
    BY <2>1, <2>2, <2>3 DEF CommitInv, ChannelBounded
<1>5. Len(Waiting) <= Capacity
  <2>1. Len(Waiting) <= Len(queue) + 1 /\ Len(queue) \in Nat /\ Capacity \in Nat
    BY IngestAssumption, WaitingIs, LenProperties
  <2>2. Len(Waiting) \in Nat
    <3>1. Waiting = w \o Reqs(queue) /\ w \in Seq(Request) /\ Reqs(queue) \in Seq(Request)
      BY WaitingIs
    <3> QED
      BY <3>1, ConcatProperties, LenProperties
  <2> QED
    BY <1>4, <2>1, <2>2
<1>6. Waiting' = Append(Waiting, r)
  <2>1. Submission(r) \in Submissions /\ Submission(r).req = r
    BY KeyForIsKey, RawAssumption, <1>1 DEF CommitInv, TypeOK, Begun, Submission, Submissions
  <2>2. Reqs(queue') = Append(Reqs(queue), r)
    BY <1>1, <2>1, WaitingIs, ReqsFollow
  <2>3. Waiting' = w \o Reqs(queue')
    BY <1>1, WaitingNext DEF decoder
  <2>4. w \in Seq(Request) /\ Reqs(queue) \in Seq(Request) /\ Waiting = w \o Reqs(queue)
    BY WaitingIs
  <2> HIDE DEF w
  <2>5. w \o Append(Reqs(queue), r) = Append(w \o Reqs(queue), r)
    BY <2>4, OneMore
  <2> QED
    BY <2>2, <2>3, <2>4, <2>5
<1> QED
  BY <1>1, <1>3, <1>5, <1>6 DEF decoder

(* Read is HandOver: the file is there, and it is the one that was sent. *)
LEMMA ReadHandsOver ==
    ASSUME CommitInv, DeliverInv, Nothing, Next, Read
    PROVE  /\ Waiting # <<>>
           /\ handed' = Append(handed, BodyOf[Head(Waiting)])
           /\ Waiting' = Tail(Waiting)
           /\ Accepted' = Accepted
<1>1. item # NoItem /\ body = "unread" /\ UNCHANGED <<handler, queue, item>>
  BY DEF Read
<1>2. FileOf(item) \in raw /\ FileOf(item).key = item.key /\ FileOf(item).num = item.num
  BY DEF Read, HasFile, Numbers, FilesOf, FileOf
<1>3. FileOf(item) = [key |-> item.key, num |-> item.num, body |-> BodyOf[item.req]]
  BY <1>1, <1>2 DEF DeliverInv, NamesUnique, Kept
<1>4. body' = BodyOf[item.req] /\ handed' = Append(handed, BodyOf[item.req])
  BY <1>3 DEF Read
<1>5. item.req \in Request /\ Reqs(queue) \in Seq(Request) /\ Waiting = <<item.req>> \o Reqs(queue)
  BY <1>1, WaitingIs
<1>6. body' # "unread"
  BY <1>4, <1>5 DEF Nothing, Bodies
<1>7. Waiting' = <<>> \o Reqs(queue)
  BY <1>1, <1>6, WaitingNext
<1>8. Waiting # <<>> /\ Head(Waiting) = item.req /\ Tail(Waiting) = Reqs(queue) /\ Waiting' = Reqs(queue)
  BY <1>5, <1>7, OneMore
<1>9. Accepted' = Accepted
  BY <1>1 DEF Accepted, Sent, handler
<1> QED
  BY <1>4, <1>8, <1>9

(* A calm step is one of the specification or changes nothing it speaks of. *)
LEMMA IntakeStep ==
    ASSUME CommitInv, DeliverInv, Nothing, Calm, Next
    PROVE  \/ \E r \in Request :
                /\ r \notin Accepted /\ Accepted' = Accepted \cup {r}
                /\ Len(Waiting) <= Capacity
                /\ Waiting' = Append(Waiting, r)
                /\ handed' = handed
           \/ /\ Waiting # <<>>
              /\ handed' = Append(handed, BodyOf[Head(Waiting)])
              /\ Waiting' = Tail(Waiting)
              /\ Accepted' = Accepted
           \/ UNCHANGED <<Accepted, Waiting, handed>>
<1>1. CASE \E r \in Request : Send(r)
  BY <1>1, SendAccepts
<1>2. CASE Read
  BY <1>2, ReadHandsOver
<1> SUFFICES ASSUME \A r \in Request : ~Send(r), ~Read
             PROVE  Waiting' = Waiting /\ handed' = handed
  BY <1>1, <1>2, IntakeStutters
<1>3. CASE UNCHANGED <<queue, decoder>>
  BY <1>3, WaitingNext, WaitingIs DEF decoder
<1>4. CASE Receive
  <2>1. /\ item = NoItem /\ body = "unread" /\ queue # <<>>
        /\ item' = Head(queue) /\ queue' = Tail(queue) /\ UNCHANGED <<body, handed>>
    BY <1>4 DEF Receive, DeliverInv
  <2>2. queue \in Seq(Submissions) /\ Waiting = <<>> \o Reqs(queue) /\ Reqs(queue) \in Seq(Request)
    BY <2>1, WaitingIs
  <2>3. Head(queue) \in Submissions
    BY <2>1, <2>2, HeadTailProperties
  <2>4. Waiting' = <<Head(queue).req>> \o Reqs(Tail(queue))
    BY <2>1, <2>3, WaitingNext DEF Nothing
  <2>5. Waiting = Reqs(queue) /\ Reqs(queue) = <<Head(queue).req>> \o Reqs(Tail(queue))
    BY <2>1, <2>2, ConcatEmptySeq, ReqsFollow
  <2> QED
    BY <2>1, <2>4, <2>5
<1>5. CASE DropUnparsed \/ Done
  <2>1. body # "unread" /\ item' = NoItem /\ UNCHANGED <<queue, handed>>
    BY <1>5 DEF DropUnparsed, Done, Finished, Nothing
  <2> QED
    BY <2>1, WaitingNext, WaitingIs
<1>6. ~ReadFails /\ ~Crash
  BY DEF Calm, ReadFails, Crash, Happens
<1>7. ~ReadNothing
  <2>1. ASSUME ReadNothing PROVE FALSE
    <3>1. Kept(item, raw) /\ ~HasFile(item.key, item.num)
      BY <2>1 DEF ReadNothing, DeliverInv
    <3> DEFINE f == [key |-> item.key, num |-> item.num, body |-> BodyOf[item.req]]
    <3>2. f \in raw /\ f.key = item.key /\ f.num = item.num
      BY <3>1 DEF Kept
    <3> QED
      BY <3>1, <3>2 DEF HasFile, Numbers, FilesOf
  <2> QED
    BY <2>1
<1> QED
  BY <1>3, <1>4, <1>5, <1>6, <1>7, ChannelChange
(* Nobody waits, and nothing is delivered, at the start. *)
LEMMA InitDelivers ==
    ASSUME Init
    PROVE  DeliverInv /\ Accepted = {} /\ Waiting = <<>> /\ handed = <<>>
<1>1. DeliverInv
  BY DEF Init, DeliverInv, NamesUnique
<1>2. Waiting = <<>>
  <2>1. Waiting = <<>> \o Reqs(<<>>) /\ <<>> \in Seq(Submissions)
    BY EmptySeq DEF Init, Waiting, Reqs
  <2>2. Reqs(<<>>) = <<>> /\ <<>> \in Seq(Request)
    BY <2>1, ReqsFollow, EmptySeq
  <2> QED
    BY <2>1, <2>2, ConcatEmptySeq
<1> QED
  BY <1>1, <1>2 DEF Init, Accepted, Sent

(* The same steps, in the words of Intake. *)
LEMMA PromiseStep ==
    ASSUME CommitInv, DeliverInv, Nothing, Calm, Next
    PROVE  Promise!Next \/ UNCHANGED <<Accepted, Waiting, handed>>
BY IntakeStep DEF Promise!Next, Promise!Accept, Promise!HandOver, Accepted

(***************************************************************************)
(* The handlers and the decoder implement Intake, for any number of        *)
(* requests, traces and slots and however often a request is sent again:   *)
(* what was answered 200 is handed over once, in order, as it was sent.    *)
(***************************************************************************)
THEOREM ImplementsIntakeHolds == ASSUME Calm, Nothing PROVE Spec => ImplementsIntake
<1>1. Init => Promise!Init
  BY InitDelivers DEF Promise!Init, Accepted
<1>2. Init => DeliverInv
  BY InitDelivers
<1>3. CommitInv /\ DeliverInv /\ [Next]_vars => DeliverInv'
  <2>1. CASE Next
    BY <2>1, DeliverStep DEF Calm, Undisturbed
  <2>2. CASE UNCHANGED vars
    BY <2>2 DEF DeliverInv, NamesUnique, MyFile, KeyFor, Kept, vars, own, handler, files, decoder
  <2> QED
    BY <2>1, <2>2
<1>4. CommitInv /\ DeliverInv /\ [Next]_vars => [Promise!Next]_(Promise!vars)
  <2>1. CASE Next
    BY <2>1, PromiseStep DEF Promise!vars, Accepted
  <2>2. CASE UNCHANGED vars
    BY <2>2 DEF Promise!vars, Waiting, Sent, vars, own, handler, decoder
  <2> QED
    BY <2>1, <2>2
<1> QED
  BY <1>1, <1>2, <1>3, <1>4, CommitsHold, PTL DEF Spec, ImplementsIntake, Promise!Spec
=============================================================================
