-------------------------------- MODULE Ingest --------------------------------
(***************************************************************************)
(* POST /ingest/v1: the handler cut at its awaits, the commit of a batch   *)
(* file under the trace's lock, the bounded channel, and the decoder task  *)
(* at its other end (crates/php-tree-viz-collector/src/http/ingest.rs,     *)
(* storage.rs, mod.rs, tmp.rs, server.rs).  A request carries one batch;   *)
(* the recorder sends it again when it is not answered 200.                *)
(***************************************************************************)
EXTENDS Integers, Sequences, FiniteSets, RawFiles

CONSTANTS
    Request,
    BodyOf,       \* BodyOf[r]: the batch that r carries
    KeyOf,        \* KeyOf[b]: the trace key of the batch's meta
    TraceOf,      \* TraceOf[b]: the trace it was recorded in
    NoToken,      \* the requests without the token
    WrongType,    \* the requests with another content type
    TooLarge,     \* the batches over max_body_bytes
    NoMeta,       \* the batches whose meta does not parse
    OtherSchema,  \* the batches with another schema_version
    NoCalls,      \* the batches that only parse as far as their meta
    Capacity,     \* server.queue_capacity
    NoItem,       \* item when the decoder has none
    Faults,       \* what may happen: "io", "read", "disconnect", "clean", "crash"
    MaxFaults,    \* bound of the model: how often
    MaxPosts      \* bound of the model: how often a request is sent

Bodies == {BodyOf[r] : r \in Request}

ASSUME IngestAssumption ==
    /\ \A r \in Request : KeyOf[BodyOf[r]] \in Key
    /\ IsFiniteSet(Request)
    /\ Capacity \in Nat \ {0}      \* Config::validate
    /\ Faults \subseteq {"io", "read", "disconnect", "clean", "crash"}
    /\ MaxFaults \in Nat /\ MaxPosts \in Nat

VARIABLES
    at,         \* at[r]: where the handler of r is
    answer,     \* answer[r]: the status sent, "none" before; "gone" if the
                \* client did not wait for it, "lost" if the process died
    num,        \* num[r]: the batch number its commit picked
    posts,      \* posts[r]: how often r was sent, up to MaxPosts
    partials,   \* the tmp/<name>.partial files, one per time a request is sent
    unremoved,  \* history: those of them that remove_file could not remove
    raw,        \* the committed batch files
    rawDirs,    \* the keys whose <key>.raw directory exists
    late,       \* renames that go on although their handler is gone
    queue,      \* the channel: BatchSubmissions
    item,       \* the submission the decoder works on, NoItem if none
    body,       \* what it read from the file, "unread" before
    handed,     \* history: the batches the decoder has read
    disturbed,  \* history: the traces of which a directory was removed, or a
                \* client went away during its commit
    faults      \* how many faults there were, up to MaxFaults

handler == <<at, answer, num, posts>>
files   == <<raw, rawDirs>>
decoder == <<item, body, handed>>
own     == <<handler, partials, unremoved, late, queue, decoder, disturbed, faults>>
vars    == <<own, files>>

KeyFor(r) == KeyOf[BodyOf[r]]

Init ==
    /\ at = [r \in Request |-> "idle"]
    /\ answer = [r \in Request |-> "none"]
    /\ num = [r \in Request |-> 0]
    /\ posts = [r \in Request |-> 0]
    /\ partials = {}
    /\ unremoved = {}
    /\ raw = {}
    /\ rawDirs = {}
    /\ late = {}
    /\ queue = <<>>
    /\ item = NoItem
    /\ body = "unread"
    /\ handed = <<>>
    /\ disturbed = {}
    /\ faults = 0

Happens(what) ==
    /\ what \in Faults
    /\ faults < MaxFaults
    /\ faults' = faults + 1

(* The partial file of r; make_filename never gives a name twice. *)
Partial(r) == <<r, posts[r]>>

Goes(r, place) == at' = [at EXCEPT ![r] = place]

(* The handler returns without touching its partial file any more. *)
Answers(r, status) ==
    /\ Goes(r, "done")
    /\ answer' = [answer EXCEPT ![r] = status]

(* The handler will remove its partial file, then answer. *)
Refuses(r, status) ==
    /\ Goes(r, "refusing")
    /\ answer' = [answer EXCEPT ![r] = status]

-----------------------------------------------------------------------------
(* ingest: receiving the body *)

Again(r) == at[r] = "idle" \/ (at[r] = "done" /\ answer[r] # "200")

(* The recorder is done with r: it was answered 200, or sent often enough. *)
Over(r) == at[r] = "done" /\ (answer[r] = "200" \/ posts[r] = MaxPosts)

(* require_bearer_token, require_msgpack_content_type, Content-Length *)
EarlyStatus(r) ==
    IF r \in NoToken THEN "401"
    ELSE IF r \in WrongType THEN "415"
    ELSE IF BodyOf[r] \in TooLarge THEN "413"
    ELSE "200"

(* Nothing is written. *)
PostRefused(r) ==
    /\ Again(r) /\ posts[r] < MaxPosts
    /\ EarlyStatus(r) # "200"
    /\ posts' = [posts EXCEPT ![r] = @ + 1]
    /\ Answers(r, EarlyStatus(r))
    /\ UNCHANGED <<num, partials, unremoved, files, late, queue, decoder, disturbed, faults>>

MutantGateOpen(r) ==
    /\ Again(r) /\ posts[r] < MaxPosts
    /\ posts' = [posts EXCEPT ![r] = @ + 1]
    /\ Goes(r, "streaming")
    /\ answer' = [answer EXCEPT ![r] = "none"]
    /\ num' = [num EXCEPT ![r] = 0]
    /\ partials' = partials \cup {<<r, posts'[r]>>}
    /\ UNCHANGED <<unremoved, files, late, queue, decoder, disturbed, faults>>

(* open_partial; a body sent in chunks does not declare its length. *)
Post(r) ==
    /\ Again(r) /\ posts[r] < MaxPosts
    /\ EarlyStatus(r) \in {"200", "413"}
    /\ posts' = [posts EXCEPT ![r] = @ + 1]
    /\ Goes(r, "streaming")
    /\ answer' = [answer EXCEPT ![r] = "none"]
    /\ num' = [num EXCEPT ![r] = 0]
    /\ partials' = partials \cup {<<r, posts'[r]>>}
    /\ UNCHANGED <<unremoved, files, late, queue, decoder, disturbed, faults>>

PostFails(r) ==
    /\ Again(r) /\ posts[r] < MaxPosts
    /\ EarlyStatus(r) \in {"200", "413"}
    /\ Happens("io")
    /\ posts' = [posts EXCEPT ![r] = @ + 1]
    /\ Answers(r, "500")
    /\ UNCHANGED <<num, partials, unremoved, files, late, queue, decoder, disturbed>>

(* stream_body_to_file, flush, read back *)
Buffer(r) ==
    /\ at[r] = "streaming"
    /\ IF BodyOf[r] \in TooLarge
       THEN Refuses(r, "413")
       ELSE Goes(r, "buffered") /\ UNCHANGED answer
    /\ UNCHANGED <<num, posts, partials, unremoved, files, late, queue, decoder, disturbed, faults>>

(* A frame cannot be read (400), or the file not written (500). *)
BufferFails(r) ==
    /\ at[r] = "streaming"
    /\ Happens("io")
    /\ \E status \in {"400", "500"} : Refuses(r, status)
    /\ UNCHANGED <<num, posts, partials, unremoved, files, late, queue, decoder, disturbed>>

Permits == {r \in Request : at[r] \in {"reserved", "locked", "dir", "numbered", "renamed", "synced"}}

MutantPermitsFree == Len(queue) < Capacity

(* try_reserve finds a slot: one neither taken by a message nor reserved. *)
HasSlot == Len(queue) + Cardinality(Permits) < Capacity

(* /ready: at least a tenth of the slots is spare, permits being taken. *)
Spare == Capacity - Len(queue) - Cardinality(Permits)

MutantCountsMessages == 10 * (Capacity - Len(queue)) >= Capacity

Ready == 10 * Spare >= Capacity

Status(r) ==
    CASE BodyOf[r] \in NoMeta -> "400"
      [] BodyOf[r] \in OtherSchema -> "422"
      [] OTHER -> "200"

(* parse_meta, the schema check, try_reserve *)
Reserve(r) ==
    /\ at[r] = "buffered"
    /\ \/ Status(r) = "200" /\ HasSlot /\ Goes(r, "reserved") /\ UNCHANGED answer
       \/ Status(r) = "200" /\ ~HasSlot /\ Refuses(r, "503")
       \/ Status(r) # "200" /\ Refuses(r, Status(r))
    /\ UNCHANGED <<num, posts, partials, unremoved, files, late, queue, decoder, disturbed, faults>>

WithoutPartial(r) == partials \ {Partial(r)}

(* remove_file of the partial; then the answer. *)
Refuse(r) ==
    /\ at[r] = "refusing"
    /\ Goes(r, "done")
    /\ partials' = WithoutPartial(r)
    /\ UNCHANGED <<answer, num, posts, unremoved, files, late, queue, decoder, disturbed, faults>>

(* `let _ = remove_file`: it fails, the file stays, the answer is sent. *)
RefuseFails(r) ==
    /\ at[r] = "refusing"
    /\ Happens("io")
    /\ Goes(r, "done")
    /\ unremoved' = unremoved \cup {Partial(r)}
    /\ UNCHANGED <<answer, num, posts, partials, files, late, queue, decoder, disturbed>>

-----------------------------------------------------------------------------
(* commit_partial, under the lock of the trace *)

InCommit == {r \in Request : at[r] \in {"locked", "dir", "numbered", "renamed"}}

MutantNoLock(r) == TRUE
MutantLocksLeak(r) == \A s \in Request : KeyFor(s) = KeyFor(r) => s \notin InCommit /\ answer[s] # "500"

LockFree(r) == \A s \in InCommit : KeyFor(s) # KeyFor(r)

Lock(r) ==
    /\ at[r] = "reserved"
    /\ LockFree(r)
    /\ Goes(r, "locked")
    /\ UNCHANGED <<answer, num, posts, partials, unremoved, files, late, queue, decoder, disturbed, faults>>

(* ensure_trace_dir *)
EnsureDir(r) ==
    /\ at[r] = "locked"
    /\ Goes(r, "dir")
    /\ rawDirs' = rawDirs \cup {KeyFor(r)}
    /\ UNCHANGED <<answer, num, posts, partials, unremoved, raw, late, queue, decoder, disturbed, faults>>

(* next_batch_number; the rename is handed to the blocking pool. *)
PickNumber(r) ==
    /\ at[r] = "dir"
    /\ KeyFor(r) \in rawDirs
    /\ NextNumber(raw, KeyFor(r)) <= BatchMax
    /\ num' = [num EXCEPT ![r] = NextNumber(raw, KeyFor(r))]
    /\ Goes(r, "numbered")
    /\ UNCHANGED <<answer, posts, partials, unremoved, files, late, queue, decoder, disturbed, faults>>

(* TraceFull: the partial file is left for the operator. *)
PickNumberFull(r) ==
    /\ at[r] = "dir"
    /\ KeyFor(r) \in rawDirs
    /\ NextNumber(raw, KeyFor(r)) > BatchMax
    /\ Answers(r, "500")
    /\ UNCHANGED <<num, posts, partials, unremoved, files, late, queue, decoder, disturbed, faults>>

(* rename replaces a file that has the name already. *)
Renamed(r, n) ==
    {f \in raw : f.key # KeyFor(r) \/ f.num # n} \cup
    {[key |-> KeyFor(r), num |-> n, body |-> BodyOf[r]]}

Rename(r) ==
    /\ at[r] = "numbered"
    /\ KeyFor(r) \in rawDirs
    /\ Goes(r, "renamed")
    /\ raw' = Renamed(r, num[r])
    /\ partials' = WithoutPartial(r)
    /\ UNCHANGED <<answer, num, posts, unremoved, rawDirs, late, queue, decoder, disturbed, faults>>

HasFile(k, n) == n \in Numbers(raw, k)

(* The file and its directory are opened and fsynced; the lock is free. *)
Sync(r) ==
    /\ at[r] = "renamed"
    /\ HasFile(KeyFor(r), num[r])
    /\ Goes(r, "synced")
    /\ UNCHANGED <<answer, num, posts, partials, unremoved, files, late, queue, decoder, disturbed, faults>>

(* The storage loops removed the directory, or the file, under its feet. *)
FindsNothing(r) ==
    /\ \/ at[r] \in {"dir", "numbered"} /\ KeyFor(r) \notin rawDirs
       \/ at[r] = "renamed" /\ ~HasFile(KeyFor(r), num[r])
    /\ Refuses(r, "500")
    /\ UNCHANGED <<num, posts, partials, unremoved, files, late, queue, decoder, disturbed, faults>>

(* A file operation fails: what it did so far stays. *)
CommitFails(r) ==
    /\ Happens("io")
    /\ r \in InCommit
    /\ Refuses(r, "500")
    /\ UNCHANGED <<num, posts, partials, unremoved, files, late, queue, decoder, disturbed>>

MutantNextName(r) == [key |-> KeyFor(r), num |-> num[r] + 1, req |-> r]

Submission(r) == [key |-> KeyFor(r), num |-> num[r], req |-> r]

(* permit.send and the 200, with no await since the fsync. *)
Send(r) ==
    /\ at[r] = "synced"
    /\ Answers(r, "200")
    /\ queue' = Append(queue, Submission(r))
    /\ UNCHANGED <<num, posts, partials, unremoved, files, late, decoder, disturbed, faults>>

-----------------------------------------------------------------------------
(* The decoder task *)

Receive ==
    /\ item = NoItem
    /\ queue # <<>>
    /\ item' = Head(queue)
    /\ queue' = Tail(queue)
    /\ UNCHANGED <<handler, partials, unremoved, files, late, body, handed, disturbed, faults>>

FileOf(i) == CHOOSE f \in raw : f.key = i.key /\ f.num = i.num

Read ==
    /\ item # NoItem
    /\ body = "unread"
    /\ HasFile(item.key, item.num)
    /\ body' = FileOf(item).body
    /\ handed' = Append(handed, FileOf(item).body)
    /\ UNCHANGED <<handler, partials, unremoved, files, late, queue, item, disturbed, faults>>

Finished ==
    /\ item' = NoItem
    /\ body' = "unread"
    /\ UNCHANGED <<handler, partials, unremoved, files, late, queue, handed, disturbed>>

(* No such file any more: the submission is dropped. *)
ReadNothing ==
    /\ item # NoItem
    /\ body = "unread"
    /\ ~HasFile(item.key, item.num)
    /\ Finished /\ UNCHANGED faults

ReadFails ==
    /\ item # NoItem
    /\ body = "unread"
    /\ Happens("read")
    /\ Finished

(* parse_batch fails: dropped, although its request was answered 200. *)
DropUnparsed ==
    /\ body \in NoCalls
    /\ Finished /\ UNCHANGED faults

(* record_batch has returned. *)
Done ==
    /\ body \in Bodies \ NoCalls
    /\ Finished /\ UNCHANGED faults

-----------------------------------------------------------------------------
(***************************************************************************)
(* The client goes away and the server drops the handler, which releases   *)
(* the lock and the permit at whichever await it was.  tokio::fs::rename   *)
(* runs on the blocking pool and is not called back; nor is remove_file,   *)
(* after which there is nothing left to do but answer.                     *)
(***************************************************************************)
Disconnect(r) ==
    /\ Happens("disconnect")
    /\ at[r] \in {"streaming", "buffered", "reserved"} \/ r \in InCommit
    /\ Answers(r, "gone")
    /\ late' = late \cup {[req |-> s, num |-> num[s], from |-> Partial(s)] :
                               s \in {q \in {r} : at[q] = "numbered"}}
    /\ disturbed' = disturbed \cup {KeyFor(s) : s \in {r} \cap InCommit}
    /\ UNCHANGED <<num, posts, partials, unremoved, files, queue, decoder>>

LateRename(l) ==
    /\ late' = late \ {l}
    /\ IF KeyFor(l.req) \in rawDirs
       THEN raw' = Renamed(l.req, l.num) /\ partials' = partials \ {l.from}
       ELSE UNCHANGED <<raw, partials>>
    /\ UNCHANGED <<handler, unremoved, rawDirs, queue, decoder, disturbed, faults>>

(* The storage loops remove a trace's directory; TraceStore says when. *)
Clean(k) ==
    /\ Happens("clean")
    /\ raw' = raw \ FilesOf(raw, k)
    /\ rawDirs' = rawDirs \ {k}
    /\ disturbed' = disturbed \cup {k}
    /\ UNCHANGED <<handler, partials, unremoved, late, queue, decoder>>

MutantLeavesPartials == partials

(* ensure_clean_tmp_dir at startup: drain_partial_files. *)
DrainedPartials == {}

(* The process dies and is started again; the batch files are not replayed. *)
Crash ==
    /\ Happens("crash")
    /\ at' = [r \in Request |-> IF at[r] = "idle" THEN "idle" ELSE "done"]
    /\ answer' = [r \in Request |->
                    IF at[r] \in {"idle", "done"} THEN answer[r] ELSE "lost"]
    /\ partials' = DrainedPartials
    /\ unremoved' = {}
    /\ late' = {}
    /\ queue' = <<>>
    /\ item' = NoItem
    /\ body' = "unread"
    /\ UNCHANGED <<num, posts, files, handed, disturbed>>

Receiving(r) == Reserve(r) \/ Refuse(r)

CommitPartial(r) ==
    Lock(r) \/ EnsureDir(r) \/ PickNumber(r) \/ PickNumberFull(r)
    \/ Rename(r) \/ Sync(r) \/ FindsNothing(r) \/ Send(r)

Handle(r) == Receiving(r) \/ CommitPartial(r)

Requests == \E r \in Request : PostRefused(r) \/ Post(r) \/ Buffer(r) \/ Handle(r)

Failures ==
    \/ \E r \in Request : PostFails(r) \/ BufferFails(r) \/ RefuseFails(r) \/ CommitFails(r) \/ Disconnect(r)
    \/ \E l \in late : LateRename(l)
    \/ ReadFails

Decode == Receive \/ Read \/ ReadNothing \/ DropUnparsed

Next == Requests \/ Failures \/ Decode \/ Done \/ Crash \/ \E k \in Key : Clean(k)

Spec == Init /\ [][Next]_vars

-----------------------------------------------------------------------------
Submissions == [key : Key, num : 1..BatchMax, req : Request]

(* Every variable has its type. *)
TypeOK ==
    /\ at \in [Request -> {"idle", "streaming", "buffered", "refusing", "reserved", "locked",
                           "dir", "numbered", "renamed", "synced", "done"}]
    /\ answer \in [Request -> {"none", "gone", "lost", "200", "400", "401", "413", "415", "422", "500", "503"}]
    /\ num \in [Request -> 0..BatchMax]
    /\ posts \in [Request -> 0..MaxPosts]
    /\ partials \subseteq Request \X (1..MaxPosts)
    /\ unremoved \subseteq Request \X (1..MaxPosts)
    /\ raw \subseteq [key : Key, num : 1..BatchMax, body : Bodies]
    /\ rawDirs \subseteq Key
    /\ late \subseteq [req : Request, num : 1..BatchMax, from : Request \X (1..MaxPosts)]
    /\ queue \in Seq(Submissions)
    /\ item \in Submissions \cup {NoItem}
    /\ body \in Bodies \cup {"unread"}
    /\ handed \in Seq(Bodies)
    /\ disturbed \subseteq Key
    /\ faults \in 0..MaxFaults

Sent(r) == at[r] = "done" /\ answer[r] = "200"

Stored(b) == \E f \in raw : f.body = b /\ f.key = KeyOf[b]

(***************************************************************************)
(* INV-1 and AC-3.1.3: what was answered 200 is on disk, as long as the    *)
(* trace is not disturbed, whatever fails and whenever the process dies.   *)
(***************************************************************************)
AckedIsOnDisk ==
    \A r \in Request : Sent(r) => Stored(BodyOf[r]) \/ KeyFor(r) \in disturbed

(***************************************************************************)
(* "Two concurrent batches for the same trace cannot pick the same         *)
(* batch-NNNN filename" (http/storage.rs): no batch file is replaced.      *)
(***************************************************************************)
FilesAreNeverReplaced ==
    [][\A f \in raw : f.num \in Numbers(raw', f.key) => f \in raw']_vars

(* Nor is one removed or replaced while the trace is not disturbed. *)
CommittedFilesStay == [][\A f \in raw : f \in raw' \/ f.key \in disturbed']_vars

(***************************************************************************)
(* INV-7: messages and permits together never exceed the channel, so that  *)
(* send never waits and a commit never ends in a 503.                      *)
(***************************************************************************)
ChannelBounded == Len(queue) + Cardinality(Permits) <= Capacity

(***************************************************************************)
(* A batch whose size, meta or schema is wrong (INV-5), or that only came  *)
(* without the token or the content type, is never stored.  A request      *)
(* refused for that or for lack of a slot leaves no batch file (one sent   *)
(* before may have, with a 500), and no partial file but one that          *)
(* remove_file could not remove.                                           *)
(***************************************************************************)
Welcome(b) == \E r \in Request \ (NoToken \cup WrongType) : BodyOf[r] = b

RefusedLeavesNothing ==
    /\ \A f \in raw : f.body \notin TooLarge \cup NoMeta \cup OtherSchema /\ Welcome(f.body)
    /\ \A r \in Request :
        at[r] = "done" /\ answer[r] \in {"400", "401", "413", "415", "422", "503"} =>
            /\ Partial(r) \notin partials \ unremoved
            /\ posts[r] = 1 => ~Stored(BodyOf[r])

(***************************************************************************)
(* A partial file is that of a handler that has not answered yet, or what  *)
(* a full trace, a client that went away or a remove_file that failed      *)
(* left; a restart removes all.                                            *)
(***************************************************************************)
PartialsAccounted ==
    \A p \in partials :
        p = Partial(p[1]) =>
            \/ at[p[1]] # "done"
            \/ answer[p[1]] = "gone"
            \/ p \in unremoved
            \/ /\ answer[p[1]] = "500"
               /\ BatchMax \in Numbers(raw, KeyFor(p[1])) \/ KeyFor(p[1]) \in disturbed

(***************************************************************************)
(* health.rs: "readiness ... drain[s] the collector before genuine 503s    *)
(* start": no request finds the channel full while /ready still answers    *)
(* 200.                                                                    *)
(***************************************************************************)
BackpressureIsForeseen ==
    [][ \A r \in Request : (answer[r])' = "503" /\ answer[r] # "503" => ~Ready ]_vars

(***************************************************************************)
(* No batch file lies where the batches of another trace go, whatever the  *)
(* metas say of the two: the handler files a batch by its trace key alone. *)
(***************************************************************************)
TracesApart ==
    \A f \in raw, r \in Request : f.key = KeyFor(r) => TraceOf[f.body] = TraceOf[BodyOf[r]]

(* Once its body is in, a request is answered, whatever other clients do. *)
EveryRequestAnswered == \A r \in Request : at[r] = "buffered" ~> at[r] = "done"

(* The requests the decoder has not read yet, in the order of their 200s. *)
Waiting ==
    (IF item # NoItem /\ body = "unread" THEN <<item.req>> ELSE <<>>)
    \o [i \in DOMAIN queue |-> queue[i].req]

Promise == INSTANCE Intake WITH accepted <- {r \in Request : Sent(r)}, waiting <- Waiting

(* The handlers and the decoder implement Intake, read errors aside. *)
ImplementsIntake == Promise!Spec
=============================================================================
