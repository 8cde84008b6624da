--------------------------------- MODULE Service ---------------------------------
(***************************************************************************)
(* The life of the collector's process: main and http::run step by step    *)
(* (crates/php-tree-viz-collector/src/main.rs, http/server.rs), under the  *)
(* systemd unit of etc/, with the state that outlives it (configuration,   *)
(* index, files) and what its loops do to that state.  Ingest has the      *)
(* detail of an upload, TraceStore that of the databases.                  *)
(***************************************************************************)
EXTENDS Config, Gauge

CONSTANTS
    Trace,
    Launches,       \* the command lines, environments and configuration files:
                    \* records [args, rustLog, file]
    Indexes,        \* the index.sqlite an earlier build may have left
    Strays,         \* files of other programs in the data directory
    DayNanos,       \* nanoseconds of a day, scaled down
    I64Half,        \* 2^63, scaled down with them
    StartBurst,     \* StartLimitBurst
    NoConf,         \* conf while none is loaded
    Faults,         \* what may happen: "io", "kill"
    MaxFaults,      \* bound of the model: how often
    MaxDays         \* bound of the model: how many days pass

SCHEMA_VERSION == 1
AllColumns == {"start_time_ns", "pending_count"}

(* load_from_path, install_subscriber: what is loaded from it, if it is. *)
Loaded(l) == [Parsed(l.file.sets) EXCEPT !.level = Filter(l.rustLog, @)]

ASSUME ServiceAssumption ==
    /\ DayNanos \in Nat \ {0} /\ I64Half \in Nat \ {0}
    /\ StartBurst \in Nat \ {0}
    /\ MaxFaults \in Nat /\ MaxDays \in Nat
    /\ \A l \in Launches : Parses(l.file.sets) =>
        /\ Loaded(l) # NoConf
        /\ Loaded(l).retention_days \in Nat /\ Loaded(l).tick_minutes \in Nat     \* u32
        /\ Loaded(l).disk_capacity_bytes \in Nat \cup {Absent}                   \* u64
    /\ \A i \in Indexes :
        /\ i \in [version : Int, columns : SUBSET AllColumns]
        /\ i.columns # {} => "start_time_ns" \in i.columns
        /\ i.columns = {} => i.version = 0

VARIABLES
    launch,     \* what the unit is started with
    unit,       \* for systemd: "inactive", "activating", "active", "stopping"
                \* (on request), "aborting" (READY is overdue), "waiting" for the
                \* restart, or "failed"
    starts,     \* how often systemd started it in the StartLimitInterval
    stage,      \* what the process does next, "off" if there is none
    code,       \* its exit code or the signal it died of, "none" until it ends
    conf,       \* the configuration it loaded
    has,        \* what it has set up: its loops and what they need
    signalled,  \* whether its handler got a SIGTERM
    touched,    \* history: whether this start changed anything outside itself
    index,      \* index.sqlite: user_version, and the columns of traces
    rows,       \* the traces in the index
    began,      \* their start_time, in days
    today,      \* the clock, in days, up to MaxDays
    upload,     \* upload[t]: "none", "streaming", "done", or "left" if the process
                \* gave it up without its partial file
    queue,      \* the traces with a batch in the channel
    faults      \* how many faults there were, up to MaxFaults

systemd == <<launch, unit, starts>>
process == <<stage, code, conf, has, signalled, touched>>
data    == <<index, rows>>
clients == <<began, upload, queue>>
disk    == <<files, walk>>
vars    == <<systemd, process, data, clients, disk, today, faults>>

IndexFile    == << <<"index", ".sqlite">> >>
PartialOf(t) == << <<"tmp", "none">>, <<t, ".partial">> >>
RawOf(t)     == << <<"traces", "none">>, <<t, ".raw">>, <<"batch-0001", ".msgpack">> >>
DbOf(t)      == << <<"traces", "none">>, <<t, ".sqlite">> >>
IsPartial(p) == Len(p) = 2 /\ p[1][1] = "tmp" /\ p[2][2] = ".partial"

(* The files of the collector, of which no stray has the place. *)
Written == {IndexFile} \cup UNION {{PartialOf(t), RawOf(t), DbOf(t)} : t \in Trace}

ASSUME FilesAssumption ==
    /\ IsFiniteSet(Trace) /\ "none" \notin Trace
    /\ IsFiniteSet(Strays) /\ \A p \in Strays : ~InLayout(p)
    /\ NoEntry \notin Strays \cup Written

Init ==
    /\ launch \in Launches
    /\ unit = "inactive" /\ starts = 0
    /\ stage = "off" /\ code = "none" /\ conf = NoConf
    /\ has = {} /\ signalled = FALSE /\ touched = FALSE
    /\ index \in Indexes
    /\ rows = {} /\ began = [t \in Trace |-> 0] /\ today = 0
    /\ files \in {Strays, Strays \cup {PartialOf(t) : t \in Trace}}
    /\ walk = NoWalk
    /\ upload = [t \in Trace |-> "none"] /\ queue = {}
    /\ faults = 0

Happens(what) ==
    /\ what \in Faults
    /\ faults < MaxFaults
    /\ faults' = faults + 1

-----------------------------------------------------------------------------
(* systemd *)

(* ExecStart: asked for, or by Restart=on-failure after RestartSec. *)
Start ==
    /\ stage = "off" /\ unit \in {"inactive", "failed", "waiting"}
    /\ unit' = "activating"
    /\ starts' = IF unit = "waiting" THEN starts + 1 ELSE 1
    /\ stage' = "args" /\ code' = "none" /\ signalled' = FALSE /\ touched' = FALSE
    /\ UNCHANGED <<launch, conf, has, data, clients, disk, today, faults>>

(* The process ends, and with it its tasks, its channel and its requests. *)
Ends(how) ==
    /\ stage' = "off" /\ code' = how /\ conf' = NoConf /\ has' = {}
    /\ walk' = NoWalk
    /\ queue' = {}
    /\ upload' = [t \in Trace |-> IF upload[t] = "done" THEN "done" ELSE "none"]
    /\ UNCHANGED <<launch, starts, signalled, touched, data, began, files, today>>

(* That is a failure unless systemd was asked to stop it. *)
Exit(how) ==
    /\ Ends(how)
    /\ unit' = IF unit = "stopping" THEN "inactive"
               ELSE IF starts < StartBurst THEN "waiting" ELSE "failed"

(* A process that has installed its handlers is told of a SIGTERM. *)
Told ==
    /\ "handlers" \in has
    /\ signalled' = TRUE
    /\ UNCHANGED <<launch, stage, code, conf, has, touched, data, clients, disk, today, faults>>

(* systemctl stop *)
Stop ==
    /\ unit \in {"activating", "active"}
    /\ unit' = "stopping" /\ UNCHANGED starts
    /\ Told

(* The default action of SIGTERM. *)
StopKills ==
    /\ stage # "off" /\ "handlers" \notin has
    /\ unit \in {"activating", "active"}
    /\ unit' = "inactive"
    /\ Ends("TERM") /\ UNCHANGED faults

(***************************************************************************)
(* TimeoutStartSec: READY did not come.  It is longer than                 *)
(* StartLimitIntervalSec, so the start limit begins anew.                  *)
(***************************************************************************)
StartTimeout ==
    /\ unit = "activating" /\ stage = "serving"
    /\ unit' = "aborting" /\ starts' = 0
    /\ Told

Kill ==
    /\ stage # "off"
    /\ Happens("kill")
    /\ Exit("KILL")

(* The operator changes the unit or the configuration file. *)
Edit ==
    /\ stage = "off"
    /\ launch' \in Launches
    /\ UNCHANGED <<unit, starts, process, data, clients, disk, today, faults>>

-----------------------------------------------------------------------------
(* main *)

Accepted == ParseArgs(launch.args) /\ Loads(launch.file)

(* A step of the start sets things up, then the next step is due. *)
Sets(things, next) ==
    /\ has' = has \cup things
    /\ stage' = next

Load ==
    /\ stage = "args" /\ Accepted
    /\ conf' = Loaded(launch)
    /\ Sets({"log"}, "tmp")
    /\ UNCHANGED <<systemd, code, signalled, touched, data, clients, disk, today, faults>>

LoadFails ==
    /\ stage = "args" /\ ~Accepted
    /\ Exit("2") /\ UNCHANGED faults

-----------------------------------------------------------------------------
(* http::run *)

Leftovers == {p \in files : IsPartial(p)}

(* ensure_clean_tmp_dir *)
CleanTmp ==
    /\ stage = "tmp"
    /\ FilesBecome(files \ Leftovers)
    /\ touched' = TRUE
    /\ Sets({}, "traces")
    /\ UNCHANGED <<systemd, code, conf, signalled, data, clients, today, faults>>

TracesDir ==
    /\ stage = "traces"
    /\ Sets({"dirs"}, "open")
    /\ UNCHANGED <<systemd, code, conf, signalled, touched, data, clients, disk, today, faults>>

(* open_connection: the file is created, its version decides. *)
OpenIndex ==
    /\ stage = "open" /\ index.version \in {0, SCHEMA_VERSION}
    /\ FilesBecome(files \cup {IndexFile})
    /\ Sets({}, IF index.version = 0 THEN "schema" ELSE "migrate")
    /\ UNCHANGED <<systemd, code, conf, signalled, touched, data, clients, today, faults>>

MutantRefusesLikeConfig ==
    /\ stage = "open" /\ index.version \notin {0, SCHEMA_VERSION}
    /\ Exit("2") /\ UNCHANGED faults

OpenIndexRefused ==
    /\ stage = "open" /\ index.version \notin {0, SCHEMA_VERSION}
    /\ Exit("3") /\ UNCHANGED faults

(* CREATE TABLE IF NOT EXISTS adds no column to a table that is there. *)
ApplySchema ==
    /\ stage = "schema"
    /\ index' = [index EXCEPT !.columns = IF @ = {} THEN AllColumns ELSE @]
    /\ Sets({}, "version")
    /\ UNCHANGED <<systemd, code, conf, signalled, touched, rows, clients, disk, today, faults>>

SetVersion ==
    /\ stage = "version"
    /\ index' = [index EXCEPT !.version = SCHEMA_VERSION]
    /\ Sets({}, "migrate")
    /\ UNCHANGED <<systemd, code, conf, signalled, touched, rows, clients, disk, today, faults>>

(* migrate_index_schema: ALTER TABLE ADD COLUMN unless it is there. *)
Migrate ==
    /\ stage = "migrate"
    /\ index' = [index EXCEPT !.columns = @ \cup {"pending_count"}]
    /\ Sets({"index"}, "spawn")
    /\ UNCHANGED <<systemd, code, conf, signalled, touched, rows, clients, disk, today, faults>>

Loops == {"finalize", "retention", "gauge"}

(* The decoder and the loops; one whose period is 0 panics alone. *)
Spawn ==
    /\ stage = "spawn"
    /\ Sets({"decoder"} \cup {l \in Loops : Period(conf)[l] > 0}, "bind")
    /\ UNCHANGED <<systemd, code, conf, signalled, touched, data, clients, disk, today, faults>>

MutantBindAnnounces ==
    /\ stage = "bind"
    /\ Sets({"listener"}, "announce")
    /\ UNCHANGED <<systemd, code, conf, signalled, touched, data, clients, disk, today, faults>>

Bind ==
    /\ stage = "bind"
    /\ Sets({"listener"}, "signals")
    /\ UNCHANGED <<systemd, code, conf, signalled, touched, data, clients, disk, today, faults>>

(* build_shutdown_signal *)
Signals ==
    /\ stage = "signals"
    /\ Sets({"handlers"}, "announce")
    /\ UNCHANGED <<systemd, code, conf, signalled, touched, data, clients, disk, today, faults>>

MutantOnlyListens ==
    /\ stage = "announce"
    /\ Sets({}, "serving")
    /\ UNCHANGED <<systemd, code, conf, signalled, touched, data, clients, disk, today, faults>>

(* notify_systemd_ready, then axum::serve *)
Announce ==
    /\ stage = "announce"
    /\ unit' = IF unit = "activating" THEN "active" ELSE unit
    /\ Sets({}, "serving")
    /\ UNCHANGED <<launch, starts, code, conf, signalled, touched, data, clients, disk, today, faults>>

(* READY cannot be sent: a warning, and it serves. *)
AnnounceFails ==
    /\ stage = "announce"
    /\ Happens("io")
    /\ Sets({}, "serving")
    /\ UNCHANGED <<systemd, code, conf, signalled, touched, data, clients, disk, today>>

(* The subscriber or the runtime cannot be set up, a file operation fails, *)
(* or the address is taken.                                                *)
BootFails ==
    /\ \/ stage = "args" /\ Accepted
       \/ stage \in {"tmp", "traces", "open", "schema", "version", "migrate", "bind", "signals"}
    /\ Happens("io")
    /\ Exit("3")

-----------------------------------------------------------------------------
(* Serving.  Once it drains no upload begins; those under way go on.       *)

FileChange(fs) ==
    /\ FilesBecome(fs)
    /\ UNCHANGED <<systemd, process, index, today, faults>>

Post(t) ==
    /\ stage = "serving" /\ upload[t] = "none"
    /\ upload' = [upload EXCEPT ![t] = "streaming"]
    /\ FileChange(files \cup {PartialOf(t)})
    /\ UNCHANGED <<rows, began, queue>>

(* commit_partial, permit.send, 200 *)
Commit(t) ==
    /\ upload[t] = "streaming"
    /\ upload' = [upload EXCEPT ![t] = "done"]
    /\ began' = [began EXCEPT ![t] = today]
    /\ queue' = queue \cup {t}
    /\ FileChange((files \ {PartialOf(t)}) \cup {RawOf(t)})
    /\ UNCHANGED rows

(* remove_file, and the error is answered. *)
Refuse(t) ==
    /\ upload[t] = "streaming"
    /\ upload' = [upload EXCEPT ![t] = "none"]
    /\ FileChange(files \ {PartialOf(t)})
    /\ UNCHANGED <<rows, began, queue>>

(***************************************************************************)
(* The trace is full, the handler is dropped, or remove_file fails: the    *)
(* partial file stays.  Bound of the model: it is not sent again to this   *)
(* process, which would take another name for it.                          *)
(***************************************************************************)
Leave(t) ==
    /\ upload[t] = "streaming"
    /\ upload' = [upload EXCEPT ![t] = "left"]
    /\ FileChange(files)
    /\ UNCHANGED <<rows, began, queue>>

(* The decoder records what it can read. *)
Decode(t) ==
    /\ t \in queue
    /\ queue' = queue \ {t}
    /\ IF RawOf(t) \in files
       THEN FileChange(files \cup {DbOf(t)}) /\ rows' = rows \cup {t}
       ELSE FileChange(files) /\ UNCHANGED rows
    /\ UNCHANGED <<began, upload>>

(* The graceful shutdown of axum: the listener is closed first. *)
Drain ==
    /\ stage = "serving" /\ signalled
    /\ stage' = "draining" /\ has' = has \ {"listener"}
    /\ UNCHANGED <<systemd, code, conf, signalled, touched, data, clients, disk, today, faults>>

NoUploads == \A t \in Trace : upload[t] # "streaming"

Return ==
    /\ stage = "draining" /\ NoUploads
    /\ Exit("0") /\ UNCHANGED faults

(***************************************************************************)
(* The retention sweeper: i64 arithmetic, that wraps in a release build;   *)
(* a trace that began before the cutoff is removed.                        *)
(***************************************************************************)
Wrap(n) == ((n + I64Half) % (2 * I64Half)) - I64Half

MutantCutoff == (today - conf.retention_days) * DayNanos + 1

Cutoff == today * DayNanos - Wrap(conf.retention_days * DayNanos)

Sweep(t) ==
    /\ "retention" \in has
    /\ t \in rows
    /\ began[t] * DayNanos < Cutoff
    /\ rows' = rows \ {t}
    /\ FileChange(files \ {RawOf(t), DbOf(t)})
    /\ UNCHANGED <<began, upload, queue>>

NextDay ==
    /\ today < MaxDays
    /\ today' = today + 1 /\ starts' = 0
    /\ UNCHANGED <<launch, unit, process, data, clients, disk, faults>>

(* The gauge's loop, and the event it logs. *)
Gauge ==
    /\ "gauge" \in has
    /\ \/ BeginWalk \/ Stat \/ (\E p \in files : List(p))
       \/ Exhausted /\ walk' = NoWalk
    /\ UNCHANGED <<systemd, process, data, clients, files, today, faults>>

GaugeFails ==
    /\ "gauge" \in has
    /\ Happens("io")
    /\ StatFails \/ \E p \in files : \E n \in 0..Len(p) : ListFails(SubSeq(p, 1, n))
    /\ UNCHANGED <<systemd, process, data, clients, files, today>>

Systemd == Start \/ Stop \/ StopKills \/ StartTimeout \/ Kill \/ Edit

Index == OpenIndex \/ OpenIndexRefused \/ ApplySchema \/ SetVersion \/ Migrate

Boot ==
    \/ Load \/ LoadFails \/ CleanTmp \/ TracesDir \/ Index
    \/ Spawn \/ Bind \/ Signals \/ Announce

Uploads == \E t \in Trace : Post(t) \/ Commit(t) \/ Refuse(t) \/ Leave(t)

Tasks == Gauge \/ GaugeFails \/ \E t \in Trace : Decode(t) \/ Sweep(t)

Next ==
    \/ Systemd \/ Boot \/ AnnounceFails \/ BootFails
    \/ Uploads \/ Tasks \/ Drain \/ Return \/ NextDay

Spec == Init /\ [][Next]_vars

(***************************************************************************)
(* The process goes on with its start and its shutdown, systemd's timers   *)
(* run out, and an upload comes to an end, as its client's connection does.*)
(***************************************************************************)
FairSpec ==
    /\ Spec
    /\ WF_vars(Boot) /\ WF_vars(StartTimeout) /\ WF_vars(unit = "waiting" /\ Start)
    /\ WF_vars(Drain \/ Return)
    /\ \A t \in Trace : WF_vars(Commit(t) \/ Refuse(t) \/ Leave(t))

-----------------------------------------------------------------------------
Stages == {"off", "args", "tmp", "traces", "open", "schema", "version", "migrate", "spawn",
           "bind", "signals", "announce", "serving", "draining"}
Everything == {"log", "dirs", "index", "decoder", "listener", "handlers"} \cup Loops

(* Every variable has its type. *)
TypeOK ==
    /\ launch \in Launches
    /\ unit \in {"inactive", "activating", "active", "stopping", "aborting", "waiting", "failed"}
    /\ starts \in 0..StartBurst
    /\ stage \in Stages
    /\ code \in {"none", "0", "2", "3", "KILL", "TERM"}
    /\ conf = NoConf <=> stage \in {"off", "args"}
    /\ has \subseteq Everything
    /\ signalled \in BOOLEAN /\ touched \in BOOLEAN
    /\ index.version \in Int /\ index.columns \subseteq AllColumns
    /\ rows \subseteq Trace /\ queue \subseteq Trace
    /\ today \in 0..MaxDays /\ began \in [Trace -> 0..today]
    /\ upload \in [Trace -> {"none", "streaming", "done", "left"}]
    /\ faults \in 0..MaxFaults

(***************************************************************************)
(* What systemd takes for active serves: every loop runs, the index has    *)
(* the schema of this build whatever build or crash left it, and no file   *)
(* of an upload that an earlier process began is left in tmp/: those there *)
(* are of uploads that this process has under way, or did not finish.      *)
(***************************************************************************)
ActiveServes ==
    unit = "active" =>
        /\ Everything \subseteq has
        /\ index = [version |-> SCHEMA_VERSION, columns |-> AllColumns]
        /\ Leftovers \subseteq {PartialOf(t) : t \in {u \in Trace : upload[u] \in {"streaming", "left"}}}

(***************************************************************************)
(* main.rs: exit status 2 is a refusal of the configuration; nothing of    *)
(* what is on disk has been changed then.                                  *)
(***************************************************************************)
RefusedTouchesNothing == stage = "off" /\ code = "2" => ~touched

(***************************************************************************)
(* server.rs installs the handlers before READY so that a SIGTERM never    *)
(* ends it with a signal status: once active, it ends by a kill, or with 0 *)
(* and no upload under way.                                                *)
(***************************************************************************)
AnnouncedEndsInOrder ==
    [][ LET ends == unit \in {"active", "aborting"} /\ stage # "off" /\ stage' = "off"
        IN  ends => code' = "KILL" \/ (code' = "0" /\ signalled /\ NoUploads) ]_vars

(***************************************************************************)
(* Although files come, go and are renamed under the walk: it warns if     *)
(* what was there all along is over the threshold, and not unless what was *)
(* there at some time is.  An error makes it count less without a word,    *)
(* but never by more than what is at the path of the error or below.       *)
(***************************************************************************)
Over(fs) == OverThreshold(Cardinality(fs), conf.disk_capacity_bytes, conf.disk_usage_warn_pct, Absent)

GaugeTellsTheTruth ==
    Exhausted =>
        /\ Over({p \in walk.steady \cap Written : ~Hidden(p)}) => Over(walk.counted)
        /\ Over(walk.counted) => Over(walk.ever \cap Written)

(* retention.rs: the sweeper removes no trace younger than retention_days. *)
KeepsTheYoung ==
    [][ \A t \in rows \ rows' : today - began[t] > conf.retention_days ]_vars

(* systemd's view of it settles, whatever it is started with. *)
StartSettles ==
    unit \in {"activating", "waiting", "stopping", "aborting"}
        ~> unit \in {"active", "inactive", "failed"}
=============================================================================
