----------------------------- MODULE ServiceProofs -----------------------------
(***************************************************************************)
(* Proofs about Service for every command line, configuration, index and   *)
(* set of traces.  The invariant follows the start: what each stage has    *)
(* set up, what systemd knows of it, and what is left in tmp/.             *)
(***************************************************************************)
EXTENDS Service, FiniteSetTheorems, TLAPS

AfterLoad == Stages \ {"off", "args"}
AfterSpawn == {"bind", "signals", "announce", "serving", "draining"}
Last == {"announce", "serving", "draining"}

(* What systemd believes of the process, and what a signal has done. *)
UnitFollows ==
    /\ unit \in {"inactive", "activating", "active", "stopping", "aborting", "waiting", "failed"}
    /\ starts \in 0..StartBurst
    /\ stage \in Stages
    /\ stage = "off" <=> unit \in {"inactive", "waiting", "failed"}
    /\ unit \in {"active", "aborting"} => stage \in {"serving", "draining"}
    /\ unit = "waiting" => starts < StartBurst
    /\ signalled \in BOOLEAN
    /\ signalled => stage = "off" \/ unit \in {"stopping", "aborting"}
    /\ stage = "draining" => signalled

(* What the start has set up so far. *)
SetUp ==
    /\ has \subseteq Everything
    /\ stage \in {"off", "args"} => has = {}
    /\ stage \in AfterLoad => "log" \in has
    /\ stage \in AfterLoad \ {"tmp", "traces"} => "dirs" \in has
    /\ stage \in AfterSpawn \cup {"spawn"} => "index" \in has
    /\ stage \in AfterSpawn => {"decoder"} \cup Loops \subseteq has
    /\ stage \in {"signals", "announce", "serving"} => "listener" \in has
    /\ "handlers" \in has <=> stage \in Last

(* A configuration is only there once it has been found valid. *)
Configured ==
    /\ launch \in Launches
    /\ stage \in {"off", "args"} => conf = NoConf
    /\ stage \in AfterLoad => \E l \in Launches : Loads(l.file) /\ conf = Loaded(l)

(* A refusal of the configuration comes before anything is changed. *)
Untouched ==
    /\ code \in {"none", "0", "2", "3", "KILL", "TERM"}
    /\ touched \in BOOLEAN
    /\ stage = "args" => ~touched
    /\ stage = "off" /\ code = "2" => ~touched

(* The index has a table of traces once its schema is applied. *)
IndexReady ==
    /\ index \in [version : Int, columns : SUBSET AllColumns]
    /\ index.columns # {} => "start_time_ns" \in index.columns
    /\ index.columns = {} => index.version = 0
    /\ stage = "schema" => index.version = 0
    /\ stage = "version" => index.columns # {}
    /\ stage = "migrate" => index.version = SCHEMA_VERSION
    /\ stage \in AfterSpawn \cup {"spawn"} =>
          index = [version |-> SCHEMA_VERSION, columns |-> AllColumns]

(* A partial file in tmp/ is of an upload of this process, once it has cleaned up. *)
InTmp(t) == upload[t] \in {"streaming", "left"}

TmpIsOurs ==
    /\ upload \in [Trace -> {"none", "streaming", "done", "left"}]
    /\ \A t \in Trace : InTmp(t) => stage \in {"serving", "draining"}
    /\ stage \in AfterLoad \ {"tmp"} =>
          \A p \in files : IsPartial(p) => \E t \in Trace : InTmp(t) /\ p = PartialOf(t)

(* The clock, the traces and the queue. *)
Counted ==
    /\ rows \subseteq Trace /\ queue \subseteq Trace
    /\ today \in 0..MaxDays /\ began \in [Trace -> 0..today]
    /\ faults \in 0..MaxFaults

IInv ==
    /\ UnitFollows
    /\ SetUp
    /\ Configured
    /\ Untouched
    /\ IndexReady
    /\ TmpIsOurs
    /\ Counted

(* The numbers of the installation. *)
LEMMA Bounds ==
    /\ DayNanos \in Nat \ {0} /\ I64Half \in Nat \ {0} /\ StartBurst \in Nat \ {0}
    /\ MaxFaults \in Nat /\ MaxDays \in Nat
BY ServiceAssumption

(* The invariant holds at the start. *)
LEMMA InitIInv == Init => IInv
<1> SUFFICES ASSUME Init
             PROVE  IInv
  OBVIOUS
<1> USE DEF Init
<1>1. UnitFollows
  <2>1. signalled = FALSE
    OBVIOUS
  <2>2. unit = "inactive" /\ stage = "off" /\ starts \in 0..StartBurst
    BY Bounds
  <2> QED
    BY <2>1, <2>2, Zenon DEF UnitFollows, Stages
<1>2. SetUp
  BY DEF SetUp, AfterLoad, AfterSpawn, Last, Everything, Loops
<1>3. Configured /\ Untouched
  BY DEF Configured, Untouched, AfterLoad
<1>4. IndexReady
  BY ServiceAssumption DEF IndexReady, AfterSpawn
<1>5. TmpIsOurs
  BY DEF TmpIsOurs, InTmp, AfterLoad
<1>6. Counted
  BY Bounds DEF Counted
<1> QED
  BY <1>1, <1>2, <1>3, <1>4, <1>5, <1>6 DEF IInv

-----------------------------------------------------------------------------
(* The steps of systemd, of the start, and of a serving process. *)
LEMMA UnitFollowsStep == ASSUME UnitFollows, SetUp, Next PROVE UnitFollows'
<1> USE Bounds DEF UnitFollows, Stages
<1>1. CASE Start
  <2>1. signalled' = FALSE
    BY <1>1 DEF Start
  <2>2. unit' = "activating" /\ stage' = "args" /\ starts' \in 0..StartBurst
    BY <1>1 DEF Start
  <2>3. UnitFollows'
    BY <2>1, <2>2, Zenon DEF UnitFollows, Stages
  <2> QED
    BY <2>3 DEF UnitFollows
<1>2. CASE Stop
  BY <1>2 DEF Stop, Told, SetUp, Last
<1>3. CASE StopKills
  BY <1>3 DEF StopKills, Ends
<1>4. CASE StartTimeout
  BY <1>4 DEF StartTimeout, Told
<1>5. CASE Kill \/ LoadFails \/ OpenIndexRefused \/ BootFails \/ Return
  BY <1>5 DEF Kill, LoadFails, OpenIndexRefused, BootFails, Return, Exit, Ends
<1>6. CASE Edit
  BY <1>6 DEF Edit, process
<1>7. CASE Load \/ CleanTmp \/ TracesDir \/ OpenIndex \/ ApplySchema \/ SetVersion \/ Migrate
  BY <1>7 DEF Load, CleanTmp, TracesDir, OpenIndex, ApplySchema, SetVersion, Migrate, Sets, systemd
<1>8. CASE Spawn \/ Bind \/ Signals \/ Announce \/ AnnounceFails
  BY <1>8 DEF Spawn, Bind, Signals, Announce, AnnounceFails, Sets, systemd
<1>9. CASE Uploads \/ Tasks
  <2>1. UNCHANGED <<systemd, process>>
    BY <1>9 DEF Uploads, Tasks, Post, Commit, Refuse, Leave, Decode, Sweep, Gauge, GaugeFails, FileChange
  <2> QED
    BY <2>1 DEF systemd, process
<1>10. CASE Drain
  BY <1>10 DEF Drain, systemd
<1>11. CASE NextDay
  BY <1>11 DEF NextDay, process
<1> QED
  BY <1>1, <1>2, <1>3, <1>4, <1>5, <1>6, <1>7, <1>8, <1>9, <1>10, <1>11
     DEF Next, Systemd, Boot, Index

(* A configuration that is valid gives every loop a period. *)
LEMMA ValidPeriods ==
    ASSUME NEW l \in Launches, Loads(l.file)
    PROVE  \A k \in Loops : Period(Loaded(l))[k] > 0
<1> DEFINE c == Parsed(l.file.sets)
<1>1. /\ c.tick_seconds > 0 /\ c.tick_minutes > 0 /\ c.disk_usage_tick_seconds > 0
      /\ PositiveIfSet(c.retention_tick_seconds) /\ PositiveIfSet(c.test_override)
  BY DEF Loads, Validate, FinalizeOk, RetentionOk, ObservabilityOk
<1>2. /\ Loaded(l).tick_seconds = c.tick_seconds
      /\ Loaded(l).tick_minutes = c.tick_minutes
      /\ Loaded(l).disk_usage_tick_seconds = c.disk_usage_tick_seconds
      /\ Loaded(l).retention_tick_seconds = c.retention_tick_seconds
      /\ Loaded(l).test_override = c.test_override
  BY DEF Loaded, Parsed, Options, Defaults
<1>3. Loaded(l).tick_minutes * 60 > 0
  BY <1>1, <1>2, ServiceAssumption DEF Loads
<1> QED
  BY <1>1, <1>2, <1>3 DEF Loops, Period, Override, PositiveIfSet

(* The steps that leave the process as it is. *)
Quiet == Edit \/ Uploads \/ Tasks \/ NextDay

LEMMA QuietSteps == ASSUME Quiet PROVE UNCHANGED process
BY DEF Quiet, Edit, Uploads, Tasks, NextDay, Post, Commit, Refuse, Leave, Decode, Sweep, Gauge, GaugeFails, FileChange

(* The steps with which the process ends. *)
Ending == Kill \/ LoadFails \/ OpenIndexRefused \/ BootFails \/ Return \/ StopKills

LEMMA EndSteps ==
    ASSUME Ending
    PROVE  /\ stage # "off" /\ stage' = "off" /\ has' = {} /\ conf' = NoConf
           /\ UNCHANGED <<launch, signalled, touched, data, began, files, today>>
           /\ code' \in {"0", "2", "3", "KILL", "TERM"}
           /\ code' = "2" => LoadFails
           /\ queue' = {} /\ walk' = NoWalk
           /\ upload' = [t \in Trace |-> IF upload[t] = "done" THEN "done" ELSE "none"]
BY DEF Ending, Kill, LoadFails, OpenIndexRefused, BootFails, Return, StopKills, Exit, Ends

LEMMA SetUpStep == ASSUME UnitFollows, SetUp, Configured, Next PROVE SetUp'
<1> USE DEF SetUp, AfterLoad, AfterSpawn, Last, Everything, Loops, Stages, Sets
<1>1. CASE Start
  BY <1>1 DEF Start
<1>2. CASE Stop \/ StartTimeout
  BY <1>2 DEF Stop, StartTimeout, Told
<1>3. CASE Ending
  BY <1>3, EndSteps
<1>4. CASE Quiet
  BY <1>4, QuietSteps DEF process
<1>5. CASE Load \/ CleanTmp \/ TracesDir
  BY <1>5 DEF Load, CleanTmp, TracesDir
<1>6. CASE OpenIndex \/ ApplySchema \/ SetVersion \/ Migrate
  BY <1>6 DEF OpenIndex, ApplySchema, SetVersion, Migrate
<1>7. CASE Spawn
  <2>1. PICK l \in Launches : Loads(l.file) /\ conf = Loaded(l)
    BY <1>7 DEF Spawn, Configured
  <2>2. {k \in Loops : Period(conf)[k] > 0} = Loops
    BY <2>1, ValidPeriods
  <2>3. has' = has \cup ({"decoder"} \cup Loops)
    BY <1>7, <2>2 DEF Spawn
  <2>4. stage = "spawn" /\ stage' = "bind"
    BY <1>7 DEF Spawn
  <2> QED
    BY <2>3, <2>4
<1>8. CASE Bind \/ Signals \/ Announce \/ AnnounceFails
  BY <1>8 DEF Bind, Signals, Announce, AnnounceFails
<1>9. CASE Drain
  BY <1>9 DEF Drain
<1> QED
  BY <1>1, <1>2, <1>3, <1>4, <1>5, <1>6, <1>7, <1>8, <1>9
     DEF Next, Systemd, Boot, Index, Ending, Quiet

LEMMA ConfiguredStep == ASSUME UnitFollows, Configured, Next PROVE Configured'
<1> USE DEF Configured, AfterLoad, Stages, Sets
<1>1. CASE Start
  BY <1>1 DEF Start
<1>2. CASE Stop \/ StartTimeout
  BY <1>2 DEF Stop, StartTimeout, Told
<1>3. CASE Ending
  BY <1>3, EndSteps
<1>4. CASE Uploads \/ Tasks
  <2>1. UNCHANGED <<systemd, process>>
    BY <1>4 DEF Uploads, Tasks, Post, Commit, Refuse, Leave, Decode, Sweep, Gauge, GaugeFails, FileChange
  <2> QED
    BY <2>1 DEF systemd, process
<1>5. CASE Edit \/ NextDay
  BY <1>5 DEF Edit, NextDay, process, UnitFollows
<1>6. CASE Load
  BY <1>6 DEF Load, Accepted, systemd
<1>7. CASE CleanTmp \/ TracesDir \/ OpenIndex \/ ApplySchema \/ SetVersion \/ Migrate
  BY <1>7 DEF CleanTmp, TracesDir, OpenIndex, ApplySchema, SetVersion, Migrate, systemd
<1>8. CASE Spawn \/ Bind \/ Signals \/ Announce \/ AnnounceFails \/ Drain
  BY <1>8 DEF Spawn, Bind, Signals, Announce, AnnounceFails, Drain, systemd
<1> QED
  BY <1>1, <1>2, <1>3, <1>4, <1>5, <1>6, <1>7, <1>8
     DEF Next, Systemd, Boot, Index, Ending, Quiet

LEMMA UntouchedStep == ASSUME UnitFollows, Untouched, Next PROVE Untouched'
<1> USE DEF Untouched, Stages, Sets
<1>1. CASE Start
  <2>1. touched' = FALSE /\ stage' = "args" /\ code' = "none"
    BY <1>1 DEF Start
  <2> QED
    BY <2>1, Zenon
<1>2. CASE Stop \/ StartTimeout
  BY <1>2 DEF Stop, StartTimeout, Told
<1>3. CASE Ending
  <2>1. LoadFails => stage = "args"
    BY DEF LoadFails
  <2> QED
    BY <1>3, <2>1, EndSteps
<1>4. CASE Quiet
  BY <1>4, QuietSteps DEF process
<1>5. CASE Load \/ TracesDir \/ OpenIndex \/ ApplySchema \/ SetVersion \/ Migrate
  BY <1>5 DEF Load, TracesDir, OpenIndex, ApplySchema, SetVersion, Migrate
<1>6. CASE CleanTmp
  <2>1. touched' = TRUE /\ stage' = "traces" /\ code' = code
    BY <1>6 DEF CleanTmp
  <2> QED
    BY <2>1, Zenon
<1>7. CASE Spawn \/ Bind \/ Signals \/ Announce \/ AnnounceFails \/ Drain
  BY <1>7 DEF Spawn, Bind, Signals, Announce, AnnounceFails, Drain
<1> QED
  BY <1>1, <1>2, <1>3, <1>4, <1>5, <1>6, <1>7
     DEF Next, Systemd, Boot, Index, Ending, Quiet

LEMMA IndexReadyStep == ASSUME UnitFollows, IndexReady, Next PROVE IndexReady'
<1> USE DEF IndexReady, AfterSpawn, Stages, Sets
<1>1. CASE Start \/ Stop \/ StartTimeout
  BY <1>1 DEF Start, Stop, StartTimeout, Told, data
<1>2. CASE Ending
  BY <1>2, EndSteps DEF data
<1>3. CASE Edit \/ NextDay \/ Uploads \/ Tasks
  <2>1. stage' = stage
    BY <1>3, QuietSteps DEF Quiet, process
  <2>2. index' = index
    BY <1>3 DEF Edit, NextDay, Uploads, Tasks, Post, Commit, Refuse, Leave, Decode, Sweep, Gauge,
         GaugeFails, FileChange, data
  <2> QED
    BY <2>1, <2>2
<1>4. CASE Load \/ CleanTmp \/ TracesDir
  BY <1>4 DEF Load, CleanTmp, TracesDir, data
<1>5. CASE OpenIndex
  <2>1. index.version = 0 => stage' = "schema"
    BY <1>5 DEF OpenIndex
  <2>2. index.version # 0 => index.version = SCHEMA_VERSION /\ stage' = "migrate"
    BY <1>5 DEF OpenIndex
  <2>3. index' = index
    BY <1>5 DEF OpenIndex, data
  <2> QED
    BY <2>1, <2>2, <2>3
<1>6. CASE ApplySchema
  <2>1. index' = [index EXCEPT !.columns = IF @ = {} THEN AllColumns ELSE @]
        /\ stage = "schema" /\ stage' = "version"
    BY <1>6 DEF ApplySchema
  <2> QED
    BY <2>1 DEF AllColumns
<1>7. CASE SetVersion
  <2>1. index' = [index EXCEPT !.version = SCHEMA_VERSION]
        /\ stage = "version" /\ stage' = "migrate"
    BY <1>7 DEF SetVersion
  <2> QED
    BY <2>1 DEF SCHEMA_VERSION
<1>8. CASE Migrate
  <2>1. index' = [index EXCEPT !.columns = @ \cup {"pending_count"}]
        /\ stage = "migrate" /\ stage' = "spawn"
    BY <1>8 DEF Migrate
  <2>2. index.columns # {} /\ index.version = SCHEMA_VERSION
    BY <2>1 DEF SCHEMA_VERSION
  <2>3. index.columns \cup {"pending_count"} = AllColumns
    BY <2>2 DEF AllColumns
  <2>4. index' = [version |-> SCHEMA_VERSION, columns |-> AllColumns]
    BY <2>1, <2>2, <2>3
  <2> QED
    BY <2>1, <2>4 DEF AllColumns, SCHEMA_VERSION
<1>9. CASE Spawn \/ Bind \/ Signals \/ Announce \/ AnnounceFails \/ Drain
  BY <1>9 DEF Spawn, Bind, Signals, Announce, AnnounceFails, Drain, data
<1> QED
  BY <1>1, <1>2, <1>3, <1>4, <1>5, <1>6, <1>7, <1>8, <1>9
     DEF Next, Systemd, Boot, Index, Ending

(* No file of the model but the partial files is one. *)
LEMMA OtherFiles ==
    /\ ~IsPartial(IndexFile)
    /\ \A t \in Trace : ~IsPartial(RawOf(t)) /\ ~IsPartial(DbOf(t))
BY DEF IsPartial, IndexFile, RawOf, DbOf

LEMMA TmpIsOursStep == ASSUME UnitFollows, TmpIsOurs, Next PROVE TmpIsOurs'
<1> USE DEF TmpIsOurs, InTmp, AfterLoad, Stages, Sets
<1>1. CASE Start \/ Stop \/ StartTimeout
  BY <1>1 DEF Start, Stop, StartTimeout, Told, clients, disk
<1>2. CASE Ending
  BY <1>2, EndSteps
<1>3. CASE Edit \/ NextDay \/ Gauge \/ GaugeFails
  <2>1. UNCHANGED <<stage, upload, files>>
    BY <1>3 DEF Edit, NextDay, Gauge, GaugeFails, process, clients, disk
  <2> QED
    BY <2>1
<1>4. CASE Load \/ TracesDir \/ ApplySchema \/ SetVersion \/ Migrate
  BY <1>4 DEF Load, TracesDir, ApplySchema, SetVersion, Migrate, clients, disk
<1>5. CASE CleanTmp
  BY <1>5 DEF CleanTmp, Leftovers, FilesBecome, clients
<1>6. CASE OpenIndex
  BY <1>6, OtherFiles DEF OpenIndex, FilesBecome, clients
<1>7. CASE Spawn \/ Bind \/ Signals \/ Announce \/ AnnounceFails \/ Drain
  BY <1>7 DEF Spawn, Bind, Signals, Announce, AnnounceFails, Drain, clients, disk
<1>8. ASSUME NEW t \in Trace, Post(t) PROVE TmpIsOurs'
  <2>1. /\ upload' = [upload EXCEPT ![t] = "streaming"]
        /\ files' = files \cup {PartialOf(t)} /\ stage' = stage /\ stage = "serving"
    BY <1>8 DEF Post, FileChange, FilesBecome, process
  <2> QED
    BY <2>1
<1>9. ASSUME NEW t \in Trace, Commit(t) PROVE TmpIsOurs'
  <2>1. /\ upload' = [upload EXCEPT ![t] = "done"]
        /\ files' = (files \ {PartialOf(t)}) \cup {RawOf(t)} /\ stage' = stage
    BY <1>9 DEF Commit, FileChange, FilesBecome, process
  <2> QED
    BY <2>1, OtherFiles
<1>10. ASSUME NEW t \in Trace, Refuse(t) PROVE TmpIsOurs'
  <2>1. /\ upload' = [upload EXCEPT ![t] = "none"]
        /\ files' = files \ {PartialOf(t)} /\ stage' = stage
    BY <1>10 DEF Refuse, FileChange, FilesBecome, process
  <2> QED
    BY <2>1
<1>11. ASSUME NEW t \in Trace, Decode(t) \/ Sweep(t) PROVE TmpIsOurs'
  <2>1. /\ upload' = upload /\ stage' = stage
        /\ files' \subseteq files \cup {DbOf(t)}
    BY <1>11 DEF Decode, Sweep, FileChange, FilesBecome, process
  <2> QED
    BY <2>1, OtherFiles
<1>12. ASSUME NEW t \in Trace, Leave(t) PROVE TmpIsOurs'
  <2>1. /\ upload' = [upload EXCEPT ![t] = "left"] /\ upload[t] = "streaming"
        /\ files' = files /\ stage' = stage
    BY <1>12 DEF Leave, FileChange, FilesBecome, process
  <2> QED
    BY <2>1
<1> QED
  BY <1>1, <1>2, <1>3, <1>4, <1>5, <1>6, <1>7, <1>8, <1>9, <1>10, <1>11, <1>12
     DEF Next, Systemd, Boot, Index, Ending, Uploads, Tasks

LEMMA CountedStep == ASSUME Counted, Next PROVE Counted'
<1> USE Bounds DEF Counted, Happens
<1>1. CASE Start \/ Stop \/ StartTimeout \/ Edit
  BY <1>1 DEF Start, Stop, StartTimeout, Edit, Told, clients, data
<1>2. CASE Ending
  <2>1. faults' \in 0..MaxFaults
    BY <1>2 DEF Ending, Kill, LoadFails, OpenIndexRefused, BootFails, Return, StopKills
  <2> QED
    BY <1>2, <2>1, EndSteps DEF data
<1>3. CASE NextDay
  BY <1>3 DEF NextDay, clients, data
<1>4. CASE Load \/ CleanTmp \/ TracesDir \/ OpenIndex \/ ApplySchema \/ SetVersion \/ Migrate
  BY <1>4 DEF Load, CleanTmp, TracesDir, OpenIndex, ApplySchema, SetVersion, Migrate, clients, data
<1>5. CASE Spawn \/ Bind \/ Signals \/ Announce \/ AnnounceFails \/ Drain
  BY <1>5 DEF Spawn, Bind, Signals, Announce, AnnounceFails, Drain, clients, data
<1>6. CASE Gauge \/ \E t \in Trace : Post(t) \/ Refuse(t) \/ Leave(t) \/ Decode(t) \/ Sweep(t)
  BY <1>6 DEF Post, Refuse, Leave, Gauge, Decode, Sweep, FileChange, clients, data
<1>7. ASSUME NEW t \in Trace, Commit(t) PROVE Counted'
  <2>1. /\ began' = [began EXCEPT ![t] = today] /\ queue' = queue \cup {t}
        /\ UNCHANGED <<rows, today, faults>>
    BY <1>7 DEF Commit, FileChange
  <2>2. began' \in [Trace -> 0..today]
    BY <2>1
  <2> QED
    BY <2>1, <2>2
<1>8. CASE GaugeFails
  BY <1>8 DEF GaugeFails, clients, data
<1> QED
  BY <1>1, <1>2, <1>3, <1>4, <1>5, <1>6, <1>7, <1>8
     DEF Next, Systemd, Boot, Index, Ending, Uploads, Tasks

-----------------------------------------------------------------------------
(* Every step keeps the invariant. *)
LEMMA NextIInv == IInv /\ [Next]_vars => IInv'
<1> SUFFICES ASSUME IInv, [Next]_vars
             PROVE  IInv'
  OBVIOUS
<1>1. CASE Next
  BY <1>1, UnitFollowsStep, SetUpStep, ConfiguredStep, UntouchedStep, IndexReadyStep,
     TmpIsOursStep, CountedStep DEF IInv
<1>2. CASE UNCHANGED vars
  <2> USE <1>2 DEF vars, systemd, process, data, clients, disk
  <2>1. UnitFollows' /\ SetUp' /\ Configured' /\ Untouched'
    BY DEF IInv, UnitFollows, SetUp, Configured, Untouched
  <2>2. IndexReady' /\ TmpIsOurs' /\ Counted'
    BY DEF IInv, IndexReady, TmpIsOurs, InTmp, Counted
  <2> QED
    BY <2>1, <2>2 DEF IInv
<1> QED
  BY <1>1, <1>2

(* The invariant holds whatever the process is started with. *)
THEOREM Inductive == Spec => []IInv
BY InitIInv, NextIInv, PTL DEF Spec

(* Every variable has its type. *)
THEOREM TypeCorrect == Spec => []TypeOK
<1>1. IInv => TypeOK
  <2> SUFFICES ASSUME IInv PROVE TypeOK
    OBVIOUS
  <2>1. conf = NoConf <=> stage \in {"off", "args"}
    <3>1. \A l \in Launches : Loads(l.file) => Loaded(l) # NoConf
      BY ServiceAssumption DEF Loads
    <3> QED
      BY <3>1 DEF IInv, Configured, UnitFollows, AfterLoad
  <2>2. index.version \in Int /\ index.columns \subseteq AllColumns
    BY DEF IInv, IndexReady
  <2> QED
    BY <2>1, <2>2 DEF IInv, UnitFollows, SetUp, Configured, Untouched, TmpIsOurs, Counted, TypeOK
<1> QED
  BY <1>1, Inductive, PTL

(***************************************************************************)
(* Whatever configuration was accepted, whatever build left the index and  *)
(* wherever a crash cut the start short: once systemd has been told, every *)
(* loop runs, the schema is this build's, and tmp/ holds no partial file   *)
(* but of uploads that this process took up.                               *)
(***************************************************************************)
THEOREM ActiveServesHolds == Spec => []ActiveServes
<1>1. IInv => ActiveServes
  <2> SUFFICES ASSUME IInv, unit = "active"
               PROVE  /\ Everything \subseteq has
                      /\ index = [version |-> SCHEMA_VERSION, columns |-> AllColumns]
                      /\ Leftovers \subseteq
                            {PartialOf(t) : t \in {u \in Trace : upload[u] \in {"streaming", "left"}}}
    BY DEF ActiveServes
  <2>1. stage = "serving"
    BY DEF IInv, UnitFollows
  <2>2. Everything \subseteq has
    BY <2>1 DEF IInv, SetUp, AfterLoad, AfterSpawn, Last, Stages, Everything, Loops
  <2>3. index = [version |-> SCHEMA_VERSION, columns |-> AllColumns]
    BY <2>1 DEF IInv, IndexReady, AfterSpawn
  <2>4. \A p \in files : IsPartial(p) => \E t \in Trace : InTmp(t) /\ p = PartialOf(t)
    BY <2>1 DEF IInv, TmpIsOurs, AfterLoad, Stages
  <2> QED
    BY <2>2, <2>3, <2>4 DEF Leftovers, InTmp
<1> QED
  BY <1>1, Inductive, PTL

(* Exit status 2 leaves everything on disk as it was. *)
THEOREM RefusedTouchesNothingHolds == Spec => []RefusedTouchesNothing
<1>1. IInv => RefusedTouchesNothing
  BY DEF IInv, Untouched, RefusedTouchesNothing
<1> QED
  BY <1>1, Inductive, PTL

(***************************************************************************)
(* The handlers are there before READY is sent: from then on the process   *)
(* ends by a kill, or after its uploads with status 0.                     *)
(***************************************************************************)
THEOREM AnnouncedEndsInOrderHolds == Spec => AnnouncedEndsInOrder
<1> DEFINE A == unit \in {"active", "aborting"} /\ stage # "off" /\ stage' = "off"
                  => code' = "KILL" \/ (code' = "0" /\ signalled /\ NoUploads)
<1>1. IInv /\ [Next]_vars => [A]_vars
  <2> SUFFICES ASSUME IInv, Next, unit \in {"active", "aborting"}, stage # "off", stage' = "off"
               PROVE  code' = "KILL" \/ (code' = "0" /\ signalled /\ NoUploads)
    BY DEF vars
  <2>1. stage \in {"serving", "draining"} /\ "handlers" \in has /\ (stage = "draining" => signalled)
    BY DEF IInv, UnitFollows, SetUp, Last
  <2>2. CASE Ending
    <3>1. CASE Kill
      BY <3>1 DEF Kill, Exit, Ends
    <3>2. CASE Return
      BY <2>1, <3>2 DEF Return, Exit, Ends
    <3>3. ~(LoadFails \/ OpenIndexRefused \/ BootFails \/ StopKills)
      BY <2>1 DEF LoadFails, OpenIndexRefused, BootFails, StopKills
    <3> QED
      BY <2>2, <3>1, <3>2, <3>3 DEF Ending
  <2>3. ASSUME ~Ending PROVE FALSE
    <3>1. ~(Load \/ CleanTmp \/ TracesDir \/ OpenIndex \/ ApplySchema \/ SetVersion \/ Migrate
            \/ Spawn \/ Bind \/ Signals \/ Announce \/ AnnounceFails \/ Start)
      BY <2>1 DEF Load, CleanTmp, TracesDir, OpenIndex, ApplySchema, SetVersion, Migrate, Spawn,
           Bind, Signals, Announce, AnnounceFails, Start
    <3>2. ~(Stop \/ StartTimeout \/ Drain)
      BY <2>1 DEF Stop, StartTimeout, Told, Drain
    <3>3. ~Quiet
      BY <2>1, QuietSteps DEF process
    <3> QED
      BY <2>3, <3>1, <3>2, <3>3 DEF Next, Systemd, Boot, Index, Ending, Quiet
  <2> QED
    BY <2>2, <2>3
<1> QED
  BY <1>1, Inductive, PTL DEF Spec, AnnouncedEndsInOrder

-----------------------------------------------------------------------------
(* The retention of every configuration that is accepted fits into an i64. *)
NoOverflow == \A l \in Launches : Loads(l.file) => Loaded(l).retention_days * DayNanos < I64Half

(* An i64 that fits is itself. *)
LEMMA WrapFits == ASSUME NEW n \in Nat, n < I64Half PROVE Wrap(n) = n
<1>1. I64Half \in Nat \ {0}
  BY Bounds
<1> DEFINE m == n + I64Half
           k == 2 * I64Half
<1>2. m \in Nat /\ k \in Nat \ {0} /\ m < k
  BY <1>1
<1>3. m % k = m
  <2> HIDE DEF m, k
  <2> QED
    BY <1>2
<1> QED
  BY <1>1, <1>3 DEF Wrap

(* What is larger by a factor is larger. *)
LEMMA Scaled ==
    ASSUME NEW a \in Int, NEW d \in Nat \ {0}, 0 < a * d
    PROVE  0 < a
OBVIOUS

(***************************************************************************)
(* retention.rs keeps what is younger than retention_days: if that many    *)
(* days fit into an i64 of nanoseconds, which the configuration does not   *)
(* check.                                                                  *)
(***************************************************************************)
THEOREM KeepsTheYoungHolds == NoOverflow => (Spec => KeepsTheYoung)
<1> SUFFICES ASSUME NoOverflow PROVE Spec => KeepsTheYoung
  OBVIOUS
<1> DEFINE A == \A t \in rows \ rows' : today - began[t] > conf.retention_days
<1>1. IInv /\ [Next]_vars => [A]_vars
  <2> SUFFICES ASSUME IInv, Next, NEW t \in rows \ rows'
               PROVE  today - began[t] > conf.retention_days
    BY DEF vars
  <2>1. Sweep(t)
    <3>1. t \in Trace
      BY DEF IInv, Counted
    <3>2. \A s \in Trace : Sweep(s) => rows' = rows \ {s}
      BY DEF Sweep
    <3>3. ~(Systemd \/ Boot \/ AnnounceFails \/ BootFails \/ Drain \/ Return \/ NextDay
            \/ Gauge \/ GaugeFails)
      <4>1. (Ending \/ Start \/ Stop \/ StartTimeout \/ Edit \/ NextDay \/ Gauge \/ GaugeFails
             \/ Drain) => rows' = rows
        BY EndSteps DEF Start, Stop, StartTimeout, Edit, NextDay, Gauge, GaugeFails, Drain, Told, data
      <4>2. (Load \/ CleanTmp \/ TracesDir \/ OpenIndex \/ ApplySchema \/ SetVersion \/ Migrate
             \/ Spawn \/ Bind \/ Signals \/ Announce \/ AnnounceFails) => rows' = rows
        BY DEF Load, CleanTmp, TracesDir, OpenIndex, ApplySchema, SetVersion, Migrate, Spawn, Bind,
             Signals, Announce, AnnounceFails, data
      <4> QED
        BY <4>1, <4>2 DEF Systemd, Boot, Index, Ending
    <3>4. ~(Uploads \/ \E s \in Trace : Decode(s))
      BY DEF Uploads, Post, Commit, Refuse, Leave, Decode
    <3> QED
      BY <3>1, <3>2, <3>3, <3>4 DEF Next, Tasks
  <2>2. PICK l \in Launches : Loads(l.file) /\ conf = Loaded(l)
    <3>1. "retention" \in has
      BY <2>1 DEF Sweep
    <3>2. stage \notin {"off", "args"}
      BY <3>1 DEF IInv, SetUp
    <3> QED
      BY <3>2 DEF IInv, Configured, UnitFollows, AfterLoad
  <2> DEFINE days == conf.retention_days
  <2>3. days \in Nat /\ days * DayNanos < I64Half
    BY <2>2, ServiceAssumption DEF NoOverflow, Loads
  <2>4. today \in Nat /\ began[t] \in Nat /\ DayNanos \in Nat \ {0}
    BY Bounds DEF IInv, Counted
  <2>5. began[t] * DayNanos < today * DayNanos - Wrap(days * DayNanos)
    BY <2>1 DEF Sweep, Cutoff
  <2> HIDE DEF days
  <2>6. days * DayNanos \in Nat
    BY <2>3, <2>4
  <2>7. Wrap(days * DayNanos) = days * DayNanos
    BY <2>3, <2>6, WrapFits
  <2>8. 0 < (today - began[t] - days) * DayNanos
    BY <2>3, <2>4, <2>5, <2>7
  <2>9. 0 < today - began[t] - days
    BY <2>3, <2>4, <2>8, Scaled
  <2> QED
    BY <2>3, <2>4, <2>9 DEF days
<1> QED
  BY <1>1, Inductive, PTL DEF Spec, KeepsTheYoung

-----------------------------------------------------------------------------
(***************************************************************************)
(* The gauge: what it has listed of what was there all along it has        *)
(* counted, but for the entry it holds and what an error hid, and it       *)
(* counts nothing that was never there.                                    *)
(***************************************************************************)
InPlace(fs) == IsFiniteSet(fs) /\ NoEntry \notin fs /\ \A p \in fs : InLayout(p) => p \in Written

WalkIsHonest ==
    /\ InPlace(files)
    /\ walk # NoWalk =>
        /\ stage \in AfterLoad
        /\ walk = [listed |-> walk.listed, counted |-> walk.counted, entry |-> walk.entry,
                   failed |-> walk.failed, steady |-> walk.steady, ever |-> walk.ever]
        /\ InPlace(walk.ever)
        /\ walk.steady \subseteq files /\ files \subseteq walk.ever
        /\ walk.counted \subseteq walk.ever /\ \A p \in walk.counted : InLayout(p)
        /\ \A p \in walk.listed \cap walk.steady \cap Written :
              p \in walk.counted \/ p = walk.entry \/ Hidden(p)

(* Every file of the collector is in its layout. *)
LEMMA WrittenInLayout == \A p \in Written : InLayout(p)
<1>1. InLayout(IndexFile)
  BY DEF IndexFile, InLayout, Sqlite
<1>2. ASSUME NEW t \in Trace PROVE InLayout(PartialOf(t)) /\ InLayout(RawOf(t)) /\ InLayout(DbOf(t))
  <2>1. t # "none"
    BY FilesAssumption
  <2>2. InLayout(PartialOf(t))
    <3>1. Len(PartialOf(t)) = 2 /\ PartialOf(t)[1][1] = "tmp"
      BY DEF PartialOf
    <3> QED
      BY <3>1 DEF InLayout
  <2>3. InLayout(RawOf(t))
    <3>1. /\ Len(RawOf(t)) = 3 /\ RawOf(t)[1][1] = "traces"
          /\ RawOf(t)[2][2] = ".raw" /\ RawOf(t)[2][1] = t
      BY DEF RawOf
    <3> QED
      BY <2>1, <3>1 DEF InLayout
  <2>4. InLayout(DbOf(t))
    <3>1. Len(DbOf(t)) = 2 /\ DbOf(t)[1][1] = "traces" /\ DbOf(t)[2][2] = ".sqlite"
      BY DEF DbOf
    <3> QED
      BY <3>1 DEF InLayout, Sqlite
  <2> QED
    BY <2>2, <2>3, <2>4
<1> QED
  BY <1>1, <1>2 DEF Written

(* A file more or less of the collector's keeps the files in place. *)
LEMMA InPlaceAdd ==
    ASSUME NEW fs, InPlace(fs), NEW p \in Written, NEW gs, gs \subseteq fs \cup {p}
    PROVE  InPlace(gs)
<1>1. IsFiniteSet(gs)
  BY FS_AddElement, FS_Subset DEF InPlace
<1>2. NoEntry \notin gs
  BY FilesAssumption DEF InPlace
<1>3. \A q \in gs : InLayout(q) => q \in Written
  BY DEF InPlace
<1> QED
  BY <1>1, <1>2, <1>3, Zenon DEF InPlace

LEMMA FilesBecomeHonest ==
    ASSUME WalkIsHonest, NEW fs, InPlace(fs), FilesBecome(fs),
           walk # NoWalk => stage' \in AfterLoad
    PROVE  WalkIsHonest'
<1>1. files' = fs
  BY DEF FilesBecome
<1>2. CASE walk = NoWalk
  BY <1>1, <1>2 DEF FilesBecome, WalkIsHonest
<1>3. CASE walk # NoWalk
  <2>1. walk' = [walk EXCEPT !.steady = @ \cap fs, !.ever = @ \cup fs]
    BY <1>3 DEF FilesBecome
  <2>2. walk' = [listed |-> walk.listed, counted |-> walk.counted, entry |-> walk.entry,
                 failed |-> walk.failed, steady |-> walk.steady \cap fs, ever |-> walk.ever \cup fs]
    BY <1>3, <2>1 DEF WalkIsHonest
  <2>3. InPlace(walk.ever \cup fs)
    BY <1>3, FS_Union DEF WalkIsHonest, InPlace
  <2> QED
    BY <1>1, <1>3, <2>2, <2>3 DEF WalkIsHonest, Hidden
<1> QED
  BY <1>2, <1>3

LEMMA InitHonest == Init => WalkIsHonest
<1> SUFFICES ASSUME Init PROVE InPlace(files)
  BY DEF Init, WalkIsHonest
<1> DEFINE Old == {PartialOf(t) : t \in Trace}
<1>1. IsFiniteSet(Old)
  <2>1. IsFiniteSet(Trace)
    BY FilesAssumption
  <2> DEFINE f == [t \in Trace |-> PartialOf(t)]
  <2>2. f \in Surjection(Trace, Old)
    BY DEF Surjection
  <2> QED
    BY <2>1, <2>2, FS_Surjection
<1>2. Old \subseteq Written
  BY DEF Written
<1>3. InPlace(Strays)
  BY FilesAssumption DEF InPlace
<1>4. InPlace(Strays \cup Old)
  BY <1>1, <1>2, FS_Union, FilesAssumption DEF InPlace
<1> QED
  BY <1>3, <1>4 DEF Init

LEMMA HonestStep == ASSUME IInv, WalkIsHonest, Next PROVE WalkIsHonest'
<1>0. walk # NoWalk => stage \in AfterLoad
  BY DEF WalkIsHonest
<1> USE DEF Sets
<1>1. CASE Ending
  BY <1>1, EndSteps DEF WalkIsHonest
<1>2. CASE Start \/ Stop \/ StartTimeout \/ Edit \/ NextDay
  <2>1. UNCHANGED <<files, walk>> /\ (stage' = stage \/ stage = "off")
    BY <1>2 DEF Start, Stop, StartTimeout, Edit, NextDay, Told, disk, process
  <2> QED
    BY <2>1 DEF WalkIsHonest, Hidden, AfterLoad
<1>3. CASE Load \/ TracesDir \/ ApplySchema \/ SetVersion \/ Migrate \/ Spawn \/ Bind \/ Signals
           \/ Announce \/ AnnounceFails \/ Drain
  <2>1. UNCHANGED <<files, walk>> /\ stage' \in AfterLoad
    BY <1>3 DEF Load, TracesDir, ApplySchema, SetVersion, Migrate, Spawn, Bind, Signals, Announce,
         AnnounceFails, Drain, disk, AfterLoad, Stages
  <2> QED
    BY <2>1 DEF WalkIsHonest, Hidden
<1>4. CASE CleanTmp
  <2>1. FilesBecome(files \ Leftovers) /\ stage' \in AfterLoad
    BY <1>4 DEF CleanTmp, AfterLoad, Stages
  <2>2. InPlace(files \ Leftovers)
    BY FS_Subset DEF WalkIsHonest, InPlace
  <2> QED
    BY <2>1, <2>2, FilesBecomeHonest
<1>5. CASE OpenIndex
  <2>1. FilesBecome(files \cup {IndexFile}) /\ stage' \in AfterLoad
    BY <1>5 DEF OpenIndex, AfterLoad, Stages
  <2>2. InPlace(files \cup {IndexFile})
    BY InPlaceAdd DEF WalkIsHonest, Written
  <2> QED
    BY <2>1, <2>2, FilesBecomeHonest
<1>6. ASSUME NEW t \in Trace, Post(t) \/ Commit(t) \/ Refuse(t) \/ Leave(t) \/ Decode(t) \/ Sweep(t)
      PROVE  WalkIsHonest'
  <2>1. /\ PartialOf(t) \in Written /\ RawOf(t) \in Written /\ DbOf(t) \in Written
    BY DEF Written
  <2>2. PICK fs : /\ FilesBecome(fs) /\ stage' = stage
                  /\ \E p \in {PartialOf(t), RawOf(t), DbOf(t)} : fs \subseteq files \cup {p}
    BY <1>6 DEF Post, Commit, Refuse, Leave, Decode, Sweep, FileChange, process
  <2>3. InPlace(fs)
    BY <2>1, <2>2, InPlaceAdd DEF WalkIsHonest
  <2> QED
    BY <1>0, <2>2, <2>3, FilesBecomeHonest
<1>7. CASE Gauge
  <2>1. files' = files /\ stage' = stage /\ stage \in AfterLoad
    BY <1>7 DEF Gauge, process, IInv, SetUp, UnitFollows, AfterLoad
  <2>2. CASE BeginWalk
    BY <2>1, <2>2 DEF BeginWalk, WalkIsHonest
  <2>3. CASE Stat
    <3>1. walk' = [listed |-> walk.listed, entry |-> NoEntry, failed |-> walk.failed,
                   steady |-> walk.steady, ever |-> walk.ever,
                   counted |-> walk.counted \cup {p \in {walk.entry} \cap files : InLayout(p)}]
      BY <2>3 DEF Stat, WalkIsHonest
    <3>2. /\ walk # NoWalk /\ walk.steady \subseteq files /\ files \subseteq walk.ever
          /\ InPlace(files) /\ InPlace(walk.ever) /\ walk.counted \subseteq walk.ever
          /\ \A p \in walk.counted : InLayout(p)
      BY <2>3 DEF Stat, WalkIsHonest
    <3>3. ASSUME NEW p \in walk.listed \cap walk.steady \cap Written
          PROVE  p \in walk'.counted \/ Hidden(p)'
      <4>1. CASE p \in walk.counted
        BY <3>1, <4>1
      <4>2. CASE p = walk.entry
        <5>1. p \in files /\ InLayout(p)
          BY <3>2, WrittenInLayout
        <5> QED
          BY <3>1, <4>2, <5>1
      <4>3. CASE Hidden(p)
        BY <3>1, <4>3 DEF Hidden
      <4> QED
        BY <3>2, <4>1, <4>2, <4>3 DEF WalkIsHonest
    <3>4. walk'.counted \subseteq walk.ever /\ \A p \in walk'.counted : InLayout(p)
      BY <3>1, <3>2
    <3>5. /\ walk'.listed = walk.listed /\ walk'.steady = walk.steady /\ walk'.ever = walk.ever
          /\ walk' = [listed |-> walk'.listed, counted |-> walk'.counted, entry |-> walk'.entry,
                      failed |-> walk'.failed, steady |-> walk'.steady, ever |-> walk'.ever]
      BY <3>1
    <3> QED
      BY <2>1, <3>2, <3>3, <3>4, <3>5 DEF WalkIsHonest
  <2>4. ASSUME NEW p \in files, List(p) PROVE WalkIsHonest'
    <3>1. walk' = [listed |-> walk.listed \cup {p}, counted |-> walk.counted, entry |-> p,
                   failed |-> walk.failed, steady |-> walk.steady, ever |-> walk.ever]
      BY <2>4 DEF List, WalkIsHonest
    <3>2. walk # NoWalk /\ walk.entry = NoEntry /\ NoEntry \notin walk.steady
      BY <2>4 DEF List, WalkIsHonest, InPlace
    <3> QED
      BY <2>1, <3>1, <3>2 DEF WalkIsHonest, Hidden
  <2>5. CASE walk' = NoWalk
    BY <2>1, <2>5 DEF WalkIsHonest
  <2> QED
    BY <1>7, <2>2, <2>3, <2>4, <2>5 DEF Gauge
<1>8. CASE GaugeFails
  <2>1. files' = files /\ stage' = stage /\ stage \in AfterLoad
    BY <1>8 DEF GaugeFails, process, IInv, SetUp, UnitFollows, AfterLoad
  <2>2. PICK d : /\ walk # NoWalk
                 /\ \/ d = walk.entry /\ walk' = [walk EXCEPT !.entry = NoEntry, !.failed = @ \cup {d}]
                    \/ walk' = [walk EXCEPT !.failed = @ \cup {d}]
    BY <1>8 DEF GaugeFails, StatFails, ListFails
  <2>3. /\ walk' = [listed |-> walk.listed, counted |-> walk.counted, entry |-> walk'.entry,
                    failed |-> walk.failed \cup {d}, steady |-> walk.steady, ever |-> walk.ever]
        /\ walk'.entry = walk.entry \/ d = walk.entry
    BY <2>2 DEF WalkIsHonest
  <2>4. ASSUME NEW p \in walk.listed \cap walk.steady \cap Written
        PROVE  p \in walk.counted \/ p = walk'.entry \/ Hidden(p)'
    BY <2>2, <2>3 DEF WalkIsHonest, Hidden, Below
  <2> QED
    BY <2>1, <2>2, <2>3, <2>4 DEF WalkIsHonest
<1> QED
  BY <1>1, <1>2, <1>3, <1>4, <1>5, <1>6, <1>7, <1>8
     DEF Next, Systemd, Boot, Index, Ending, Uploads, Tasks

(* More files are not less over the threshold. *)
LEMMA OverMonotone ==
    ASSUME Configured, stage \in AfterLoad,
           NEW fs, NEW gs, IsFiniteSet(gs), fs \subseteq gs, Over(fs)
    PROVE  Over(gs)
<1>1. PICK l \in Launches : Loads(l.file) /\ conf = Loaded(l)
  BY DEF Configured
<1>2. Cardinality(fs) \in Nat /\ Cardinality(gs) \in Nat /\ Cardinality(fs) <= Cardinality(gs)
  <2>1. fs \in SUBSET gs
    OBVIOUS
  <2>2. IsFiniteSet(fs) /\ Cardinality(fs) <= Cardinality(gs)
    BY <2>1, FS_Subset
  <2> QED
    BY <2>2, FS_CardinalityType
<1>3. conf.disk_usage_warn_pct \in 1..100
  <2>1. Parsed(l.file.sets).disk_usage_warn_pct \in 1..100
    BY <1>1 DEF Loads, Validate, ObservabilityOk
  <2>2. Loaded(l).disk_usage_warn_pct = Parsed(l.file.sets).disk_usage_warn_pct
    BY DEF Loaded, Parsed, Options, Defaults
  <2> QED
    BY <1>1, <2>1, <2>2
<1>4. conf.disk_capacity_bytes \in Nat
  <2>1. conf.disk_capacity_bytes \in Nat \cup {Absent}
    BY <1>1, ServiceAssumption DEF Loads
  <2>2. conf.disk_capacity_bytes # Absent
    BY DEF Over, OverThreshold
  <2> QED
    BY <2>1, <2>2
<1>5. conf.disk_capacity_bytes * conf.disk_usage_warn_pct \in Int
  BY <1>3, <1>4
<1> QED
  BY <1>2, <1>4, <1>5 DEF Over, OverThreshold

(***************************************************************************)
(* However files come, go and are renamed during the walk, the gauge warns *)
(* when the files that stayed and that no I/O error hid from it are over   *)
(* the threshold, and not unless those that were ever there are.           *)
(***************************************************************************)
THEOREM GaugeTellsTheTruthHolds == Spec => []GaugeTellsTheTruth
<1>1. Init => IInv /\ WalkIsHonest
  BY InitIInv, InitHonest
<1>2. (IInv /\ WalkIsHonest) /\ [Next]_vars => (IInv /\ WalkIsHonest)'
  <2> SUFFICES ASSUME IInv, WalkIsHonest, [Next]_vars PROVE WalkIsHonest'
    BY NextIInv
  <2>1. CASE UNCHANGED vars
    BY <2>1 DEF vars, disk, process, WalkIsHonest, Hidden
  <2> QED
    BY <2>1, HonestStep
<1>3. IInv /\ WalkIsHonest => GaugeTellsTheTruth
  <2> SUFFICES ASSUME IInv, WalkIsHonest, Exhausted
               PROVE  /\ Over({p \in walk.steady \cap Written : ~Hidden(p)}) => Over(walk.counted)
                      /\ Over(walk.counted) => Over(walk.ever \cap Written)
    BY DEF GaugeTellsTheTruth
  <2>1. Configured /\ stage \in AfterLoad /\ InPlace(walk.ever)
    BY DEF IInv, Exhausted, WalkIsHonest
  <2>2. {p \in walk.steady \cap Written : ~Hidden(p)} \subseteq walk.counted
    <3>1. NoEntry \notin Written
      BY FilesAssumption
    <3> QED
      BY <3>1 DEF Exhausted, WalkIsHonest
  <2>3. walk.counted \subseteq walk.ever \cap Written
    BY DEF Exhausted, WalkIsHonest, InPlace
  <2>4. IsFiniteSet(walk.ever \cap Written)
    BY <2>1, FS_Subset DEF InPlace
  <2>5. IsFiniteSet(walk.counted)
    BY <2>3, <2>4, FS_Subset
  <2> QED
    BY <2>1, <2>2, <2>3, <2>4, <2>5, OverMonotone
<1> QED
  BY <1>1, <1>2, <1>3, PTL DEF Spec
=============================================================================
