--------------------------------- MODULE Config ---------------------------------
(***************************************************************************)
(* The command line, the configuration file and the log level              *)
(* (crates/php-tree-viz-collector/src/main.rs, config/mod.rs and           *)
(* observability/subscriber.rs).  A file that is TOML maps the options it  *)
(* sets to their values; a secret is its text and its length.              *)
(***************************************************************************)
EXTENDS Integers, Sequences

CONSTANT Absent     \* the value of an option that may be left out

(* parse_args: "--config" with a value, once, and nothing else. *)
ParseArgs(args) == Len(args) = 2 /\ args[1] = "--config"

Required == {"bind", "token", "session_salt", "data_dir", "retention_days"}

Defaults ==
    [max_body_bytes |-> 67108864, queue_capacity |-> 256, disk_capacity_bytes |-> Absent,
     idle_seconds |-> 30, tick_seconds |-> 5, max_pending_seconds |-> 600,
     tick_minutes |-> 60, retention_tick_seconds |-> Absent,
     level |-> "info", format |-> "json",
     disk_usage_tick_seconds |-> 3600, disk_usage_warn_pct |-> 80, test_override |-> Absent]

Options == Required \cup DOMAIN Defaults

(***************************************************************************)
(* The periods of the three loops (http::run, effective_tick).  A tokio    *)
(* interval of 0 panics.                                                   *)
(***************************************************************************)
Override(n, otherwise) == IF n = Absent THEN otherwise ELSE n

Period(c) ==
    [finalize  |-> c.tick_seconds,
     retention |-> Override(c.retention_tick_seconds, c.tick_minutes * 60),
     gauge     |-> Override(c.test_override, c.disk_usage_tick_seconds)]

(* Deserialize: nothing required is missing, nothing unknown is set. *)
Parses(toml) == Required \subseteq DOMAIN toml /\ DOMAIN toml \subseteq Options

Parsed(toml) ==
    [o \in Options |-> IF o \in DOMAIN toml THEN toml[o] ELSE Defaults[o]]

PositiveIfSet(n) == n # Absent => n > 0

ServerOk(c) ==
    /\ c.bind = "loopback"      \* a socket address, and a loopback one
    /\ c.max_body_bytes > 0
    /\ c.queue_capacity > 0

AuthOk(c) ==
    /\ c.token.chars >= 32
    /\ c.session_salt.chars >= 32
    /\ c.session_salt # c.token

StorageOk(c) ==
    /\ c.data_dir = "absolute"
    /\ c.retention_days > 0
    /\ PositiveIfSet(c.disk_capacity_bytes)

MutantAnyTick(c) == c.idle_seconds > 0 /\ c.max_pending_seconds >= c.idle_seconds

FinalizeOk(c) ==
    /\ c.idle_seconds > 0
    /\ c.tick_seconds > 0
    /\ c.max_pending_seconds > 0
    /\ c.max_pending_seconds >= c.idle_seconds

RetentionOk(c) ==
    /\ c.tick_minutes > 0
    /\ PositiveIfSet(c.retention_tick_seconds)

LogOk(c) ==
    /\ c.level \in {"trace", "debug", "info", "warn", "error"}
    /\ c.format \in {"json", "text"}

ObservabilityOk(c) ==
    /\ c.disk_usage_tick_seconds > 0
    /\ c.disk_usage_warn_pct \in 1..100
    /\ PositiveIfSet(c.test_override)

Validate(c) ==
    /\ ServerOk(c) /\ AuthOk(c) /\ StorageOk(c) /\ FinalizeOk(c)
    /\ RetentionOk(c) /\ LogOk(c) /\ ObservabilityOk(c)

(* load_from_path succeeds: the file can be read, parsed and validated. *)
Loads(file) == file.text = "toml" /\ Parses(file.sets) /\ Validate(Parsed(file.sets))

(* build_filter: RUST_LOG if it is set and parses, log.level otherwise. *)
Filter(rustLog, level) == IF rustLog = "parses" THEN rustLog ELSE level
=============================================================================
