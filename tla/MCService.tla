------------------------------- MODULE MCService -------------------------------
(***************************************************************************)
(* Instances of Service for TLC: an installation whose operator makes the  *)
(* mistakes that Config::validate is there for, one in each section.       *)
(***************************************************************************)
EXTENDS Service, FiniteSetsExt, TLC

Flag == <<"--config", "path">>

Base ==
    [bind |-> "loopback", token |-> [text |-> "t", chars |-> 32],
     session_salt |-> [text |-> "s", chars |-> 32], data_dir |-> "absolute", retention_days |-> 1]

Toml(sets) == [args |-> Flag, rustLog |-> "unset", file |-> [text |-> "toml", sets |-> sets]]

Good == {[Toml(Base) EXCEPT !.rustLog = "parses"],
         [Toml("disk_capacity_bytes" :> 3 @@ Base) EXCEPT !.rustLog = "garbled"]}

Mistakes ==
    {"bind" :> "any" @@ Base,
     "session_salt" :> Base.token @@ Base,
     "disk_capacity_bytes" :> 0 @@ Base,
     "idle_seconds" :> 601 @@ Base,
     "tick_seconds" :> 0 @@ Base,
     "retention_tick_seconds" :> 0 @@ Base,
     "level" :> "loud" @@ Base,
     "test_override" :> 0 @@ Base,
     "unknown" :> 1 @@ Base,
     [o \in DOMAIN Base \ {"token"} |-> Base[o]]}

Operator ==
    Good \cup {Toml(sets) : sets \in Mistakes}
    \cup {[Toml(Base) EXCEPT !.args = <<"--config">>],
          [Toml(Base) EXCEPT !.file.text = "unreadable"]}

(* As long as i64Half / DayNanos days, and longer. *)
Forever == {Toml("retention_days" :> 9 @@ Base)}

Builds == {[version |-> 0, columns |-> {}],
           [version |-> 0, columns |-> {"start_time_ns"}],
           [version |-> 1, columns |-> {"start_time_ns"}],
           [version |-> 2, columns |-> AllColumns]}
Empty == {[version |-> 0, columns |-> {}]}

Backup == {<< <<"traces", "none">>, <<"a", ".raw">>, <<"old", "none">>, <<"x", ".gz">> >>}
=============================================================================
