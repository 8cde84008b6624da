---------------------------------- MODULE Gauge ----------------------------------
(***************************************************************************)
(* The disk-usage gauge (crates/php-tree-viz-collector/src/observability/  *)
(* disk_usage.rs): a walk over the data directory, while files are         *)
(* created, renamed and removed, then a comparison with the threshold.  A  *)
(* path is a sequence of names, a name a stem with its extension, either   *)
(* "none" where it has none; every file is one unit large.                 *)
(***************************************************************************)
EXTENDS Integers, Sequences, FiniteSets

CONSTANTS
    NoWalk,     \* walk between two ticks
    NoEntry     \* entry when the walk holds none

VARIABLES
    files,      \* the paths of the files below the data directory
    walk        \* the walk under way: what it listed and counted, the entry it
                \* holds, and as history the paths it had an error on (failed),
                \* the files that were there all along (steady) and those that
                \* were there at any time (ever)

Sqlite == {".sqlite", ".sqlite-wal", ".sqlite-shm"}

(* path_is_in_layout *)
InLayout(p) ==
    \/ Len(p) = 1 /\ p[1][1] = "index" /\ p[1][2] \in Sqlite
    \/ Len(p) = 2 /\ p[1][1] = "traces" /\ p[2][2] \in Sqlite
    \/ Len(p) = 3 /\ p[1][1] = "traces" /\ p[2][2] = ".raw" /\ p[2][1] # "none"
    \/ Len(p) = 2 /\ p[1][1] = "tmp"

(* is_over_threshold: without a capacity there is none. *)
OverThreshold(bytes, capacity, percent, unset) ==
    /\ capacity # unset /\ capacity # 0 /\ percent # 0
    /\ bytes * 100 >= capacity * percent

BeginWalk ==
    /\ walk = NoWalk
    /\ walk' = [listed |-> {}, counted |-> {}, entry |-> NoEntry, failed |-> {},
                steady |-> files, ever |-> files]

(* p is d, or a file somewhere below the directory d. *)
Below(p, d) == p = d \/ (Len(d) < Len(p) /\ d = SubSeq(p, 1, Len(d)))

(* The walk does not come by p any more: an error was skipped there. *)
Hidden(p) == \E d \in walk.failed : Below(p, d)

(* The next entry of the walk: a file is listed at most once. *)
List(p) ==
    /\ walk # NoWalk /\ walk.entry = NoEntry
    /\ p \in files \ walk.listed /\ ~Hidden(p)
    /\ walk' = [walk EXCEPT !.entry = p, !.listed = @ \cup {p}]

MutantCountsAll ==
    /\ walk # NoWalk /\ walk.entry # NoEntry
    /\ walk' = [walk EXCEPT !.entry = NoEntry, !.counted = @ \cup ({walk.entry} \cap files)]

(* metadata: an entry that has vanished since it was listed is skipped. *)
Stat ==
    /\ walk # NoWalk /\ walk.entry # NoEntry
    /\ walk' = [walk EXCEPT !.entry = NoEntry,
                            !.counted = @ \cup {p \in {walk.entry} \cap files : InLayout(p)}]

(* filter_map(|r| r.ok()): a directory that cannot be read (any further), or *)
(* an entry without a type, is skipped, with all that is below.            *)
ListFails(d) ==
    /\ walk # NoWalk /\ walk.entry = NoEntry
    /\ \E p \in files \ walk.listed : Below(p, d) /\ ~Hidden(p)
    /\ walk' = [walk EXCEPT !.failed = @ \cup {d}]

(* Err(_) => continue, whatever the error is. *)
StatFails ==
    /\ walk # NoWalk /\ walk.entry # NoEntry
    /\ walk' = [walk EXCEPT !.entry = NoEntry, !.failed = @ \cup {walk.entry}]

(* What was there all along has been listed, or skipped; what came or went *)
(* may be.                                                                 *)
Exhausted ==
    /\ walk # NoWalk /\ walk.entry = NoEntry
    /\ \A p \in walk.steady : p \in walk.listed \/ Hidden(p)

(* The files become fs, under a walk if there is one. *)
FilesBecome(fs) ==
    /\ files' = fs
    /\ walk' = IF walk = NoWalk THEN NoWalk
               ELSE [walk EXCEPT !.steady = @ \cap fs, !.ever = @ \cup fs]
=============================================================================
