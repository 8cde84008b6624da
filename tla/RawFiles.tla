------------------------------- MODULE RawFiles -------------------------------
(***************************************************************************)
(* The layout of <data_dir>/traces: a directory <key>.raw per trace, with  *)
(* a file batch-NNNN.msgpack per batch                                     *)
(* (crates/php-tree-viz-collector/src/http/storage.rs).  A set of files is *)
(* a set of records [key, num, body].                                      *)
(***************************************************************************)
EXTENDS Integers, FiniteSets, FiniteSetsExt

CONSTANTS
    Key,        \* the trace keys
    BatchMax    \* the largest batch number, 9999 in the source

ASSUME RawAssumption == BatchMax \in Nat \ {0}

FilesOf(raw, k) == {f \in raw : f.key = k}

Numbers(raw, k) == {f.num : f \in FilesOf(raw, k)}

(* next_batch_number: one more than the largest number in the directory. *)
NextNumber(raw, k) == 1 + Max({0} \cup Numbers(raw, k))
=============================================================================
