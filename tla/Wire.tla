---------------------------------- MODULE Wire ----------------------------------
(***************************************************************************)
(* A batch on the wire and the trace key made from it (crates/             *)
(* php-tree-viz-collector/src/{wire,tracekey}.rs).  A MessagePack map is a *)
(* record; a field whose value has another type counts as missing.  The    *)
(* host is a sequence of bytes.  A trace_id is a record: its shape, "zero",*)
(* "uuid" or "other", and if it is a UUID its digits and their case.       *)
(***************************************************************************)
EXTENDS Integers, Sequences

MetaFields == {"schema_version", "trace_id", "host", "pid", "start_time",
               "sapi", "uri_or_script", "dropped_records"}
DictFields == {"fn_id", "fqn", "file", "line", "kind"}
CallFields == {"call_id", "parent", "fn", "depth", "t_in", "t_out",
               "cpu_u", "cpu_s", "mem_in", "mem_out", "abnormal_exit"}

(* serde's derive: every field is required, further ones are ignored. *)
Has(map, fields) == fields \subseteq DOMAIN map

(* The request path looks at meta and skips the rest. *)
ParsesMeta(body) == Has(body, {"meta"}) /\ Has(body.meta, MetaFields)

(* The decoder task looks at everything. *)
ParsesBatch(body) ==
    /\ ParsesMeta(body)
    /\ Has(body, {"dict", "calls"})
    /\ \A i \in DOMAIN body.dict : Has(body.dict[i], DictFields)
    /\ \A i \in DOMAIN body.calls : Has(body.calls[i], CallFields)

(***************************************************************************)
(* to_le_bytes of a u64, or of an i64 in two's complement, which is what   *)
(* \div and %, that round down, make of a negative number.                 *)
(***************************************************************************)
LeBytes(n) ==
    LET q1 == n \div 256
        q2 == q1 \div 256
        q3 == q2 \div 256
        q4 == q3 \div 256
        q5 == q4 \div 256
        q6 == q5 \div 256
        q7 == q6 \div 256
    IN  <<n % 256, q1 % 256, q2 % 256, q3 % 256, q4 % 256, q5 % 256, q6 % 256, q7 % 256>>

MutantForgetsPid(meta) == meta.host \o LeBytes(meta.start_time)

(* synthesize: what is hashed.  The hash is taken to be injective. *)
HashInput(meta) == meta.host \o LeBytes(meta.pid) \o LeBytes(meta.start_time)

(* from_meta: the placeholder, and what is no UUID, make way for the hash. *)
FromMeta(meta) ==
    IF meta.trace_id.shape = "uuid" THEN <<meta.trace_id.digits>> ELSE HashInput(meta)
=============================================================================
