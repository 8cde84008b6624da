------------------------------- MODULE MCIngest -------------------------------
(***************************************************************************)
(* Instances of Ingest for TLC.  In one, six requests of two traces that   *)
(* one host recorded in the same microsecond, whose bodies and headers are *)
(* those of tables: the traces' keys are what Wire makes of them, and the  *)
(* reasons to refuse are those of Wire and Gate.  In the other, two        *)
(* requests of one trace.                                                  *)
(***************************************************************************)
EXTENDS Ingest, Gate, Wire, TLC

Kinds == {"first", "nocalls", "other", "large", "schema", "stranger"}
KindCarries ==
    [first |-> "first", nocalls |-> "nocalls", other |-> "other",
     large |-> "large", schema |-> "schema", stranger |-> "unasked"]
KindBodies == {KindCarries[r] : r \in Kinds}
KindTrace ==
    [first |-> "main", nocalls |-> "main", other |-> "forked",
     large |-> "main", schema |-> "main", unasked |-> "main"]

Headers(r) ==
    LET asked == [authorization |-> [scheme |-> "Bearer ", token |-> <<1, 2>>]]
    IN  CASE r = "stranger" -> [authorization |-> [scheme |-> "Bearer ", token |-> <<1, 3>>]]
          [] r = "first" -> asked @@ [content_type |-> <<Media, "charset=binary">>]
          [] OTHER -> asked @@ [content_type |-> <<Media>>]

(* The trace_id is the placeholder that the extension sends for now. *)
MetaOf(b) ==
    [schema_version |-> IF b = "schema" THEN 2 ELSE 1,
     trace_id |-> [shape |-> "zero"], host |-> <<104, 49>>,
     pid |-> IF b = "other" THEN 65537 ELSE 1, start_time |-> -2,
     sapi |-> "cli", uri_or_script |-> "", dropped_records |-> 0]

Body(b) ==
    [meta |-> MetaOf(b), dict |-> <<>>, calls |-> IF b = "nocalls" THEN <<[call_id |-> 1]>> ELSE <<>>]

\* A key is named by one of the bodies that have it.  (TLC evaluates a table once that is
\* not itself what the cfg substitutes.)
KeyTable ==
    [b \in KindBodies |-> CHOOSE c \in KindBodies : FromMeta(MetaOf(c)) = FromMeta(MetaOf(b))]
KindKey == KeyTable
KindKeys == {KindKey[b] : b \in KindBodies}
KindStrangers == {"stranger"}
KindSchema == {"schema"}
KindNoCalls == {"nocalls"}

ASSUME KindAssumption ==
    /\ KindStrangers = {r \in Kinds : ~HasToken(Headers(r), <<1, 2>>)}
    /\ KindStrangers = {r \in Kinds : ~HasMedia(Headers(r))}
    /\ KindSchema = {b \in KindBodies : MetaOf(b).schema_version # 1}
    /\ KindNoCalls = {b \in KindBodies : ~ParsesBatch(Body(b))}
    /\ \A b \in KindBodies : ParsesMeta(Body(b))

Pair == {"r1", "r2"}
PairCarries == [r \in Pair |-> IF r = "r1" THEN "a1" ELSE "a2"]
PairTrace == [b \in {"a1", "a2"} |-> "a"]
=============================================================================
