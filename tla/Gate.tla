---------------------------------- MODULE Gate ----------------------------------
(***************************************************************************)
(* What a request to /ingest/v1 must bring before its handler is called,   *)
(* and what the two headers are compared with (crates/                     *)
(* php-tree-viz-collector/src/http/{router,auth,content_type}.rs).  A      *)
(* request is the record of the headers it has: authorization is a scheme  *)
(* with a token, a sequence of bytes; content_type a sequence of the parts *)
(* between its semicolons, each with its text in lower case.               *)
(***************************************************************************)
EXTENDS Naturals, Sequences

Media == "application/vnd.php-analyze.v1+msgpack"

(* ct_eq: equal lengths first, then every byte is looked at. *)
CtEq(a, b) == Len(a) = Len(b) /\ {i \in 1..Len(a) : a[i] # b[i]} = {}

(* extract_bearer_token: the scheme is compared as it is written. *)
HasToken(headers, expected) ==
    /\ "authorization" \in DOMAIN headers
    /\ headers.authorization.scheme = "Bearer "
    /\ CtEq(headers.authorization.token, expected)

(* has_expected_content_type: case, padding and parameters do not matter. *)
HasMedia(headers) ==
    /\ "content_type" \in DOMAIN headers
    /\ headers.content_type # <<>>
    /\ headers.content_type[1] = Media
=============================================================================
