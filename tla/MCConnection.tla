---------------------------- MODULE MCConnection ----------------------------
(* Model-checking instance of Connection: a buffer of 3 bytes and a parse *)
(* window of 2 keep PeekMax < BufSize as in the code (1460 < buffer size). *)
EXTENDS Connection

MCTable == [h \in {"known", "dns"} |-> IF h = "known" THEN "sockaddr" ELSE "hostname"]

(* Requests that fit in the parse window. *)
MCRequests ==
  [len : 1 .. PeekMax, kind : {"name"}, name : {"known", "dns", "unknown"}]
    \cup [len : {PeekMax}, kind : {"noname", "malformed"}, name : {NoHost}]

(* For the liveness run: one request for each way out of ACCEPTED that  *)
(* reaches a backend, one the table rejects.                             *)
MCLiveRequests ==
  { [len |-> PeekMax, kind |-> "name", name |-> "known"],
    [len |-> 1, kind |-> "name", name |-> "dns"],
    [len |-> PeekMax, kind |-> "malformed", name |-> NoHost] }

(* A first message the parser cannot decide within the parse window,    *)
(* e.g. a TLS record header announcing a ClientHello over 1460 bytes.    *)
MCLongRequests == { [len |-> PeekMax + 1, kind |-> "name", name |-> "known"] }

=============================================================================
