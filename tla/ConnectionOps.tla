---------------------------- MODULE ConnectionOps ----------------------------
(***************************************************************************)
(* The parts of src/src/connection.c that act on one struct Connection and *)
(* need no environment: its states, the open predicates derived from the  *)
(* state, and the close paths.  A connection record c has at least the    *)
(* fields state, cw and sw (the client and server watchers, [active,      *)
(* events]) and cfd and sfd (the descriptors: "unopened", "open",         *)
(* "closed", or "bad" once closed twice).                                 *)
(***************************************************************************)

States == {"NEW", "ACCEPTED", "PARSED", "RESOLVED", "CONNECTED",
           "SERVER_CLOSED", "CLIENT_CLOSED", "CLOSED"}
Events == {"READ", "WRITE"}
Descriptors == {"unopened", "open", "closed", "bad"}

(* The open predicates are derived from the state, as in the code. *)
ClientSocketOpen(s) ==
  s \in {"ACCEPTED", "PARSED", "RESOLVED", "CONNECTED", "SERVER_CLOSED"}
ServerSocketOpen(s) == s \in {"CONNECTED", "CLIENT_CLOSED"}

(* close(2) on a descriptor; closing one twice (or one never opened) is "bad". *)
FdClose(fd) == IF fd = "open" THEN "closed" ELSE "bad"

(* close_client_socket: stop the watcher, close the fd, next state. *)
CloseClientSocket(c) ==
  [c EXCEPT !.cw.active = FALSE,
            !.cfd = FdClose(@),
            !.state = IF @ \in {"SERVER_CLOSED", "ACCEPTED", "PARSED", "RESOLVED"}
                      THEN "CLOSED" ELSE "CLIENT_CLOSED"]

(* Mutant: a server close after the client's does not reach CLOSED. *)
CloseServerSocket_NoFinalClose(c) ==
  [c EXCEPT !.sw.active = FALSE, !.sfd = FdClose(@), !.state = "SERVER_CLOSED"]

(* close_server_socket *)
CloseServerSocket(c) ==
  [c EXCEPT !.sw.active = FALSE,
            !.sfd = FdClose(@),
            !.state = IF @ = "CLIENT_CLOSED" THEN "CLOSED" ELSE "SERVER_CLOSED"]

(* Mutant: the server half of a CLIENT_CLOSED connection is not closed. *)
CloseConnection_MissHalfClosed(c) ==
  LET c1 == IF c.state = "CONNECTED" THEN CloseServerSocket(c) ELSE c
  IN IF c1.state \in {"ACCEPTED", "PARSED", "RESOLVED", "SERVER_CLOSED"}
     THEN CloseClientSocket(c1) ELSE c1

(* close_connection: the forced close used at shutdown, server half first. *)
CloseConnection(c) ==
  LET c1 == IF c.state \in {"CONNECTED", "CLIENT_CLOSED"} THEN CloseServerSocket(c) ELSE c
  IN IF c1.state \in {"ACCEPTED", "PARSED", "RESOLVED", "SERVER_CLOSED"}
     THEN CloseClientSocket(c1) ELSE c1

(* What free_connection requires of a connection it frees: CLOSED (the    *)
(* final assert of close_connection), no watcher active, and each        *)
(* descriptor closed exactly once or never opened.                       *)
Releasable(c) ==
  /\ c.state = "CLOSED"
  /\ ~c.cw.active /\ ~c.sw.active
  /\ c.cfd = "closed"
  /\ c.sfd \in {"unopened", "closed"}

=============================================================================
