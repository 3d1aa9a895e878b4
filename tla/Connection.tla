----------------------------- MODULE Connection -----------------------------
(***************************************************************************)
(* One proxied flow of sniproxy (src/src/connection.c): the struct         *)
(* Connection with its two buffers and two libev io watchers, driven by    *)
(* connection_cb, together with the two TCP peers it relays between (the  *)
(* client and the backend server), which are the environment.             *)
(*                                                                         *)
(* The reactor is single threaded, so one invocation of connection_cb is   *)
(* one atomic step: receive, transmit, the ACCEPTED -> PARSED -> RESOLVED  *)
(* -> CONNECTED chain, closing the other half once its buffer is flushed,  *)
(* freeing a CLOSED connection, and re-arming both watchers.  The step is  *)
(* written as a composition of operators on a "world" record               *)
(* [con, cli, srv], in the order the C code runs them.                     *)
(*                                                                         *)
(* Bytes are abstracted to counts: a peer writes bytes into its socket     *)
(* (wrote), the proxy reads them (read) into a buffer and forwards them to *)
(* the other peer (got).  A temporary socket error (EAGAIN, EINTR) leaves  *)
(* every variable unchanged, so it is a stuttering step and not modelled.  *)
(***************************************************************************)
EXTENDS Integers, FiniteSets, ConnectionOps

CONSTANTS
  BufSize,        \* capacity of each struct Buffer (new_buffer)
  PeekMax,        \* the parse window of parse_client_request (1460 bytes)
  MaxBytes,       \* bound: bytes each peer writes into its socket at most
  Table,          \* the listener's table: hostname -> "sockaddr" | "hostname"
  Fallbacks,      \* whether the listener has a fallback address: a subset of BOOLEAN
  Requests,       \* the first message a client may send: [len, kind, name]
  SocketCanFail   \* TRUE iff socket() in initiate_server_connect may fail

ASSUME BufSize \in Nat \ {0}
ASSUME PeekMax \in Nat \ {0}
ASSUME MaxBytes \in Nat
ASSUME Fallbacks \subseteq BOOLEAN /\ SocketCanFail \in BOOLEAN
ASSUME \A r \in Requests : r.len \in Nat \ {0} /\ r.kind \in {"name", "noname", "malformed"}

VARIABLES
  con,   \* the struct Connection: state, buffers, watchers, descriptors
  cli,   \* the client peer and its socket
  srv,   \* the backend server peer and its socket
  req,      \* the request this client sends (fixed for the behaviour)
  fallback  \* listener->fallback_address != NULL (fixed for the behaviour)

vars == <<con, cli, srv, req, fallback>>

Sides == {"client", "server"}
NoHost == "NULL"          \* con->hostname == NULL
NotCalled == -9           \* buffer_recv / buffer_send was not called

Min(a, b) == IF a < b THEN a ELSE b

(* buffer_room: the free space of a buffer holding len bytes. *)
BufferRoom(len) == BufSize - len

Peer(side) == IF side = "client" THEN "cli" ELSE "srv"
InBuf(side) == IF side = "client" THEN "cbuf" ELSE "sbuf"
OutBuf(side) == IF side = "client" THEN "sbuf" ELSE "cbuf"
Watcher(side) == IF side = "client" THEN "cw" ELSE "sw"

-----------------------------------------------------------------------------
(* The sockets as the kernel presents them to the proxy. *)

Pending(w, side) == w[Peer(side)].wrote - w[Peer(side)].read

(* A reset peer, or a refused asynchronous connect, makes recv/send fail. *)
SockError(w, side) ==
  w[Peer(side)].rst \/ (side = "server" /\ w.srv.conn = "refused")

(* Level-triggered readiness of the socket behind a watcher. *)
Ready(w, side) ==
  IF side = "server" /\ w.srv.conn = "connecting" THEN {}
  ELSE {"WRITE"} \cup
       (IF SockError(w, side) \/ Pending(w, side) > 0 \/ w[Peer(side)].eof
        THEN {"READ"} ELSE {})

-----------------------------------------------------------------------------
(* Operations of connection.c on the connection record c. *)

CloseSocket(c, side) ==
  IF side = "client" THEN CloseClientSocket(c) ELSE CloseServerSocket(c)

(* Mutant: the parse window one byte short. *)
BufferPeek_ShortWindow(len) == Min(len, PeekMax - 1)

(* buffer_peek of the parse window: min(len, sizeof buffer) bytes. *)
BufferPeek(len) == Min(len, PeekMax)

(* listener->parse_packet: a pure function of the peeked bytes.  It needs  *)
(* req.len bytes to decide; before that it answers -1 (incomplete).        *)
ParsePacket(n) ==
  IF n < req.len THEN -1
  ELSE CASE req.kind = "name"      -> 1
         [] req.kind = "noname"    -> -2
         [] req.kind = "malformed" -> -3

(* parse_client_request *)
ParseClientRequest(c) ==
  LET result == ParsePacket(BufferPeek(c.cbuf)) IN
  IF result = -1 THEN c
  ELSE IF result <= -2 /\ ~fallback THEN CloseClientSocket(c)
  ELSE [c EXCEPT !.hostname = IF result > 0 THEN req.name ELSE NoHost,
                 !.state = "PARSED"]

(* listener_lookup_server_address: first match, else the fallback, else a *)
(* value that is not a socket address.                                    *)
LookupServerAddress(h) ==
  IF h \in DOMAIN Table THEN Table[h]
  ELSE IF fallback THEN "sockaddr" ELSE "unresolved"

(* resolve_server_address *)
ResolveServerAddress(c) ==
  IF LookupServerAddress(c.hostname) # "sockaddr" THEN CloseClientSocket(c)
  ELSE [c EXCEPT !.state = "RESOLVED"]

ConnectOutcomes ==
  {"refused", "inprogress"} \cup (IF SocketCanFail THEN {"socket_fail"} ELSE {})

(* Mutant: a refused connect() does not close(sockfd). *)
InitiateServerConnect_LeakFd(w, o) ==
  CASE o = "socket_fail" -> w
    [] o = "refused"     -> [w EXCEPT !.con.sfd = "open",
                                      !.con.state = "SERVER_CLOSED"]
    [] o = "inprogress"  -> [w EXCEPT !.con.sfd = "open",
                                      !.con.sw = [active |-> TRUE, events |-> {"WRITE"}],
                                      !.con.state = "CONNECTED",
                                      !.srv.conn = "connecting"]

(* initiate_server_connect, with the outcome of socket() and connect(). *)
InitiateServerConnect(w, o) ==
  CASE o = "socket_fail" -> w
    [] o = "refused"     -> [w EXCEPT !.con.sfd = FdClose("open"),
                                      !.con.state = "SERVER_CLOSED"]
    [] o = "inprogress"  -> [w EXCEPT !.con.sfd = "open",
                                      !.con.sw = [active |-> TRUE, events |-> {"WRITE"}],
                                      !.con.state = "CONNECTED",
                                      !.srv.conn = "connecting"]

(* Mutant: recv sized to the bytes pending, not to buffer_room. *)
RecvResults_IgnoreRoom(w, side, rev) ==
  IF "READ" \in rev /\ BufferRoom(w.con[InBuf(side)]) > 0
  THEN IF SockError(w, side) THEN {-1}
       ELSE IF Pending(w, side) > 0 THEN 1 .. Pending(w, side) ELSE {0}
  ELSE {NotCalled}

(* The results buffer_recv may return: bytes read, 0 on EOF, -1 on error. *)
RecvResults(w, side, rev) ==
  IF "READ" \in rev /\ BufferRoom(w.con[InBuf(side)]) > 0
  THEN IF SockError(w, side) THEN {-1}
       ELSE IF Pending(w, side) > 0
            THEN 1 .. Min(Pending(w, side), BufferRoom(w.con[InBuf(side)]))
            ELSE {0}
  ELSE {NotCalled}

(* "Receive first in case the socket was closed" *)
AfterRecv(w, side, r) ==
  IF r = NotCalled THEN w
  ELSE IF r <= 0 THEN [w EXCEPT !.con = CloseSocket(@, side)]
  ELSE [w EXCEPT !.con[InBuf(side)] = @ + r, ![Peer(side)].read = @ + r]

(* The results buffer_send may return: bytes written or -1 on error. *)
SendResults(w, side, rev) ==
  IF "WRITE" \in rev /\ w.con[OutBuf(side)] > 0
  THEN IF SockError(w, side) THEN {-1} ELSE 1 .. w.con[OutBuf(side)]
  ELSE {NotCalled}

(* "Transmit" *)
AfterSend(w, side, s) ==
  IF s = NotCalled THEN w
  ELSE IF s < 0 THEN [w EXCEPT !.con = CloseSocket(@, side)]
  ELSE [w EXCEPT !.con[OutBuf(side)] = @ - s, ![Peer(side)].got = @ + s]

(* Mutant: the PARSED test runs before the ACCEPTED one. *)
StateLogic_ResolveFirst(w, side, o) ==
  IF side # "client" THEN w
  ELSE LET c1 == IF w.con.state = "PARSED" THEN ResolveServerAddress(w.con) ELSE w.con
           c2 == IF c1.state = "ACCEPTED" THEN ParseClientRequest(c1) ELSE c1
           w2 == [w EXCEPT !.con = c2]
       IN IF c2.state = "RESOLVED" THEN InitiateServerConnect(w2, o) ELSE w2

(* "Handle any state specific logic": one pass may go from ACCEPTED to   *)
(* CONNECTED.                                                             *)
StateLogic(w, side, o) ==
  IF side # "client" THEN w
  ELSE LET c1 == IF w.con.state = "ACCEPTED" THEN ParseClientRequest(w.con) ELSE w.con
           c2 == IF c1.state = "PARSED" THEN ResolveServerAddress(c1) ELSE c1
           w2 == [w EXCEPT !.con = c2]
       IN IF c2.state = "RESOLVED" THEN InitiateServerConnect(w2, o) ELSE w2

(* Mutant: the server is closed as soon as the client is, unflushed. *)
CloseDrained_NoFlushWait(c) ==
  LET c1 == IF c.state = "SERVER_CLOSED" /\ c.sbuf = 0 THEN CloseClientSocket(c) ELSE c
  IN IF c1.state = "CLIENT_CLOSED" THEN CloseServerSocket(c1) ELSE c1

(* Mutant: CLIENT_CLOSED waits for the wrong buffer to empty. *)
CloseDrained_WrongBuffer(c) ==
  LET c1 == IF c.state = "SERVER_CLOSED" /\ c.sbuf = 0 THEN CloseClientSocket(c) ELSE c
  IN IF c1.state = "CLIENT_CLOSED" /\ c1.sbuf = 0 THEN CloseServerSocket(c1) ELSE c1

(* "Close other socket if we have flushed corresponding buffer" *)
CloseDrained(c) ==
  LET c1 == IF c.state = "SERVER_CLOSED" /\ c.sbuf = 0 THEN CloseClientSocket(c) ELSE c
  IN IF c1.state = "CLIENT_CLOSED" /\ c1.cbuf = 0 THEN CloseServerSocket(c1) ELSE c1

(* Mutant: WRITE interest only once the outbound buffer is full. *)
DesiredEvents_WriteWhenFull(inLen, outLen) ==
  (IF BufferRoom(inLen) > 0 THEN {"READ"} ELSE {}) \cup
  (IF BufferRoom(outLen) = 0 THEN {"WRITE"} ELSE {})

(* The interest reactivate_watcher computes from the two buffers. *)
DesiredEvents(inLen, outLen) ==
  (IF BufferRoom(inLen) > 0 THEN {"READ"} ELSE {}) \cup
  (IF outLen > 0 THEN {"WRITE"} ELSE {})

(* Mutant: an active watcher is never re-set to new events. *)
ReactivateWatcher_NoRestart(wt, inLen, outLen) ==
  LET ev == DesiredEvents(inLen, outLen) IN
  IF wt.active
  THEN IF ev = {} THEN [wt EXCEPT !.active = FALSE] ELSE wt
  ELSE IF ev # {} THEN [active |-> TRUE, events |-> ev] ELSE wt

(* reactivate_watcher on the watcher record wt = [active, events]. *)
ReactivateWatcher(wt, inLen, outLen) ==
  LET ev == DesiredEvents(inLen, outLen) IN
  IF wt.active
  THEN IF ev = {} THEN [wt EXCEPT !.active = FALSE]
       ELSE IF ev # wt.events THEN [active |-> TRUE, events |-> ev]
       ELSE wt
  ELSE IF ev # {} THEN [active |-> TRUE, events |-> ev] ELSE wt

(* "Reactivate watchers" of the halves still open (nothing for CLOSED).  *)
Reactivate(c) ==
  [c EXCEPT !.cw = IF ClientSocketOpen(c.state)
                   THEN ReactivateWatcher(@, c.cbuf, c.sbuf) ELSE @,
            !.sw = IF ServerSocketOpen(c.state)
                   THEN ReactivateWatcher(@, c.sbuf, c.cbuf) ELSE @]

-----------------------------------------------------------------------------
(* Initial state: the connection as accept_connection leaves it.          *)

Init ==
  /\ req \in Requests
  /\ fallback \in Fallbacks
  /\ con = [state |-> "ACCEPTED", cbuf |-> 0, sbuf |-> 0, hostname |-> NoHost,
            cw |-> [active |-> TRUE, events |-> {"READ"}],
            sw |-> [active |-> FALSE, events |-> {}],
            cfd |-> "open", sfd |-> "unopened"]
  /\ cli = [wrote |-> 0, read |-> 0, got |-> 0, eof |-> FALSE, rst |-> FALSE]
  /\ srv = [conn |-> "none", wrote |-> 0, read |-> 0, got |-> 0,
            eof |-> FALSE, rst |-> FALSE]

(* connection_cb: the watcher of `side` fires with revents `rev`, a      *)
(* non-empty part of what it waits for that its socket is ready for.     *)
ConnectionCb(side) ==
  LET w0 == [con |-> con, cli |-> cli, srv |-> srv] IN
  /\ con[Watcher(side)].active
  /\ \E rev \in SUBSET (con[Watcher(side)].events \cap Ready(w0, side)) \ {{}} :
     \E r \in RecvResults(w0, side, rev) :
       LET w1 == AfterRecv(w0, side, r)
           rev1 == IF r \in {-1, 0} THEN {} ELSE rev   \* revents = 0
       IN \E s \in SendResults(w1, side, rev1), o \in ConnectOutcomes :
            LET w2 == AfterSend(w1, side, s)
                w3 == StateLogic(w2, side, o)
                w4 == [w3 EXCEPT !.con = Reactivate(CloseDrained(@))]
            IN /\ con' = w4.con
               /\ cli' = w4.cli
               /\ srv' = w4.srv
  /\ UNCHANGED <<req, fallback>>

-----------------------------------------------------------------------------
(* The peers.  They act only while the proxy holds their socket open.    *)

ClientWrite ==
  /\ ClientSocketOpen(con.state) /\ ~cli.eof /\ ~cli.rst
  /\ cli.wrote < MaxBytes
  /\ cli' = [cli EXCEPT !.wrote = @ + 1]
  /\ UNCHANGED <<con, srv, req, fallback>>

ClientShutdown ==
  /\ ClientSocketOpen(con.state) /\ ~cli.eof /\ ~cli.rst
  /\ cli' = [cli EXCEPT !.eof = TRUE]
  /\ UNCHANGED <<con, srv, req, fallback>>

ClientReset ==
  /\ ClientSocketOpen(con.state) /\ ~cli.rst
  /\ cli' = [cli EXCEPT !.rst = TRUE]
  /\ UNCHANGED <<con, srv, req, fallback>>

(* The kernel completes or fails the non-blocking connect. *)
ServerConnectDone ==
  /\ ServerSocketOpen(con.state) /\ srv.conn = "connecting"
  /\ \E r \in {"up", "refused"} : srv' = [srv EXCEPT !.conn = r]
  /\ UNCHANGED <<con, cli, req, fallback>>

ServerWrite ==
  /\ ServerSocketOpen(con.state) /\ srv.conn = "up" /\ ~srv.eof /\ ~srv.rst
  /\ srv.wrote < MaxBytes
  /\ srv' = [srv EXCEPT !.wrote = @ + 1]
  /\ UNCHANGED <<con, cli, req, fallback>>

ServerShutdown ==
  /\ ServerSocketOpen(con.state) /\ srv.conn = "up" /\ ~srv.eof /\ ~srv.rst
  /\ srv' = [srv EXCEPT !.eof = TRUE]
  /\ UNCHANGED <<con, cli, req, fallback>>

ServerReset ==
  /\ ServerSocketOpen(con.state) /\ srv.conn = "up" /\ ~srv.rst
  /\ srv' = [srv EXCEPT !.rst = TRUE]
  /\ UNCHANGED <<con, cli, req, fallback>>

Proxy == \E side \in Sides : ConnectionCb(side)

Environment ==
  \/ ClientWrite \/ ClientShutdown \/ ClientReset
  \/ ServerConnectDone \/ ServerWrite \/ ServerShutdown \/ ServerReset

Next == Proxy \/ Environment

(* libev invokes the callback of an active watcher whose socket is ready *)
(* on its next loop iteration; the kernel finishes every connect (or     *)
(* times it out).  The peers themselves owe nothing: they may go idle.   *)
Fairness ==
  /\ \A side \in Sides : WF_vars(ConnectionCb(side))
  /\ WF_vars(ServerConnectDone)

Spec == Init /\ [][Next]_vars /\ Fairness

-----------------------------------------------------------------------------
(* Properties *)

TypeOK ==
  /\ con.state \in States
  /\ con.cbuf \in 0 .. BufSize /\ con.sbuf \in 0 .. BufSize
  /\ con.cw \in [active : BOOLEAN, events : SUBSET Events]
  /\ con.sw \in [active : BOOLEAN, events : SUBSET Events]
  /\ {con.cfd, con.sfd} \subseteq {"unopened", "open", "closed", "bad"}
  /\ cli.wrote \in 0 .. MaxBytes /\ srv.wrote \in 0 .. MaxBytes
  /\ cli.read \in 0 .. cli.wrote /\ srv.read \in 0 .. srv.wrote
  /\ srv.conn \in {"none", "connecting", "up", "refused"}
  /\ req \in Requests

(* The assertions connection_cb makes after every callback: the watcher  *)
(* of a closed half is stopped, and a connection that is not CLOSED      *)
(* still has a started watcher waiting for some event (otherwise nothing *)
(* would ever call back into it again).                                   *)
AssertionsHold ==
  /\ ClientSocketOpen(con.state) \/ ~con.cw.active
  /\ ServerSocketOpen(con.state) \/ ~con.sw.active
  /\ con.state # "CLOSED" =>
        \/ con.cw.active /\ con.cw.events # {}
        \/ con.sw.active /\ con.sw.events # {}

(* Every descriptor is released by exactly one close path: no descriptor *)
(* is closed twice or leaked, and the open predicates that connection.c  *)
(* derives from the state agree with the descriptors really open.        *)
DescriptorDiscipline ==
  /\ "bad" \notin {con.cfd, con.sfd}
  /\ (con.cfd = "open") <=> ClientSocketOpen(con.state)
  /\ (con.sfd = "open") <=> ServerSocketOpen(con.state)

(* Watcher interest of an open half is exactly READ iff its inbound     *)
(* buffer has room, WRITE iff its outbound buffer has bytes (a stopped   *)
(* watcher counts as no interest), after callbacks of either watcher.    *)
InterestMatchesBuffers ==
  LET Interest(wt) == IF wt.active THEN wt.events ELSE {} IN
  /\ ClientSocketOpen(con.state) =>
        Interest(con.cw) = DesiredEvents(con.cbuf, con.sbuf)
  /\ ServerSocketOpen(con.state) =>
        Interest(con.sw) = DesiredEvents(con.sbuf, con.cbuf)

(* Half-close policy: when one peer closes cleanly while the other stays *)
(* healthy, the connection is only torn down after every byte the        *)
(* closing peer sent has been delivered to the other one.                *)
HalfCloseDrains ==
  /\ (con.state = "CLOSED" /\ cli.eof /\ ~cli.rst
        /\ srv.conn = "up" /\ ~srv.eof /\ ~srv.rst) => srv.got = cli.wrote
  /\ (con.state = "CLOSED" /\ srv.eof /\ ~srv.rst
        /\ ~cli.eof /\ ~cli.rst) => cli.got = srv.wrote

(* Once either peer closes, resets or refuses, the connection is        *)
(* eventually CLOSED and freed: no connection is left holding its        *)
(* descriptors after its peers are gone.                                 *)
PeerCloseEndsConnection ==
  (cli.eof \/ cli.rst \/ srv.eof \/ srv.rst \/ srv.conn = "refused")
    ~> con.state = "CLOSED"

(* Once the client has sent its whole first message, the connection     *)
(* eventually leaves the parse / resolve / connect stages, without the   *)
(* client having to send anything more.                                  *)
RequestDispatched ==
  (cli.wrote >= req.len)
    ~> con.state \notin {"ACCEPTED", "PARSED", "RESOLVED"}

(* Every byte a peer writes is eventually delivered to the other peer,  *)
(* unless a peer on the way closes or resets first.                     *)
Relay ==
  \A n \in 1 .. MaxBytes :
    /\ (srv.conn = "up" /\ cli.wrote >= n)
          ~> (srv.got >= n \/ srv.eof \/ srv.rst \/ cli.rst)
    /\ (srv.wrote >= n)
          ~> (cli.got >= n \/ cli.eof \/ cli.rst \/ srv.rst)

(* Refinement: the state field of the connection, as connection_cb and   *)
(* the close paths drive it, moves only along spec.md's transition table *)
(* (section 4.1) and never leaves CLOSED.                                *)
Lifecycle == INSTANCE ConnectionLifecycle WITH state <- con.state

LifecycleRefined == Lifecycle!Spec

(* spec.md section 3: con->hostname is set exactly once the request is   *)
(* parsed and until the connection is destroyed.                         *)
HostnameSetOnceParsed ==
  con.state \in {"PARSED", "RESOLVED", "CONNECTED", "SERVER_CLOSED", "CLIENT_CLOSED"}
    => con.hostname # NoHost

(* spec.md section 8, invariant 1 and 2: the watcher of a half is        *)
(* registered exactly while that half's socket is open.                  *)
SpecWatcherRegistered ==
  /\ ClientSocketOpen(con.state) <=> con.cw.active
  /\ ServerSocketOpen(con.state) <=> con.sw.active

=============================================================================
