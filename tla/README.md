# TLA+ models of sniproxy

This directory has TLA+ models of sniproxy, an SNI/HTTP-Host proxy. It is checked
with TLC. Two source files are in the repository: `src/src/connection.c`
(the per-connection state machine and I/O engine) and `src/unnamed/part_000`
(the configuration loader, `config.c`). The buffer, the parsers, the listener
and table lookup, and libev are not in `src/`. They appear in the models only
through the contracts `spec.md` gives them.

## 1. Inventory

### Components

| Component | Code | State it keeps | Operations |
|---|---|---|---|
| Connection | connection.c | `state` (NEW … CLOSED), client and server buffer, client and server `ev_io` watcher (active, events), the two descriptors, `hostname`, `listener` | `accept_connection`, `connection_cb` (receive, transmit, `parse_client_request`, `resolve_server_address`, `initiate_server_connect`, close-when-drained, free, `reactivate_watcher`), `close_client_socket`, `close_server_socket`, `close_connection` |
| Connection registry | connection.c | `connections`, a TAILQ of live connections | `init_connections`, insert at head in `accept_connection`, move to head after each callback, removal on CLOSED, `free_connections` at shutdown |
| Debug dump | connection.c | none | `print_connections` writes the registry to a temporary file, one `print_connection` line per entry |
| Config loader | part_000 (config.c) | `struct Config` (filename, user, listeners, tables), and partial `ListenerConfig`, `TableConfig` and `TableEntryConfig` records while parsing | `init_config`, the grammar callbacks (`accept_username`, `begin/accept/end_listener`, `begin/accept/end_table`, `begin/accept/end_table_entry`), `free_config`, `reload_config`, `print_config` |
| Buffer (not in src/) | buffer.c | ring buffer: len, size | `buffer_room`, `buffer_len`, `buffer_peek`, `buffer_recv`, `buffer_send` |
| Parsers (not in src/) | tls.c, http.c | none | `parse_packet(bytes) -> >0 / -1 / -2 / <-2` |
| Listener and table (not in src/) | listener.c, table.c | fallback address, table | `listener_lookup_server_address` |
| Reactor (libev) | external | watchers | level-triggered readiness dispatch |

### Interactions

The program has one thread. libev calls `connection_cb` when a watcher's socket
is ready. The callback runs to completion, so each call is one atomic step. Both
watchers of a connection share the callback. Each half reads into its own
buffer and writes from the other half's buffer. A callback therefore changes
what the other watcher should wait for, and both watchers are re-armed at the
end of every callback. The client's first bytes are peeked, not consumed, and go
to the listener's parser. The hostname goes to the listener's table. The backend
is connected without blocking, and the server watcher first waits for
writability. Each close path derives the next state from the current one, and
`client_socket_open` and `server_socket_open` are derived from the state, not
tracked separately.

### What is hard

- **Interleavings.** The client and backend callbacks and the peers' writes,
  EOFs and resets (RST) can happen in any order, and one half may close while the
  other is still flushing.
- **Backpressure.** READ interest is dropped when a buffer is full, and WRITE
  interest when a buffer is empty. A watcher with no interest is *stopped*, and
  only a callback of some other watcher can re-arm it.
- **Half close.** After one peer's EOF, the other half must stay open until its
  outbound buffer drains, then close.
- **Failure at every syscall.** recv and send can fail, connect can fail at once
  or later (EINPROGRESS followed by a refusal), and socket() can fail.
- **No timeouts.** Nothing ever wakes a connection except its own sockets.
- **Config loader.** The error paths use or return freed or unchecked pointers.

### What makes each component correct

- **Connection.** These must hold after every callback:
  - the assertions at the end of `connection_cb`: a closed half's watcher is
    stopped, and a live connection has a started watcher with some interest;
  - every descriptor is closed exactly once, and the open predicates agree with
    the real descriptors;
  - the watcher interest matches the two buffers;
  - half-close never truncates a stream;
  - every close of a peer eventually frees the connection;
  - a complete request is eventually dispatched;
  - every byte is eventually relayed.
- **Registry.** It holds exactly the live connections, each once, with the most
  recently serviced one at the head. Shutdown closes each of them and frees them
  all.
- **Config.** `init_config` returns either NULL or a live, fully built config.
  Every string handed from a stanza object to a Listener or Table stays
  allocated, and none is freed twice.

## 2. Plan

Modules, in order of importance:

1. **`Connection.tla`** (done). One connection and its two peers. This is the
   core state machine.
2. **`ConnectionLifecycle.tla`** (done). The abstract specification: the
   transition table of spec.md section 4.1 as a state machine over `state`.
   `Connection` is checked to refine it.
3. **`Registry.tla`** (done). Several connections with `accept_connection`,
   the move to the head after each callback, removal on CLOSED, and
   `free_connections` / `close_connection` at shutdown, and the debug dump
   `print_connections`.
4. **`Config.tla`** (done). The grammar callbacks as actions over a heap of
   cells, with `init_config`'s error paths.
5. **Violation runs** (done) for the disagreements met while modelling. One of
   them is the hostname-NULL invariant of spec.md section 3.
6. Still open:
   - a composition of `Registry` with a small `Connection`;
   - port values (`atoi`, `parse_address`), which need the address module that
     is not under `src/`.

## 3. Modules and runs

### `Connection.tla`: one connection (connection.c)

Variables:

- `con` is the `struct Connection`: `state`, `cbuf` and `sbuf` (the fill levels
  of `client.buffer` and `server.buffer`), `hostname`, `cw` and `sw` (the two
  watchers as `[active, events]`), and `cfd` and `sfd` (the descriptors:
  unopened, open, closed, or "bad" if closed twice).
- `cli` and `srv` are the peers and their sockets: `wrote` is what the peer
  wrote, `read` is how much of it the proxy has read, and `got` is what the
  proxy has delivered to that peer. Each also has `eof` and `rst` flags, and
  `srv.conn` is the state of the non-blocking connect.
- `req` is the client's first message: how many bytes the parser needs, whether
  it names a host, and which one.
- `fallback` says whether the listener has a fallback address.

`Init` is the state `accept_connection` leaves: ACCEPTED, with the client
watcher started for READ.

`ConnectionCb(side)` is the whole of `connection_cb`. It is written as a
composition, in code order:

- `AfterRecv` (lines 198-211);
- `AfterSend` (213-222);
- `StateLogic`, which chains `ParseClientRequest`, `ResolveServerAddress` and
  `InitiateServerConnect` (224-230);
- `CloseDrained` (232-236);
- `Reactivate` with `ReactivateWatcher` (238-296).

The step's inputs are chosen with `\E`: the revents (a non-empty part of
interest ∩ readiness), the byte counts recv and send return, and the outcome of
socket() and connect().

The peer actions (`ClientWrite`, `ClientShutdown`, `ClientReset`,
`ServerConnectDone`, `ServerWrite`, `ServerShutdown`, `ServerReset`) are the
environment. A temporary error (EAGAIN, EINTR) changes no variable, so it is a
stuttering step.

Fairness: `WF` on each watcher's callback, because libev runs every pending
active watcher on its next loop iteration. There is also `WF` on
`ServerConnectDone`, because the kernel completes or times out every connect.
The peers owe nothing.

Runs (`MCConnection.tla` gives the tables and requests):

| Run | cfg | Expect | What it shows |
|---|---|---|---|
| connection_safety | MCConnection.cfg | pass | `TypeOK`; `LifecycleRefined` (refines `ConnectionLifecycle`); `AssertionsHold` (the asserts at connection.c:258-263); `DescriptorDiscipline` (each fd closed once, and the open predicates agree with the fds); `InterestMatchesBuffers` (spec §8.3); `HalfCloseDrains` (a clean one-sided close delivers every byte first). Covers all requests that fit the parse window, with and without a fallback. |
| connection_liveness | MCConnectionLive.cfg | pass | `PeerCloseEndsConnection`, `RequestDispatched` and `Relay`, under the fairness above. |
| long_request_abort | MCConnectionLongRequest.cfg | violation | A first message longer than the parse window: the client buffer fills, the client watcher is stopped, and `AssertionsHold` fails. This is the assert at connection.c:262 aborting the process. |
| socket_failure_stall | MCConnectionSocketFail.cfg | violation | socket() fails: the connection stays in RESOLVED and `RequestDispatched` fails. |
| spec_watcher_registered | MCConnectionSpecWatcher.cfg | violation | spec §8.1 says "watcher registered ⇔ half open", which fails under ordinary backpressure. |

Bounds:

- `BufSize = 3` and `PeekMax = 2` keep the code's order `1460 < buffer size`.
  A buffer can fill, and a request can need one or two reads.
- In the safety run each peer writes at most `MaxBytes = 4` bytes, more than a
  buffer holds, so both buffers reach full and backpressure stops and re-arms
  watchers.
- The liveness run uses `MaxBytes = 3` and three requests (routable, routed to a
  hostname backend, malformed), because checking `Relay` costs a lot of time.

Requests that do not fit the parse window, and a failing socket(), are left out
of the passing runs on purpose. Each has its own violation run, because both
break the properties.

### `ConnectionOps.tla`: the close paths (connection.c 158-176, 388-452, 483-497)

This module has no variables. It holds the states, the open predicates derived
from the state, `CloseClientSocket`, `CloseServerSocket`, `CloseConnection`
(`close_connection`: the server half first, then the client half), and
`Releasable`. `Releasable` is what `free_connection` requires: CLOSED, with no
watcher started and each descriptor closed once. `Connection` and `Registry`
both extend it, so both use the same close code.

### `ConnectionLifecycle.tla`: the promised lifecycle (spec.md section 4.1)

`state` starts ACCEPTED and moves along the spec's transition table. One
`connection_cb` may take several edges (parse, resolve and connect in one
call, or a close followed by the drained half's close). So a step is a move
to any state reachable in one or more edges (`Successors`, by the recursive
`Descend`). `Connection` instantiates it with `state <- con.state`, and
`LifecycleRefined == Lifecycle!Spec` is a PROPERTY of the safety run.

### `Registry.tla`: the TAILQ of live connections and its dump (connection.c 51-151, 238-243, 267-269, 499-544)

Variables:

- `slot` is the pool of `struct Connection` records. Each record has the
  state, the watchers and the descriptors, and stays stale after it is freed.
- `live` holds the slots allocated and not yet freed.
- `connections` is the TAILQ, head first.
- `phase` is "running", or "stopped" once `free_connections` has run.
- `dump` holds the lines of the latest `print_connections` file. A line is
  the connection's state and which halves it shows: `print_connection`
  prints a half's address and buffer occupancy, or "-".
- `clock`, `stamp` and `freedBad` are ghosts.

Actions:

- `AcceptConnection(s)` inserts at the head.
- `ConnectionCb(s)` is one callback of a live connection with a started
  watcher. Its state stays the same or takes a lifecycle step (`Settle`
  derives the descriptors and watchers, as `Connection`'s
  `DescriptorDiscipline` shows they are). A CLOSED connection is unlinked and
  freed; any other is moved to the head.
- `FreeConnections` runs `close_connection` and `free_connection` on each
  entry.
- `Dump` is `print_connections`, run from the event loop between two
  callbacks. Its lines come from `PrintConnection`, the switch of
  `print_connection`. The file may hold any prefix of them: empty when
  `fdopen` fails, cut short when `fclose` fails to flush. A failed `mkstemp`
  writes nothing and changes nothing the model holds, so it is not a step.

Runs:

| Run | cfg | Expect | What it shows |
|---|---|---|---|
| registry_safety | MCRegistry.cfg | pass | `TypeOK`; `RegistryHoldsLive` (the TAILQ holds exactly the live connections, each once); `MostRecentFirst` (ordered by last accept or callback, the comment at line 267); `FreedClean` (every `free_connection` frees a live connection that is CLOSED with its descriptors closed once and no watcher started, at shutdown included). No property reads `dump`: in this module a connection's descriptors are derived from its state by the same predicates `print_connection` follows, so what a dump line shows would hold by definition. `Dump` is kept so the model covers every operation on the registry. |

Bounds: three slots (as model values, with symmetry) and `MaxEvents = 9`
accepts, callbacks and dumps. That is enough to fill the pool, free a slot
and reuse it, dump a registry holding CONNECTED and half-closed
connections, and shut down with connections in every state. Each property's
mutant is found within it. The process exits after
`free_connections`, so the stopped state has no successor, and the cfg does
not check deadlock.

### `Config.tla`: the configuration loader (part_000)

Every string and struct the loader allocates is a heap *cell*, numbered in
order of allocation. Variables:

- `live` holds the cells allocated and not yet freed.
- `config` is the `struct Config`: its cell, `filename`, `user`, the
  `listeners` list (each with its `table_name`), and the `tables` list (each
  with its name and backends).
- `lc`, `tc` and `te` are the `ListenerConfig`, `TableConfig` and
  `TableEntryConfig` of the open stanza.
- `pc` is where `init_config` is; "crashed" means a NULL dereference.
- `badFree`, `orphans` and `steps` are ghosts.

`parse_config` (`cfg_parser.c`) is not under `src/`. It is modelled from the
grammar in spec.md as the order in which it may call the callbacks:

- `username` at the top level;
- a listener stanza: `begin_listener`, then arguments, `table` and
  `protocol`, then `end_listener`;
- a table stanza, with entries, likewise;
- success at the end of the file, or a syntax error anywhere
  (`SyntaxError`).

A callback returning -1, or a begin callback returning NULL, also fails the
parse. Each callback is one action, translated from config.c. So is
`FinishInitConfig`: `free_config` on failure, then `fclose`, then the return.

`MallocCanFail` and `FopenCanFail` let malloc and fopen fail. `MaxCallbacks =
10` allows a listener stanza with all its options, or a table with two entries
that each have three arguments, or a username followed by either. That is
enough for the reorder, the hand-over and the duplicate cases.

| Run | cfg | Expect | What it shows |
|---|---|---|---|
| config_safety | MCConfig.cfg | pass | `HeapSound`: no bad free, and a live config reaches only live cells, through the string hand-overs of `end_listener` and `end_table`. |
| config_leak | MCConfigLeak.cfg | violation | `LeakFree`: a repeated `username` leaks the first string, and `listener 80 8080` leaks the first port. |
| config_use_after_free | MCConfigUseAfterFree.cfg | violation | `ReturnsLiveConfig`: after a syntax error, `init_config` returns the config it just freed (line 127). |
| config_missing_file | MCConfigMissingFile.cfg | violation | `NoNullDeref`: the `fopen` result is not checked (line 118). |
| config_out_of_memory | MCConfigOutOfMemory.cfg | violation | `NoNullDeref`: unchecked malloc in `end_listener` (296), and `STAILQ_INIT` before the check in `end_table` (357). |

`hostname_null_fallback` (MCConnectionHostname.cfg, violation) checks
`HostnameSetOnceParsed` of `Connection`. With a fallback address, a request
that names no host reaches PARSED with `con->hostname == NULL`. spec.md
section 3 says it is non-NULL from PARSED on, though section 9 notes the code
works differently.

### Findings

These are listed in PROJECT.json.

1. **Code bug (connection.c:305, 262).** Take a first message the parser cannot
   decide within the 1460 bytes it peeks, such as a TLS record announcing a
   ClientHello longer than that. It keeps the connection in ACCEPTED. Once the
   client buffer is full, `reactivate_watcher` stops the only watcher, and the
   assertion aborts the proxy. A single client can cause this.
2. **Spec/code divergence (connection.c:358).** A socket() failure leaves
   RESOLVED with no retry until the client sends more. If the buffer is full, the
   watcher is stopped and even the client's close goes unnoticed.
3. **Spec gap (spec §8 invariants 1-2 versus §4.3).** A watcher of an open half
   is stopped whenever it wants nothing.
4. **Spec/code divergence (connection.c:329).** With a fallback address,
   hostname is NULL in PARSED and in every later state.
5. **Code bugs in config.c.** Each has a violation run:
   - a repeated username, or two numeric listener arguments, leak a string (lines 234 and 260);
   - a failed parse returns a freed config (line 127);
   - `fopen` is unchecked (line 118);
   - malloc is unchecked or checked too late (lines 296 and 357).

## 4. Not modelled, and why

- The text of a dump (addresses, buffer fill levels, layout) is abstracted
  to which halves each line shows. The descriptor that `print_connections`
  leaks when `fdopen` fails (connection.c:137) is listed as a hazard. No run
  checks it, because no property of the registry reads that descriptor.
- The logger, the address helpers and libev are external. libev appears only
  through readiness (`Ready`) and fairness.
- Buffer contents are not modelled, only fill levels. Peeked bytes stay in the
  buffer, and only `len` and `room` affect control flow. Byte order is
  preserved by the ring buffer, which is not in `src/`.
- `print_config` only prints. `reload_config` changes
  nothing.
- Port and address values (`atoi`, `parse_address`, `add_backend`'s copies)
  are not modelled. They are strings to the loader, and their parsing is in
  modules that are not under `src/`.
- Timeouts: the code has none (no timer or retry anywhere), and spec.md lists
  per-connection timeouts as a non-goal. The liveness properties are stated
  relative to the peers closing.
