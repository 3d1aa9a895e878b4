------------------------------- MODULE Registry -------------------------------
(***************************************************************************)
(* The connection registry of src/src/connection.c: the TAILQ              *)
(* `connections` of every live struct Connection, kept in order of last   *)
(* service, and its teardown by free_connections / close_connection.     *)
(*                                                                         *)
(* Connections are slots of a fixed pool.  What one connection_cb does to *)
(* its own connection is abstracted to a step of the lifecycle that       *)
(* ConnectionLifecycle specifies and Connection is checked to refine; its *)
(* descriptors and watchers are derived from the state, as Connection's  *)
(* DescriptorDiscipline and AssertionsHold establish.                     *)
(***************************************************************************)
EXTENDS Naturals, Sequences, FiniteSets, ConnectionOps
LOCAL INSTANCE SequencesExt

CONSTANTS
  Slots,      \* the struct Connection objects the allocator may hand out
  MaxEvents   \* bound on accepts, callbacks and dumps in one behaviour

VARIABLES
  slot,         \* slot[s]: the connection record in s (stale once freed)
  live,         \* the slots allocated and not yet freed
  connections,  \* the TAILQ, head first
  phase,        \* "running", or "stopped" once free_connections ran
  clock,        \* ghost: number of accepts, callbacks and dumps so far
  stamp,        \* ghost: stamp[s] = clock value of s's last accept or callback
  freedBad,     \* ghost: some free_connection freed a slot not live, or a
                \* connection not fully closed
  dump          \* the lines of the latest print_connections file, <<>> if none

vars == <<slot, live, connections, phase, clock, stamp, freedBad, dump>>

Lifecycle(s) == INSTANCE ConnectionLifecycle WITH state <- slot[s].state

(* new_connection: calloc'd, state NEW, no descriptor, no watcher. *)
NewRecord ==
  [state |-> "NEW", cw |-> [active |-> FALSE], sw |-> [active |-> FALSE],
   cfd |-> "unopened", sfd |-> "unopened"]

(* accept_connection: the accepted socket, the client watcher started. *)
AcceptedRecord ==
  [NewRecord EXCEPT !.state = "ACCEPTED", !.cfd = "open", !.cw.active = TRUE]

(* The record a connection_cb leaves with state t: each half's descriptor *)
(* and watcher live exactly while the state says that half is open.       *)
Settle(c, t) ==
  [c EXCEPT !.state = t,
            !.cfd = IF ClientSocketOpen(t) THEN "open" ELSE "closed",
            !.sfd = IF ServerSocketOpen(t) THEN "open"
                    ELSE IF @ = "unopened" THEN "unopened" ELSE "closed",
            !.cw.active = ClientSocketOpen(t),
            !.sw.active = ServerSocketOpen(t)]

(* Mutant: insertion at the tail instead of the head. *)
InsertHead_AtTail(q, s) == Append(q, s)

(* TAILQ_INSERT_HEAD *)
InsertHead(q, s) == <<s>> \o q

(* Mutant: the entry is re-inserted without being unlinked first. *)
MoveToHead_NoRemove(q, s) == InsertHead(q, s)

(* TAILQ_REMOVE then TAILQ_INSERT_HEAD, at the end of connection_cb. *)
MoveToHead(q, s) == InsertHead(Remove(q, s), s)

(* Mutant: the closed connection is freed but left linked. *)
Unlink_Skipped(q, s) == q

(* TAILQ_REMOVE of a CLOSED connection before it is freed. *)
Unlink(q, s) == Remove(q, s)

(* free_connection of the record c in slot s is bad if s is not live     *)
(* (double free) or c is not CLOSED with its descriptors and watchers    *)
(* released.                                                             *)
BadFree(s, c) == s \notin live \/ ~Releasable(c)

(* print_connection: the line of a connection shows the client's address *)
(* and buffer occupancy in the states of ClientShown, the server's in     *)
(* those of ServerShown, and "-" for the other half.                     *)
ClientShown == {"ACCEPTED", "PARSED", "RESOLVED", "CONNECTED", "SERVER_CLOSED"}

ServerShown == {"CONNECTED", "CLIENT_CLOSED"}

PrintConnection(c) ==
  [state |-> c.state, client |-> c.state \in ClientShown,
   server |-> c.state \in ServerShown]

Tick(s) == clock' = clock + 1 /\ stamp' = [stamp EXCEPT ![s] = clock + 1]

-----------------------------------------------------------------------------

Init ==
  /\ slot = [s \in Slots |-> NewRecord]
  /\ live = {}
  /\ connections = <<>>
  /\ phase = "running"
  /\ clock = 0
  /\ stamp = [s \in Slots |-> 0]
  /\ freedBad = FALSE
  /\ dump = <<>>

(* accept_connection on a free slot.  Its failure paths (new_connection   *)
(* or accept failing) free the fresh record before it is linked, so they *)
(* change nothing here.                                                  *)
AcceptConnection(s) ==
  /\ phase = "running" /\ clock < MaxEvents
  /\ s \notin live
  /\ slot' = [slot EXCEPT ![s] = AcceptedRecord]
  /\ live' = live \cup {s}
  /\ connections' = InsertHead(connections, s)
  /\ Tick(s)
  /\ UNCHANGED <<phase, freedBad, dump>>

(* connection_cb of the live connection in s, called for one of its      *)
(* started watchers: the state stays or takes a lifecycle step; a CLOSED *)
(* connection is unlinked and freed, any other moved to the head.        *)
ConnectionCb(s) ==
  /\ phase = "running" /\ clock < MaxEvents
  /\ s \in live
  /\ slot[s].cw.active \/ slot[s].sw.active
  /\ \E t \in {slot[s].state} \cup Lifecycle(s)!Successors(slot[s].state) :
       LET c == Settle(slot[s], t) IN
       /\ slot' = [slot EXCEPT ![s] = c]
       /\ IF t = "CLOSED"
          THEN /\ connections' = Unlink(connections, s)
               /\ live' = live \ {s}
               /\ freedBad' = (freedBad \/ BadFree(s, c))
          ELSE /\ connections' = MoveToHead(connections, s)
               /\ UNCHANGED <<live, freedBad>>
  /\ Tick(s)
  /\ UNCHANGED <<phase, dump>>

(* free_connections at shutdown: unlink each entry, close_connection it, *)
(* free it, until the TAILQ is empty.                                    *)
FreeConnections ==
  LET freed == Range(connections) IN
  /\ phase = "running"
  /\ phase' = "stopped"
  /\ slot' = [s \in Slots |-> IF s \in freed THEN CloseConnection(slot[s]) ELSE slot[s]]
  /\ freedBad' = (freedBad \/ Len(connections) # Cardinality(freed)
                           \/ \E s \in freed : BadFree(s, CloseConnection(slot[s])))
  /\ live' = live \ freed
  /\ connections' = <<>>
  /\ UNCHANGED <<clock, stamp, dump>>

(* print_connections, run between callbacks: a fresh file gets one line  *)
(* per TAILQ entry, head first.  When mkstemp fails nothing is written   *)
(* and nothing here changes; when fdopen fails the file stays empty;     *)
(* when fclose fails to flush, the file holds only the lines written     *)
(* out before the failure.  Either way the path is logged.               *)
Dump ==
  LET lines == [i \in 1 .. Len(connections) |-> PrintConnection(slot[connections[i]])]
  IN
  /\ phase = "running" /\ clock < MaxEvents
  /\ \E k \in 0 .. Len(lines) : dump' = SubSeq(lines, 1, k)
  /\ clock' = clock + 1
  /\ UNCHANGED <<slot, live, connections, phase, stamp, freedBad>>

Next ==
  \/ \E s \in Slots : AcceptConnection(s) \/ ConnectionCb(s)
  \/ FreeConnections
  \/ Dump

Spec == Init /\ [][Next]_vars

-----------------------------------------------------------------------------
(* Properties *)

(* The registry is a list of slots no longer than the pool, the stamps   *)
(* never run ahead of the clock.                                          *)
TypeOK ==
  /\ connections \in Seq(Slots) /\ Len(connections) <= Cardinality(Slots)
  /\ live \subseteq Slots
  /\ phase \in {"running", "stopped"}
  /\ clock \in 0 .. MaxEvents
  /\ stamp \in [Slots -> 0 .. clock]
  /\ \A s \in Slots : slot[s].state \in States
                      /\ {slot[s].cfd, slot[s].sfd} \subseteq Descriptors
  /\ freedBad \in BOOLEAN
  /\ dump \in Seq([state : States, client : BOOLEAN, server : BOOLEAN])

(* accept_connection, the move to the head in connection_cb and the      *)
(* unlink before free keep the TAILQ holding exactly the live            *)
(* connections, each once: none is lost (it would never be closed at     *)
(* shutdown) and none freed stays linked (a use after free).             *)
RegistryHoldsLive ==
  /\ IsInjective(connections)
  /\ Range(connections) = live

(* "Move to head of queue, so we can find inactive connections"          *)
(* (connection.c:267): the TAILQ is ordered from the most recently       *)
(* accepted or serviced connection to the least.                         *)
MostRecentFirst ==
  \A i \in 1 .. Len(connections) - 1 :
    stamp[connections[i]] > stamp[connections[i + 1]]

(* free_connection is only ever applied to a live connection that is     *)
(* CLOSED, with both descriptors closed once and no watcher started: by  *)
(* connection_cb on CLOSED, and by close_connection for each entry at    *)
(* shutdown, whatever state each connection was in.                      *)
FreedClean == ~freedBad

=============================================================================
