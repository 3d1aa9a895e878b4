------------------------- MODULE ConnectionLifecycle -------------------------
(***************************************************************************)
(* What spec.md (section 4.1) promises of a connection's state: it starts *)
(* ACCEPTED, moves only along the transition table, and stays CLOSED once *)
(* there.  One connection_cb may take several edges (parse, resolve and   *)
(* connect in one call; a closed half and the drained other half), so a   *)
(* step is a move along a path of the table, not a single edge.          *)
(***************************************************************************)
EXTENDS Naturals, FiniteSets

VARIABLE state

LifecycleStates == {"ACCEPTED", "PARSED", "RESOLVED", "CONNECTED",
                    "SERVER_CLOSED", "CLIENT_CLOSED", "CLOSED"}

(* The transition table of spec.md section 4.1. *)
Edges ==
  {<<"ACCEPTED", "PARSED">>, <<"ACCEPTED", "CLOSED">>,
   <<"PARSED", "RESOLVED">>, <<"PARSED", "CLOSED">>,
   <<"RESOLVED", "CONNECTED">>, <<"RESOLVED", "SERVER_CLOSED">>,
   <<"RESOLVED", "CLOSED">>,
   <<"CONNECTED", "CLIENT_CLOSED">>, <<"CONNECTED", "SERVER_CLOSED">>,
   <<"CLIENT_CLOSED", "CLOSED">>, <<"SERVER_CLOSED", "CLOSED">>}

(* The states reachable from the set S in at most n edges of the table. *)
RECURSIVE Descend(_, _)
Descend(S, n) ==
  IF n = 0 THEN S
  ELSE Descend(S \cup {e[2] : e \in {x \in Edges : x[1] \in S}}, n - 1)

(* The states one callback may leave a connection in state s: a path of *)
(* one or more edges of the table.                                      *)
Successors(s) ==
  Descend({e[2] : e \in {x \in Edges : x[1] = s}}, Cardinality(LifecycleStates))

Init == state = "ACCEPTED"

Advance == state' \in Successors(state)

Spec == Init /\ [][Advance]_state

=============================================================================
