-------------------------------- MODULE Config --------------------------------
(***************************************************************************)
(* The configuration loader of src/unnamed/part_000 (config.c): init_config *)
(* and the grammar callbacks parse_config drives, free_config, and what    *)
(* each does to the heap.  Strings and structs are heap cells, numbered in *)
(* order of allocation; their contents are abstracted away.  parse_config *)
(* itself (cfg_parser.c) is not under src/: it is modelled from the       *)
(* grammar of spec.md section 6 as the order in which it may call the     *)
(* callbacks.                                                              *)
(***************************************************************************)
EXTENDS Naturals, Sequences, FiniteSets
LOCAL INSTANCE SequencesExt

CONSTANTS
  MaxCallbacks,   \* bound on the callbacks parse_config makes
  FopenCanFail,   \* whether the configuration file may fail to open
  MallocCanFail   \* whether malloc, calloc and strdup may return NULL

VARIABLES
  pc,        \* "start", "parsing", "parsed", "returned", or "crashed" (a NULL dereference)
  parseOk,   \* parse_config returned > 0
  file,      \* the FILE * of fopen: "open" or "NULL"
  config,    \* the struct Config being built
  stanza,    \* where parse_config is: "top", "listener", "table" or "entry"
  lc,        \* the struct ListenerConfig of the open listener stanza
  tc,        \* the struct TableConfig of the open table stanza
  te,        \* the struct TableEntryConfig of the open entry
  live,      \* the heap cells allocated and not freed
  next,      \* the next cell malloc hands out
  badFree,   \* ghost: a cell was freed that was not live
  orphans,   \* ghost: cells left with parse_config when it gave up
  steps,     \* ghost: callbacks so far
  result     \* what init_config returned

vars == <<pc, parseOk, file, config, stanza, lc, tc, te, live, next, badFree,
          orphans, steps, result>>

NULL == 0

(* What malloc, calloc or strdup may return when it would hand out cell id. *)
MallocAt(id) == IF MallocCanFail THEN {id, NULL} ELSE {id}

NoListener == [self |-> NULL, address |-> NULL, port |-> NULL,
               table_name |-> NULL, protocol |-> NULL]
NoTable == [self |-> NULL, name |-> NULL, entries |-> <<>>]
NoEntry == [self |-> NULL, hostname |-> NULL, address |-> NULL, port |-> NULL]

(* The cells a struct Config owns, through its lists. *)
Owned(c) ==
  ({c.self, c.filename, c.user}
   \cup UNION {{l.self, l.table_name} : l \in Range(c.listeners)}
   \cup UNION {{t.self, t.name} \cup {b.self : b \in Range(t.backends)}
                 : t \in Range(c.tables)}) \ {NULL}

(* The heap after the cells A are allocated and the cells S freed; a     *)
(* free of a cell not live is a bad free.                                *)
Heap(A, S) ==
  /\ badFree' = (badFree \/ ~((S \ {NULL}) \subseteq (live \cup A)))
  /\ live' = ((live \cup A) \ {NULL}) \ S

(* Allocation of cell x (NULL: the allocation failed). *)
Grow(x) == next' = IF x = NULL THEN next ELSE next + 1

(* free_config: filename, user, each listener (free_listener: the struct   *)
(* and its table_name), each table (free_table: the struct, its name and   *)
(* its backends), then the struct itself.                                  *)
FreeConfig(c) == Heap({}, Owned(c))

-----------------------------------------------------------------------------
(* init_config up to the call of parse_config. *)

Init ==
  /\ pc = "start" /\ parseOk = FALSE /\ file = "NULL"
  /\ config = [self |-> NULL, filename |-> NULL, user |-> NULL,
               listeners |-> <<>>, tables |-> <<>>]
  /\ stanza = "top" /\ lc = NoListener /\ tc = NoTable /\ te = NoEntry
  /\ live = {} /\ next = 1 /\ badFree = FALSE /\ orphans = {}
  /\ steps = 0 /\ result = NULL

InitConfig ==
  /\ pc = "start"
  /\ \E c \in MallocAt(next), f \in MallocAt(next + 1) :
       CASE c = NULL ->
              /\ pc' = "returned" /\ result' = NULL
              /\ UNCHANGED <<config, live, next, file>>
         [] f = NULL ->
              \* strdup(filename) failed: free_config of the empty config
              /\ pc' = "returned" /\ result' = NULL
              /\ config' = [config EXCEPT !.self = c]
              /\ live' = live /\ next' = next + 1
              /\ UNCHANGED file
         [] OTHER ->
              \* fopen, its result not checked: parse_config reads from,
              \* and fclose closes, a NULL FILE * if it failed
              /\ file' \in IF FopenCanFail THEN {"open", "NULL"} ELSE {"open"}
              /\ pc' = IF file' = "NULL" THEN "crashed" ELSE "parsing"
              /\ config' = [config EXCEPT !.self = c, !.filename = f]
              /\ live' = live \cup {c, f} /\ next' = next + 2
              /\ UNCHANGED result
  /\ UNCHANGED <<parseOk, stanza, lc, tc, te, badFree, orphans, steps>>

-----------------------------------------------------------------------------
(* The callbacks, as parse_config calls them from the grammar tables.      *)

(* The cells of the stanza objects parse_config holds. *)
Pending ==
  ({lc.self, lc.address, lc.port, lc.table_name, lc.protocol, tc.self, tc.name,
    te.self, te.hostname, te.address, te.port}
   \cup UNION {{e.self, e.hostname, e.address, e.port} : e \in Range(tc.entries)})
  \ {NULL}

(* A callback returning <= 0, a begin callback returning NULL, or a syntax *)
(* error: parse_config gives up and returns <= 0.                          *)
ParseFails ==
  /\ pc' = "parsed" /\ parseOk' = FALSE
  /\ orphans' = orphans \cup Pending

Parsing == pc = "parsing" /\ file = "open" /\ steps < MaxCallbacks
Step == steps' = steps + 1

(* accept_username: strdup, with no check for an earlier username. *)
AcceptUsername ==
  /\ Parsing /\ stanza = "top" /\ Step
  /\ \E u \in MallocAt(next) :
       config' = [config EXCEPT !.user = u] /\ Heap({u}, {}) /\ Grow(u)
  /\ UNCHANGED <<pc, parseOk, file, stanza, lc, tc, te, orphans, result>>

(* begin_listener: calloc a ListenerConfig. *)
BeginListener ==
  /\ Parsing /\ stanza = "top" /\ Step
  /\ \E l \in MallocAt(next) :
       IF l = NULL THEN ParseFails /\ UNCHANGED <<stanza, lc, live, next, badFree>>
       ELSE /\ stanza' = "listener" /\ lc' = [NoListener EXCEPT !.self = l]
            /\ Heap({l}, {}) /\ Grow(l)
            /\ UNCHANGED <<pc, parseOk, orphans>>
  /\ UNCHANGED <<file, config, tc, te, result>>

(* accept_listener_arg: a numeric argument is the port, any other the     *)
(* address, while the address is unset; after it, one numeric port; any  *)
(* other argument is an error (-1).                                       *)
AcceptListenerArg(numeric) ==
  /\ Parsing /\ stanza = "listener" /\ Step
  /\ IF lc.address = NULL \/ (lc.port = NULL /\ numeric)
     THEN /\ \E d \in MallocAt(next) :
               /\ lc' = IF lc.address = NULL /\ ~numeric
                        THEN [lc EXCEPT !.address = d] ELSE [lc EXCEPT !.port = d]
               /\ Heap({d}, {}) /\ Grow(d)
          /\ UNCHANGED <<pc, parseOk, orphans>>
     ELSE ParseFails /\ UNCHANGED <<lc, live, next, badFree>>
  /\ UNCHANGED <<file, config, stanza, tc, te, result>>

(* accept_listener_table_name and accept_listener_protocol: strdup the   *)
(* first value; a duplicate is reported and ignored.                      *)
SetListenerOnce(field) ==
  /\ Parsing /\ stanza = "listener" /\ Step
  /\ IF lc[field] = NULL
     THEN \E d \in MallocAt(next) :
            lc' = [lc EXCEPT ![field] = d] /\ Heap({d}, {}) /\ Grow(d)
     ELSE UNCHANGED <<lc, live, next, badFree>>
  /\ UNCHANGED <<pc, parseOk, file, config, stanza, tc, te, orphans, result>>

AcceptListenerTableName == SetListenerOnce("table_name")

AcceptListenerProtocol == SetListenerOnce("protocol")

(* Mutant: the table name is handed over but lc->table_name not cleared. *)
EndListener_NoMove(m) ==
  /\ config' = [config EXCEPT !.listeners =
                  <<[self |-> m, table_name |-> lc.table_name]>> \o @]
  /\ Heap({m}, {lc.address, lc.port, lc.table_name, lc.protocol, lc.self})

(* end_listener after its malloc succeeded: the Listener takes over the   *)
(* table name, is inserted at the head, and the ListenerConfig and its     *)
(* other strings are freed.                                               *)
EndListenerBuilt(m) ==
  /\ config' = [config EXCEPT !.listeners =
                  <<[self |-> m, table_name |-> lc.table_name]>> \o @]
  /\ Heap({m}, {lc.address, lc.port, lc.protocol, lc.self})

(* end_listener: the malloc at line 296 is not checked. *)
EndListener ==
  /\ Parsing /\ stanza = "listener" /\ Step
  /\ \E m \in MallocAt(next) :
       IF m = NULL
       THEN pc' = "crashed" /\ UNCHANGED <<config, stanza, lc, live, next, badFree>>
       ELSE /\ EndListenerBuilt(m) /\ Grow(m)
            /\ lc' = NoListener /\ stanza' = "top" /\ UNCHANGED pc
  /\ UNCHANGED <<parseOk, file, tc, te, orphans, result>>

(* begin_table: calloc a TableConfig with an empty entry list. *)
BeginTable ==
  /\ Parsing /\ stanza = "top" /\ Step
  /\ \E t \in MallocAt(next) :
       IF t = NULL THEN ParseFails /\ UNCHANGED <<stanza, tc, live, next, badFree>>
       ELSE /\ stanza' = "table" /\ tc' = [NoTable EXCEPT !.self = t]
            /\ Heap({t}, {}) /\ Grow(t)
            /\ UNCHANGED <<pc, parseOk, orphans>>
  /\ UNCHANGED <<file, config, lc, te, result>>

(* accept_table_arg: the first argument is the name, others are ignored. *)
AcceptTableArg ==
  /\ Parsing /\ stanza = "table" /\ Step
  /\ IF tc.name = NULL
     THEN \E d \in MallocAt(next) :
            tc' = [tc EXCEPT !.name = d] /\ Heap({d}, {}) /\ Grow(d)
     ELSE UNCHANGED <<tc, live, next, badFree>>
  /\ UNCHANGED <<pc, parseOk, file, config, stanza, lc, te, orphans, result>>

(* begin_table_entry: calloc a TableEntryConfig. *)
BeginTableEntry ==
  /\ Parsing /\ stanza = "table" /\ Step
  /\ \E e \in MallocAt(next) :
       IF e = NULL THEN ParseFails /\ UNCHANGED <<stanza, te, live, next, badFree>>
       ELSE /\ stanza' = "entry" /\ te' = [NoEntry EXCEPT !.self = e]
            /\ Heap({e}, {}) /\ Grow(e)
            /\ UNCHANGED <<pc, parseOk, orphans>>
  /\ UNCHANGED <<file, config, lc, tc, result>>

EntryFields == <<"hostname", "address", "port">>

(* accept_table_entry_arg: hostname, then address, then port; further    *)
(* arguments are reported and ignored.                                    *)
AcceptTableEntryArg ==
  /\ Parsing /\ stanza = "entry" /\ Step
  /\ IF \A i \in 1 .. 3 : te[EntryFields[i]] # NULL
     THEN UNCHANGED <<te, live, next, badFree>>
     ELSE LET i == CHOOSE i \in 1 .. 3 : /\ te[EntryFields[i]] = NULL
                                        /\ \A j \in 1 .. i - 1 : te[EntryFields[j]] # NULL
          IN \E d \in MallocAt(next) :
               te' = [te EXCEPT ![EntryFields[i]] = d] /\ Heap({d}, {}) /\ Grow(d)
  /\ UNCHANGED <<pc, parseOk, file, config, stanza, lc, tc, orphans, result>>

(* STAILQ_INSERT_TAIL *)
InsertTail(q, e) == Append(q, e)

(* end_table_entry: the entry joins the tail of the table's list. *)
EndTableEntry ==
  /\ Parsing /\ stanza = "entry" /\ Step
  /\ tc' = [tc EXCEPT !.entries = InsertTail(@, te)]
  /\ te' = NoEntry /\ stanza' = "table"
  /\ UNCHANGED <<pc, parseOk, file, config, lc, live, next, badFree, orphans, result>>

(* add_backend (table.c, not under src/): appends a Backend holding its   *)
(* own copies of the strings to the table, cell base + i for entry i.     *)
AddBackends(entries, base) ==
  [i \in DOMAIN entries |-> [self |-> base + i]]

(* end_table: malloc a Table (STAILQ_INIT through it before the NULL      *)
(* check), move the name, turn each entry, head first, into a backend and *)
(* free it, insert the table at the head and free the TableConfig.        *)
EndTable ==
  /\ Parsing /\ stanza = "table" /\ Step
  /\ \E t \in MallocAt(next) :
       IF t = NULL
       THEN pc' = "crashed" /\ UNCHANGED <<config, stanza, tc, live, next, badFree>>
       ELSE LET n == Len(tc.entries)
                backends == AddBackends(tc.entries, next)
            IN /\ config' = [config EXCEPT !.tables =
                   <<[self |-> t, name |-> tc.name, backends |-> backends]>> \o @]
               /\ Heap({t} \cup {b.self : b \in Range(backends)},
                       {tc.self} \cup UNION {{e.self, e.hostname, e.address, e.port}
                                               : e \in Range(tc.entries)})
               /\ next' = next + 1 + n
               /\ tc' = NoTable /\ stanza' = "top" /\ UNCHANGED pc
  /\ UNCHANGED <<parseOk, file, lc, te, orphans, result>>

(* The end of the file at the top level: parse_config returns > 0. *)
ParseSucceeds ==
  /\ pc = "parsing" /\ file = "open" /\ stanza = "top"
  /\ pc' = "parsed" /\ parseOk' = TRUE
  /\ UNCHANGED <<file, config, stanza, lc, tc, te, live, next, badFree, orphans,
                 steps, result>>

(* A syntax error anywhere: parse_config returns <= 0. *)
SyntaxError ==
  /\ pc = "parsing" /\ file = "open"
  /\ ParseFails
  /\ UNCHANGED <<file, config, stanza, lc, tc, te, live, next, badFree, steps,
                 result>>

(* init_config after parse_config: free_config on failure, fclose, and    *)
(* return config, freed or not.                                           *)
FinishInitConfig ==
  /\ pc = "parsed"
  /\ IF parseOk THEN UNCHANGED <<live, badFree>> ELSE FreeConfig(config)
  /\ pc' = "returned" /\ result' = config.self
  /\ UNCHANGED <<parseOk, file, config, stanza, lc, tc, te, next, orphans, steps>>

Next ==
  \/ InitConfig
  \/ AcceptUsername
  \/ BeginListener \/ \E n \in BOOLEAN : AcceptListenerArg(n)
  \/ AcceptListenerTableName \/ AcceptListenerProtocol \/ EndListener
  \/ BeginTable \/ AcceptTableArg \/ EndTable
  \/ BeginTableEntry \/ AcceptTableEntryArg \/ EndTableEntry
  \/ ParseSucceeds \/ SyntaxError
  \/ FinishInitConfig

Spec == Init /\ [][Next]_vars

-----------------------------------------------------------------------------
(* Properties *)

(* Through the moves of strings from the stanza objects into the Listener *)
(* and Table structs and the frees that follow (end_listener,             *)
(* end_table, free_config), no cell is freed twice or while unallocated,  *)
(* and every cell a live struct Config reaches is still allocated.        *)
HeapSound ==
  /\ ~badFree
  /\ config.self \in live => Owned(config) \subseteq live

(* When init_config returns, every cell still allocated is reachable from *)
(* the config it returned, apart from what parse_config kept when it gave *)
(* up: loading the configuration leaks nothing.                           *)
LeakFree ==
  pc = "returned" =>
    live \ orphans = IF result \in live THEN Owned(config) ELSE {}

(* init_config returns NULL or a config that is still allocated. *)
ReturnsLiveConfig ==
  pc = "returned" => (result = NULL \/ result \in live)

(* Loading the configuration never dereferences NULL: not the FILE * of a *)
(* failed fopen, nor the result of a failed malloc.                       *)
NoNullDeref == pc # "crashed"

=============================================================================
