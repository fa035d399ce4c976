---------------------------- MODULE PicoSockets -----------------------------
(***************************************************************************)
(* pkg/channels/pico/pico.go: the WebSocket connections of the web chat.   *)
(* A handler per request checks the limit, upgrades, stores and counts     *)
(* the connection; a goroutine reads each connection and removes it when   *)
(* it ends; Send writes to all connections of a session; Stop closes what  *)
(* it finds.                                                               *)
(***************************************************************************)
EXTENDS Integers, FiniteSets

CONSTANTS Conns,           \* the requests for a connection
          Sessions,        \* session ids
          MaxConnections,  \* channels.pico.max_connections
          MaxSends         \* bound: messages sent to sessions

ASSUME PicoAssumption == MaxConnections \in Nat \ {0} /\ MaxSends \in Nat

VARIABLES
    running, shutDown,  \* SetRunning, and whether Stop has cancelled the context
    socket,       \* conn[c]: where the goroutines of c are
    session,    \* session[c]: the session of c, once it is open
    open,       \* the connections whose socket is open
    stored,     \* the keys of the map `connections'
    connCount,  \* the counter that the limit looks at
    sweep,      \* what Stop still has to visit, or NoSweep
    sends,      \* bound
    sending     \* what Send has still to visit, and whether it wrote to anybody
picoVars == <<running, shutDown, socket, session, open, stored, connCount, sweep, sends, sending>>

NoSweep  == {"none"}
NoSend   == [on |-> FALSE, to |-> "none", left |-> {}, wrote |-> {}]

PicoInit ==
    /\ running = FALSE /\ shutDown = FALSE /\ sends = 0 /\ sending = NoSend
    /\ socket = [c \in Conns |-> "none"] /\ session \in [Conns -> Sessions]
    /\ open = {} /\ stored = {} /\ connCount = 0 /\ sweep = NoSweep

PicoStart ==
    /\ ~running /\ ~shutDown /\ running' = TRUE
    /\ UNCHANGED <<shutDown, socket, session, open, stored, connCount, sweep, sends, sending>>

\* handleWebSocket: running, token and limit are checked ...
PicoAccept(c) ==
    /\ socket[c] = "none"
    /\ socket' = [socket EXCEPT ![c] = IF running /\ connCount < MaxConnections THEN "upgrade" ELSE "refused"]
    /\ UNCHANGED <<running, shutDown, session, open, stored, connCount, sweep, sends, sending>>
\* ... the socket opens (or not), it is stored, and then counted.
PicoUpgrade(c) ==
    /\ socket[c] = "upgrade"
    /\ \/ socket' = [socket EXCEPT ![c] = "store"] /\ open' = open \cup {c}
       \/ socket' = [socket EXCEPT ![c] = "refused"] /\ UNCHANGED open
    /\ UNCHANGED <<running, shutDown, session, stored, connCount, sweep, sends, sending>>
PicoStore(c) ==
    /\ socket[c] = "store"
    /\ stored' = stored \cup {c} /\ socket' = [socket EXCEPT ![c] = "count"]
    /\ UNCHANGED <<running, shutDown, session, open, connCount, sweep, sends, sending>>
PicoCount(c) ==
    /\ socket[c] = "count"
    /\ connCount' = connCount + 1 /\ socket' = [socket EXCEPT ![c] = "read"]
    /\ UNCHANGED <<running, shutDown, session, open, stored, sweep, sends, sending>>

\* The peer goes away, or the read deadline passes.
PicoHangUp(c) ==
    /\ c \in open /\ open' = open \ {c}
    /\ UNCHANGED <<running, shutDown, socket, session, stored, connCount, sweep, sends, sending>>

\* a read loop that leaves its connection in the map
PicoReadEnds_KeepsEntry(c) ==
    /\ socket[c] = "read" /\ (c \notin open \/ shutDown)
    /\ open' = open \ {c} /\ UNCHANGED stored
    /\ connCount' = connCount - 1 /\ socket' = [socket EXCEPT ![c] = "done"]
    /\ UNCHANGED <<running, shutDown, session, sweep, sends, sending>>
\* readLoop: when the socket is closed, or the context is cancelled, the connection
\* is closed, removed and no longer counted.
PicoReadEnds(c) ==
    /\ socket[c] = "read" /\ (c \notin open \/ shutDown)
    /\ open' = open \ {c} /\ stored' = stored \ {c}
    /\ connCount' = connCount - 1 /\ socket' = [socket EXCEPT ![c] = "done"]
    /\ UNCHANGED <<running, shutDown, session, sweep, sends, sending>>

\* Stop: not running any more; every connection that Range visits is closed and
\* deleted; then the context is cancelled.
PicoStop ==
    /\ running /\ running' = FALSE /\ sweep' = stored
    /\ UNCHANGED <<shutDown, socket, session, open, stored, connCount, sends, sending>>
PicoSweep(c) ==
    /\ sweep # NoSweep /\ c \in sweep
    /\ sweep' = sweep \ {c} /\ open' = open \ {c} /\ stored' = stored \ {c}
    /\ UNCHANGED <<running, shutDown, socket, session, connCount, sends, sending>>
PicoStopped ==
    /\ sweep = {} /\ sweep' = NoSweep /\ shutDown' = TRUE
    /\ UNCHANGED <<running, socket, session, open, stored, connCount, sends, sending>>

\* Send and StartTyping: broadcastToSession visits the connections of the session.
PicoSend(s) ==
    /\ running /\ ~sending.on /\ sends < MaxSends /\ sends' = sends + 1
    /\ sending' = [on |-> TRUE, to |-> s, left |-> {c \in stored : session[c] = s}, wrote |-> {}]
    /\ UNCHANGED <<running, shutDown, socket, session, open, stored, connCount, sweep>>
PicoWrite(c) ==
    /\ sending.on /\ c \in sending.left
    /\ sending' = [sending EXCEPT !.left = @ \ {c}, !.wrote = IF c \in open THEN @ \cup {c} ELSE @]
    /\ UNCHANGED <<running, shutDown, socket, session, open, stored, connCount, sweep, sends>>
\* It fails for good when no connection took the message.
PicoSent ==
    /\ sending.on /\ sending.left = {} /\ sending' = NoSend
    /\ UNCHANGED <<running, shutDown, socket, session, open, stored, connCount, sweep, sends>>

PicoGoes(c) == PicoUpgrade(c) \/ PicoStore(c) \/ PicoCount(c) \/ PicoReadEnds(c)
PicoNext ==
    \/ PicoStart \/ PicoStop \/ PicoStopped \/ PicoSent
    \/ \E c \in Conns : PicoAccept(c) \/ PicoGoes(c) \/ PicoHangUp(c) \/ PicoSweep(c) \/ PicoWrite(c)
    \/ \E s \in Sessions : PicoSend(s)
-----------------------------------------------------------------------------
\* The counter that guards the limit is the number of connections being read, so
\* that neither a hang-up during Stop nor a late handler leaves a seat taken or
\* gives one away twice (pico.go:274, 316).
SeatsCounted == connCount = Cardinality({c \in Conns : socket[c] = "read"})

\* A socket that a stopped channel still holds open belongs to a handler that has
\* not finished or to a read loop that is about to close it: none is forgotten.
NoneForgotten ==
    /\ \A c \in open : socket[c] \in {"store", "count", "read"}
    /\ \A c \in stored : socket[c] \in {"count", "read"}

\* What the read loops keep up to date when they end, whoever ended them: the two of above.
PicoSound == SeatsCounted /\ NoneForgotten

\* The limit as the check reads (pico.go:244, "Check connection limit").  (Does not hold:
\* handlers that have passed the check are counted only once they are upgraded.)
WithinLimit == connCount <= MaxConnections

PicoSpec == PicoInit /\ [][PicoNext]_picoVars
=============================================================================
