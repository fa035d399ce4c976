----------------------------- MODULE OneBotLink -----------------------------
(***************************************************************************)
(* The WebSocket of pkg/channels/onebot/onebot.go: Start dials and starts  *)
(* a listener, a loop dials again when the listener has given the          *)
(* connection up, requests wait for the answer with their echo, and Stop   *)
(* may come at any moment.                                                 *)
(***************************************************************************)
EXTENDS Integers, FiniteSets

CONSTANTS Dials,      \* bound: how often a connection is dialled, 1..Dials
          Requests    \* sendAPIRequest and Send calls

ASSUME LinkAssumption == Dials \in Nat \ {0}

Conn == 1..Dials
NoConn == 0

VARIABLES dialled,     \* connections dialled so far
          alive,       \* the sockets that neither side has closed
          conn,        \* the field conn
          dialer,      \* Start and the reconnect loop: what the current round does
          reader,      \* reader[k]: the connection that listener k reads, and where it is
          stopped,     \* the context of the channel is cancelled
          closing,     \* Stop has still to close the connection
          pending,     \* the requests in the map `pending'
          request      \* request[r]: where it is, and the connection it wrote to
linkVars == <<dialled, alive, conn, dialer, reader, stopped, closing, pending, request>>

LinkInit ==
    /\ dialled = 0 /\ alive = {} /\ conn = NoConn /\ dialer = [at |-> "dial", new |-> NoConn]
    /\ reader = [k \in Conn |-> "none"] /\ stopped = FALSE /\ closing = FALSE
    /\ pending = {} /\ request = [r \in Requests |-> [at |-> "new", on |-> NoConn]]

\* connect: the dial takes its time and does not look at the context; then conn is set.
Dial ==
    /\ dialer.at = "dial"
    /\ \/ /\ dialled < Dials /\ dialled' = dialled + 1 /\ alive' = alive \cup {dialled + 1}
          /\ dialer' = [at |-> "store", new |-> dialled + 1]
       \/ dialer' = [at |-> "wait", new |-> NoConn] /\ UNCHANGED <<dialled, alive>>
    /\ UNCHANGED <<conn, reader, stopped, closing, pending, request>>
StoreConn ==
    /\ dialer.at = "store" /\ conn' = dialer.new
    /\ dialer' = [dialer EXCEPT !.at = "listen"]
    /\ UNCHANGED <<dialled, alive, reader, stopped, closing, pending, request>>
\* `go c.listen()': the listener takes whatever conn is by the time it runs.
GoListen ==
    /\ dialer.at = "listen"
    /\ reader' = [reader EXCEPT ![dialer.new] = "start"] /\ dialer' = [at |-> "wait", new |-> NoConn]
    /\ UNCHANGED <<dialled, alive, conn, stopped, closing, pending, request>>

\* a loop that returns once there is a connection
ReconnectTick_UntilUp ==
    /\ dialer.at = "wait"
    /\ \/ (stopped \/ conn # NoConn) /\ dialer' = [dialer EXCEPT !.at = "end"]
       \/ ~stopped /\ conn = NoConn /\ dialer' = [dialer EXCEPT !.at = "dial"]
    /\ UNCHANGED <<dialled, alive, conn, reader, stopped, closing, pending, request>>
\* reconnectLoop: the tick dials when there is no connection.
ReconnectTick ==
    /\ dialer.at = "wait"
    /\ \/ stopped /\ dialer' = [dialer EXCEPT !.at = "end"]
       \/ ~stopped /\ conn = NoConn /\ dialer' = [dialer EXCEPT !.at = "dial"]
    /\ UNCHANGED <<dialled, alive, conn, reader, stopped, closing, pending, request>>

\* Where a listener has got to: nothing, about to load conn, reading k, or gone.
ListenLoads(k) ==
    /\ reader[k] = "start"
    /\ reader' = [reader EXCEPT ![k] = IF conn = NoConn \/ stopped THEN "gone" ELSE "read"]
    /\ UNCHANGED <<dialled, alive, conn, dialer, stopped, closing, pending, request>>
\* ReadMessage fails once the socket is closed: conn is given up if it is still this one.
ListenEnds(k) ==
    /\ reader[k] = "read" /\ k \notin alive
    /\ reader' = [reader EXCEPT ![k] = "gone"]
    /\ conn' = IF conn = k THEN NoConn ELSE conn
    /\ UNCHANGED <<dialled, alive, dialer, stopped, closing, pending, request>>
\* The other side hangs up, or 60 seconds pass without a pong.
Lost(k) ==
    /\ k \in alive /\ alive' = alive \ {k}
    /\ UNCHANGED <<dialled, conn, dialer, reader, stopped, closing, pending, request>>

\* sendAPIRequest: registered and written; the listener hands the answer over.
Ask(r) ==
    /\ request[r].at = "new"
    /\ IF conn = NoConn THEN request' = [request EXCEPT ![r].at = "failed"] /\ UNCHANGED pending
       ELSE request' = [request EXCEPT ![r] = [at |-> "wait", on |-> conn]] /\ pending' = pending \cup {r}
    /\ UNCHANGED <<dialled, alive, conn, dialer, reader, stopped, closing>>
Answered(r) ==
    /\ request[r].at = "wait" /\ r \in pending
    /\ reader[request[r].on] = "read" /\ request[r].on \in alive
    /\ request' = [request EXCEPT ![r].at = "answered"] /\ pending' = pending \ {r}
    /\ UNCHANGED <<dialled, alive, conn, dialer, reader, stopped, closing>>
\* The timeout, the write error, or the cancelled context; Stop wakes what it finds.
GivesUp(r) ==
    /\ request[r].at = "wait"
    /\ request' = [request EXCEPT ![r].at = "failed"] /\ pending' = pending \ {r}
    /\ UNCHANGED <<dialled, alive, conn, dialer, reader, stopped, closing>>

\* Stop: the context first, then the pending requests, then the connection.
LinkStop ==
    /\ ~stopped /\ stopped' = TRUE /\ closing' = TRUE /\ pending' = {}
    /\ request' = [r \in Requests |-> IF r \in pending THEN [request[r] EXCEPT !.at = "failed"] ELSE request[r]]
    /\ UNCHANGED <<dialled, alive, conn, dialer, reader>>
StopCloses ==
    /\ closing /\ closing' = FALSE /\ alive' = alive \ {conn} /\ conn' = NoConn
    /\ UNCHANGED <<dialled, dialer, reader, stopped, pending, request>>

Dialling == Dial \/ StoreConn \/ GoListen \/ ReconnectTick
Listening(k) == ListenLoads(k) \/ ListenEnds(k)
LinkNext ==
    \/ Dialling \/ LinkStop \/ StopCloses
    \/ \E k \in Conn : Listening(k) \/ Lost(k)
    \/ \E r \in Requests : Ask(r) \/ Answered(r) \/ GivesUp(r)
LinkFairness ==
    /\ WF_linkVars(StoreConn) /\ WF_linkVars(GoListen) /\ WF_linkVars(ReconnectTick) /\ WF_linkVars(StopCloses)
    /\ WF_linkVars(Dial) /\ \A k \in Conn : WF_linkVars(Listening(k))
    /\ \A r \in Requests : WF_linkVars(GivesUp(r))
LinkSpec == LinkInit /\ [][LinkNext]_linkVars /\ LinkFairness
-----------------------------------------------------------------------------
\* A connection that the channel uses is read by a listener of its own, or one is
\* about to start, so that an answer or a hang-up on it is noticed; and no connection
\* that was given up is still open.  After Stop the second part fails: the loop may
\* store a connection that it was dialling, and nobody closes it.
LinkHeard ==
    /\ conn # NoConn /\ ~stopped =>
          reader[conn] \in {"start", "read"} \/ (dialer.at = "listen" /\ dialer.new = conn)
    /\ ~stopped => \A k \in alive : conn = k \/ dialer.new = k

\* A lost connection is dialled again, while the peer accepts calls (bounded here by
\* Dials) and the channel runs.
LinkRestored == \A k \in Conn : (reader[k] = "read" /\ k \notin alive) ~> (stopped \/ dialer.at = "dial" \/ conn \notin {NoConn, k})

\* The two of above, of reconnectLoop, listen and Stop.
LinkSound == []LinkHeard /\ LinkRestored

\* No socket of a stopped channel stays open.  (Does not hold: a dial that was under way
\* when Stop came stores its connection afterwards.)
LinkClosed == (stopped /\ ~closing) ~> alive = {}
=============================================================================
