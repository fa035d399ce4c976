--------------------------- MODULE ChannelManager ---------------------------
(***************************************************************************)
(* pkg/channels/manager.go: outbound messages go from the bus through one  *)
(* dispatcher per lane (text, media) to one worker per channel and lane,   *)
(* which splits, rate-limits, sends and retries.  SendMessage sends from   *)
(* the caller's goroutine.  StopAll cancels the context and closes the     *)
(* worker queues; a configuration reload (gateway/helpers.go) stops one    *)
(* manager and starts the next generation on the same bus.                 *)
(*                                                                         *)
(* Messages are numbered in the order in which they are offered.  A piece  *)
(* <<m, k>> is the k-th chunk of message m.  A placeholder edited in place *)
(* of a send (preSend) counts as a send.                                   *)
(***************************************************************************)
EXTENDS Integers, Sequences, FiniteSets

CONSTANTS Channel,      \* the registered channels
          Internal,     \* cli, system, subagent: nothing is dispatched to them
          Lane,         \* the lanes: "text" and "media"
          MediaSender,  \* the channels that can send media
          Messages,     \* bound: the messages are 1..Messages
          Dest,         \* Dest[m]: the channel of message m
          LaneOf,       \* LaneOf[m]: its lane
          Chunks,       \* Chunks[m]: into how many pieces it is split
          Direct,       \* the messages sent with SendMessage
          Capacity,     \* buffer size of a worker queue
          MaxRetries,
          Generations   \* bound: managers made, the first and one per reload

Message    == 1..Messages
Piece      == {p \in Message \X Nat : p[2] \in 1..Chunks[p[1]]}
Generation == 1..Generations
Worker     == Generation \X Channel \X Lane
Dispatcher == Generation \X Lane
Sender     == Worker \cup {<<m>> : m \in Direct}   \* <<m>>: the call SendMessage(m)

ASSUME ManagerAssumption ==
    /\ "text" \in Lane /\ Lane \subseteq {"text", "media"}
    /\ Messages \in Nat /\ MaxRetries \in Nat
    /\ Capacity \in Nat \ {0} /\ Generations \in Nat \ {0}
    /\ MediaSender \subseteq Channel /\ Direct \subseteq Message
    /\ Channel \cap Internal = {}
    /\ Dest \in [Message -> Channel \cup Internal]
    /\ LaneOf \in [Message -> Lane]
    /\ Chunks \in [Message -> Nat \ {0}]
    /\ \A m \in Direct : Dest[m] \in Channel /\ LaneOf[m] = "text"

VARIABLES
    gen,      \* the current generation, 0 before the first StartAll
    phase,    \* where its life is, see PhaseName
    ctxDone,  \* the generations whose dispatchCtx is cancelled
    started,  \* started[g]: the channels whose Start succeeded
    busQ,     \* busQ[l]: the outbound channel of the bus for lane l
    offered,  \* the messages published or passed to SendMessage
    disp,     \* disp[d]: where a dispatcher is in its loop
    held,     \* held[d]: the message it received last
    queue,    \* queue[w]: the buffer of a worker
    shut,     \* the workers whose queue is closed
    spc,      \* spc[s]: where a worker or a SendMessage call is
    cur,      \* cur[s]: the piece it is sending
    attempt,  \* attempt[s]: the failed attempts at that piece
    log,      \* log[c][l]: the pieces that reached the platform, in order
    failed,   \* the pieces given up: a permanent error, or no retry left
    skipped,  \* the messages for which there is no channel, worker or sender
    panicked  \* the process died: a close of, or a send on, a closed queue

lifeVars == <<gen, phase, ctxDone, started, shut>>
dispVars == <<busQ, disp, held>>
sendVars == <<spc, cur, attempt, log, failed>>
vars     == <<lifeVars, dispVars, sendVars, queue, offered, skipped, panicked>>

PhaseName == {"new", "restarting", "running", "cancelled", "closedText",
              "closedMedia", "down", "failed"}

\* StopAll holds m.mu from its first line to its last
Locked == phase \in {"cancelled", "closedText", "closedMedia"}

LaneWorkers(l) == {w \in Worker : w[1] = gen /\ w[2] \in started[gen] /\ w[3] = l}

Init ==
    /\ gen = 0 /\ phase = "new" /\ ctxDone = {}
    /\ started = [g \in Generation |-> {}]
    /\ busQ = [l \in Lane |-> <<>>]
    /\ offered = {}
    /\ disp = [d \in Dispatcher |-> "none"]
    /\ held = [d \in Dispatcher |-> 0]
    /\ queue = [w \in Worker |-> <<>>]
    /\ shut = {}
    /\ spc = [s \in Sender |-> "none"]
    /\ cur = [s \in Sender |-> <<>>]
    /\ attempt = [s \in Sender |-> 0]
    /\ log = [c \in Channel |-> [l \in Lane |-> <<>>]]
    /\ failed = {} /\ skipped = {}
    /\ panicked = FALSE
-----------------------------------------------------------------------------
(* Publishing.                                                              *)


\* An agent publishes to the bus, which is FIFO.  It goes on to the messages
\* after a SendMessage when that call has returned.
Publish(m) ==
    /\ m \in Message \ (Direct \cup offered)
    /\ \A n \in 1..m - 1 :
          IF n \in Direct THEN spc[<<n>>] = "returned"
                          ELSE n \in offered \/ LaneOf[n] # LaneOf[m]
    /\ offered' = offered \cup {m}
    /\ busQ' = [busQ EXCEPT ![LaneOf[m]] = Append(@, m)]
    /\ UNCHANGED <<lifeVars, disp, held, sendVars, queue, skipped, panicked>>
-----------------------------------------------------------------------------
(* StartAll, StopAll, and the reload around them.                           *)

\* NewManager, StartAll: any subset of the channels may fail to start
StartAll(g, up, where) ==
    /\ gen' = g /\ phase' = where
    /\ started' = [started EXCEPT ![g] = up]
    /\ disp' = [d \in Dispatcher |-> IF d[1] = g THEN "subscribe" ELSE disp[d]]
    /\ spc' = [s \in Sender |->
                  IF s \in Worker /\ s[1] = g /\ s[2] \in up THEN "idle" ELSE spc[s]]
    /\ UNCHANGED <<ctxDone, shut, busQ, held, cur, attempt, log, failed,
                   queue, offered, skipped, panicked>>

\* setupAndStartServices: the context is context.Background()
Boot == phase = "new" /\ \E up \in SUBSET Channel : StartAll(1, up, "running")

\* restartServices: the context ends when that function returns
Restart ==
    /\ phase = "down" /\ gen < Generations
    /\ \E up \in SUBSET Channel : StartAll(gen + 1, up, "restarting")

\* defer cancel()
RestartReturns ==
    /\ phase = "restarting" /\ phase' = "running"
    /\ ctxDone' = ctxDone \cup {gen}
    /\ UNCHANGED <<gen, started, shut, dispVars, sendVars, queue, offered,
                   skipped, panicked>>

\* restartServices returns before it replaced the manager: the cron service or
\* the heartbeat service did not start
RestartFails ==
    /\ phase = "down" /\ gen < Generations /\ phase' = "failed"
    /\ UNCHANGED <<gen, ctxDone, started, shut, dispVars, sendVars, queue, offered,
                   skipped, panicked>>

\* StopAll takes the lock and cancels the dispatchers
StopCancel ==
    /\ phase = "running"
    /\ phase' = "cancelled" /\ ctxDone' = ctxDone \cup {gen}
    /\ UNCHANGED <<gen, started, shut, dispVars, sendVars, queue, offered,
                   skipped, panicked>>

\* "Close all worker queues ..."
StopCloseText ==
    /\ phase = "cancelled"
    /\ phase' = "closedText" /\ shut' = shut \cup LaneWorkers("text")
    /\ UNCHANGED <<gen, ctxDone, started, dispVars, sendVars, queue, offered,
                   skipped, panicked>>


\* "... and wait for them to drain", then the same for the media queues
StopCloseMedia ==
    /\ phase = "closedText"
    /\ \A w \in LaneWorkers("text") : spc[w] = "exited"
    /\ phase' = "closedMedia" /\ shut' = shut \cup LaneWorkers("media")
    /\ UNCHANGED <<gen, ctxDone, started, dispVars, sendVars, queue, offered,
                   skipped, panicked>>

\* a StopAll that does not wait for the media workers
StopReturn_NoWait ==
    /\ phase = "closedMedia" /\ phase' = "down"
    /\ UNCHANGED <<gen, ctxDone, started, shut, dispVars, sendVars, queue, offered,
                   skipped, panicked>>

\* the channels are stopped and the lock is released
StopReturn ==
    /\ phase = "closedMedia"
    /\ \A w \in LaneWorkers("media") : spc[w] = "exited"
    /\ phase' = "down"
    /\ UNCHANGED <<gen, ctxDone, started, shut, dispVars, sendVars, queue, offered,
                   skipped, panicked>>

\* A reload or the shutdown after a failed restart stops the old manager again.
StopAgain ==
    /\ phase = "failed"
    /\ phase' = "down"
    /\ panicked' = (LaneWorkers("text") # {})
    /\ UNCHANGED <<gen, ctxDone, started, shut, dispVars, sendVars, queue, offered, skipped>>

StopAll == StopCancel \/ StopCloseText \/ StopCloseMedia \/ StopReturn
-----------------------------------------------------------------------------
(* dispatchLoop.                                                            *)

\* a receive that leaves the message on the bus
Subscribe_Peeks(d) ==
    /\ disp[d] = "subscribe" /\ busQ[d[2]] # <<>>
    /\ held' = [held EXCEPT ![d] = Head(busQ[d[2]])]
    /\ disp' = [disp EXCEPT ![d] = "lookup"]
    /\ UNCHANGED <<lifeVars, busQ, sendVars, queue, offered, skipped, panicked>>

\* SubscribeOutbound: a message ...
Subscribe(d) ==
    /\ disp[d] = "subscribe" /\ busQ[d[2]] # <<>>
    /\ held' = [held EXCEPT ![d] = Head(busQ[d[2]])]
    /\ busQ' = [busQ EXCEPT ![d[2]] = Tail(@)]
    /\ disp' = [disp EXCEPT ![d] = "lookup"]
    /\ UNCHANGED <<lifeVars, sendVars, queue, offered, skipped, panicked>>

\* ... or the end of the context: the select takes either
SubscribeStop(d) ==
    /\ disp[d] = "subscribe" /\ d[1] \in ctxDone
    /\ disp' = [disp EXCEPT ![d] = "stopped"]
    /\ UNCHANGED <<lifeVars, busQ, held, sendVars, queue, offered, skipped, panicked>>

\* the worker the held message is for
Target(d) == <<d[1], Dest[held[d]], d[2]>>

\* a dispatcher that returns where it should continue
SkipInternal_Returns(d) ==
    /\ disp[d] = "lookup" /\ Dest[held[d]] \in Internal
    /\ disp' = [disp EXCEPT ![d] = "stopped"]
    /\ skipped' = skipped \cup {held[d]}
    /\ UNCHANGED <<lifeVars, busQ, held, sendVars, queue, offered, panicked>>

SkipInternal(d) ==
    /\ disp[d] = "lookup" /\ Dest[held[d]] \in Internal
    /\ disp' = [disp EXCEPT ![d] = "subscribe"]
    /\ skipped' = skipped \cup {held[d]}
    /\ UNCHANGED <<lifeVars, busQ, held, sendVars, queue, offered, panicked>>

\* under RLock, which waits for a StopAll of the same manager
Lookup(d) ==
    LET active == Dest[held[d]] \in started[d[1]] IN
    /\ disp[d] = "lookup" /\ Dest[held[d]] \in Channel
    /\ ~(Locked /\ d[1] = gen)
    /\ disp' = [disp EXCEPT ![d] = IF active THEN "enqueue" ELSE "subscribe"]
    /\ skipped' = IF active THEN skipped ELSE skipped \cup {held[d]}
    /\ UNCHANGED <<lifeVars, busQ, held, sendVars, queue, offered, panicked>>


\* the select: w.queue <- msg ...
Enqueue(d) ==
    /\ disp[d] = "enqueue" /\ Target(d) \notin shut
    /\ Len(queue[Target(d)]) < Capacity
    /\ queue' = [queue EXCEPT ![Target(d)] = Append(@, held[d])]
    /\ disp' = [disp EXCEPT ![d] = "subscribe"]
    /\ UNCHANGED <<lifeVars, busQ, held, sendVars, offered, skipped, panicked>>

\* ... which panics on a closed queue ...
EnqueueClosed(d) ==
    /\ disp[d] = "enqueue" /\ Target(d) \in shut
    /\ panicked' = TRUE
    /\ UNCHANGED <<lifeVars, dispVars, sendVars, queue, offered, skipped>>

\* ... or ctx.Done()
EnqueueStop(d) ==
    /\ disp[d] = "enqueue" /\ d[1] \in ctxDone
    /\ disp' = [disp EXCEPT ![d] = "stopped"]
    /\ UNCHANGED <<lifeVars, busQ, held, sendVars, queue, offered, skipped, panicked>>

Dispatch(d) ==
    \/ Subscribe(d) \/ SubscribeStop(d) \/ SkipInternal(d) \/ Lookup(d)
    \/ Enqueue(d) \/ EnqueueClosed(d) \/ EnqueueStop(d)
-----------------------------------------------------------------------------
(* runWorker, runMediaWorker, SendMessage: where a message enters ...       *)

BeginMessage(s, m) ==
    /\ spc' = [spc EXCEPT ![s] = "limiter"]
    /\ cur' = [cur EXCEPT ![s] = <<m, 1>>]
    /\ attempt' = [attempt EXCEPT ![s] = 0]
    /\ UNCHANGED <<log, failed>>

TakeMessage(w) ==
    LET m == Head(queue[w]) IN
    /\ spc[w] = "idle" /\ queue[w] # <<>>
    /\ queue' = [queue EXCEPT ![w] = Tail(@)]
    /\ IF w[3] = "media" /\ w[2] \notin MediaSender
       THEN skipped' = skipped \cup {m} /\ UNCHANGED sendVars
       ELSE BeginMessage(w, m) /\ UNCHANGED skipped
    /\ UNCHANGED <<lifeVars, dispVars, offered, panicked>>

\* the queue is closed and empty, or the context has ended
WorkerExit(w) ==
    /\ spc[w] = "idle"
    /\ (w \in shut /\ queue[w] = <<>>) \/ w[1] \in ctxDone
    /\ spc' = [spc EXCEPT ![w] = "exited"]
    /\ UNCHANGED <<lifeVars, dispVars, cur, attempt, log, failed, queue, offered,
                   skipped, panicked>>

\* SendMessage, on the manager of the moment
SendMessage(m) ==
    /\ spc[<<m>>] = "none" /\ gen > 0 /\ ~Locked
    /\ offered' = offered \cup {m}
    /\ IF Dest[m] \in started[gen]
       THEN BeginMessage(<<m>>, m) /\ UNCHANGED skipped
       ELSE /\ spc' = [spc EXCEPT ![<<m>>] = "returned"]
            /\ skipped' = skipped \cup {m}
            /\ UNCHANGED <<cur, attempt, log, failed>>
    /\ UNCHANGED <<lifeVars, dispVars, queue, panicked>>
-----------------------------------------------------------------------------
(* ... and sendWithRetry, sendMediaWithRetry, for each piece.               *)

\* the dispatchCtx of a worker; a SendMessage has the context of its caller
Cancelled(s) == s \in Worker /\ s[1] \in ctxDone

\* where sendWithRetry returns to
NextPiece(s) ==
    LET m == cur[s][1]  k == cur[s][2] IN
    /\ attempt' = [attempt EXCEPT ![s] = 0]
    /\ IF k < Chunks[m]
       THEN /\ spc' = [spc EXCEPT ![s] = "limiter"]
            /\ cur' = [cur EXCEPT ![s] = <<m, k + 1>>]
       ELSE /\ spc' = [spc EXCEPT ![s] = IF s \in Worker THEN "idle" ELSE "returned"]
            /\ cur' = [cur EXCEPT ![s] = <<>>]

\* the channel and the lane of the piece that s sends
Platform(s) == IF s \in Worker THEN <<s[2], s[3]>> ELSE <<Dest[s[1]], "text">>

Arrive(s) ==
    log' = [log EXCEPT ![Platform(s)[1]][Platform(s)[2]] = Append(@, cur[s])]

elsewhere == <<lifeVars, dispVars, queue, offered, skipped, panicked>>


LimiterPass(s) ==
    /\ spc[s] = "limiter" /\ ~Cancelled(s)
    /\ spc' = [spc EXCEPT ![s] = "send"]
    /\ UNCHANGED <<cur, attempt, log, failed, elsewhere>>

\* limiter.Wait returns an error: the piece is not sent, the loop goes on
LimiterAbort(s) ==
    /\ spc[s] = "limiter" /\ Cancelled(s)
    /\ NextPiece(s)
    /\ UNCHANGED <<log, failed, elsewhere>>

SendOk(s) ==
    /\ spc[s] = "send"
    /\ Arrive(s) /\ NextPiece(s)
    /\ UNCHANGED <<failed, elsewhere>>

\* ErrNotRunning, ErrSendFailed
SendPermanentError(s) ==
    /\ spc[s] = "send"
    /\ failed' = failed \cup {cur[s]}
    /\ NextPiece(s)
    /\ UNCHANGED <<log, elsewhere>>

\* a retry that puts the message back into the queue of its worker
SendError_Requeues(s) ==
    /\ spc[s] = "send" /\ s \in Worker
    /\ queue' = [queue EXCEPT ![s] = Append(@, cur[s][1])]
    /\ spc' = [spc EXCEPT ![s] = "idle"]
    /\ cur' = [cur EXCEPT ![s] = <<>>]
    /\ UNCHANGED <<attempt, log, failed, lifeVars, dispVars, offered, skipped, panicked>>



\* ErrRateLimit, ErrTemporary, any other error: the piece may have arrived all
\* the same (a timeout after the platform took it)
SendError(s) ==
    /\ spc[s] = "send"
    /\ Arrive(s) \/ UNCHANGED log
    /\ IF attempt[s] < MaxRetries
       THEN /\ spc' = [spc EXCEPT ![s] = "wait"]
            /\ attempt' = [attempt EXCEPT ![s] = @ + 1]
            /\ UNCHANGED <<cur, failed>>
       ELSE failed' = failed \cup {cur[s]} /\ NextPiece(s)
    /\ UNCHANGED elsewhere

\* the delay has elapsed
RetryAgain(s) ==
    /\ spc[s] = "wait"
    /\ spc' = [spc EXCEPT ![s] = "send"]
    /\ UNCHANGED <<cur, attempt, log, failed, elsewhere>>

\* ctx.Done() during the delay
RetryAbort(s) ==
    /\ spc[s] = "wait" /\ Cancelled(s)
    /\ NextPiece(s)
    /\ UNCHANGED <<log, failed, elsewhere>>

SendWithRetry(s) ==
    \/ LimiterPass(s) \/ LimiterAbort(s)
    \/ SendOk(s) \/ SendPermanentError(s) \/ SendError(s)
    \/ RetryAgain(s) \/ RetryAbort(s)
-----------------------------------------------------------------------------
Next ==
    /\ ~panicked
    /\ \/ Boot \/ Restart \/ RestartReturns \/ RestartFails
       \/ StopAll \/ StopAgain
       \/ \E m \in Message : Publish(m)
       \/ \E m \in Direct : SendMessage(m)
       \/ \E d \in Dispatcher : Dispatch(d)
       \/ \E w \in Worker : TakeMessage(w) \/ WorkerExit(w)
       \/ \E s \in Sender : SendWithRetry(s)

Spec == Init /\ [][Next]_vars

\* Every goroutine that can run does: dispatchers, workers, SendMessage calls,
\* and a StopAll or a restart that began.  A Send returns, as the adapters'
\* HTTP clients time out.  Nobody has to publish, to stop or to reload.
Fairness ==
    /\ \A d \in Dispatcher : WF_vars(~panicked /\ Dispatch(d))
    /\ \A w \in Worker : WF_vars(~panicked /\ (TakeMessage(w) \/ WorkerExit(w)))
    /\ \A s \in Sender : WF_vars(~panicked /\ SendWithRetry(s))
    /\ WF_vars(~panicked /\ (StopCloseText \/ StopCloseMedia \/ StopReturn))
    /\ WF_vars(~panicked /\ RestartReturns)

FairSpec == Spec /\ Fairness
-----------------------------------------------------------------------------
(* Properties.                                                              *)

\* The variables hold values of the kinds the code declares.
TypeOK ==
    /\ gen \in 0..Generations /\ phase \in PhaseName
    /\ ctxDone \subseteq Generation
    /\ started \in [Generation -> SUBSET Channel]
    /\ busQ \in [Lane -> Seq(Message)]
    /\ offered \subseteq Message
    /\ disp \in [Dispatcher -> {"none", "subscribe", "lookup", "enqueue", "stopped"}]
    /\ held \in [Dispatcher -> 0..Messages]
    /\ queue \in [Worker -> Seq(Message)]
    /\ \A w \in Worker : Len(queue[w]) <= Capacity
    /\ shut \subseteq Worker
    /\ spc \in [Sender -> {"none", "idle", "limiter", "send", "wait", "exited", "returned"}]
    /\ \A s \in Sender :
          IF spc[s] \in {"limiter", "send", "wait"} THEN cur[s] \in Piece ELSE cur[s] = <<>>
    /\ attempt \in [Sender -> 0..MaxRetries]
    /\ \A c \in Channel, l \in Lane : log[c][l] \in Seq(Piece)
    /\ failed \subseteq Piece /\ skipped \subseteq Message
    /\ panicked \in BOOLEAN

Sent(p) == \E c \in Channel, l \in Lane : \E i \in DOMAIN log[c][l] : log[c][l][i] = p

Done(p) == Sent(p) \/ p \in failed

Settled(m) == m \in skipped \/ \A k \in 1..Chunks[m] : Done(<<m, k>>)

\* p comes no later than q
NotAfter(p, q) == p[1] < q[1] \/ (p[1] = q[1] /\ p[2] <= q[2])

\* A platform sees the published messages in the order of their publication and
\* the chunks of each in order, through dispatcher, queue, retries and reloads.
ChannelOrder ==
    \A c \in Channel, l \in Lane :
        LET s == log[c][l] IN
        \A i, j \in DOMAIN s :
            i < j /\ {s[i][1], s[j][1]} \cap Direct = {} => NotAfter(s[i], s[j])

\* "preserves ordering when a subsequent operation depends on the message having
\* been sent": what is published after SendMessage returned does not reach the
\* platform before that message.
SendMessageFirst ==
    \A c \in Channel :
        LET s == log[c]["text"] IN
        \A i, j \in DOMAIN s :
            i < j /\ s[i][1] \notin Direct /\ s[j][1] \in Direct => s[i][1] < s[j][1]

\* A retried piece reaches the platform at most once per attempt, so no more
\* than MaxRetries + 1 times.
CopiesBounded ==
    \A c \in Channel, l \in Lane :
        LET s == log[c][l] IN
        \A p \in {s[i] : i \in DOMAIN s} :
            Cardinality({i \in DOMAIN s : s[i] = p}) <= MaxRetries + 1

\* No hole in a long message: when a chunk was sent, each chunk before it was
\* sent or reported as failed; a cancellation only cuts off the end.
NoHole ==
    \A c \in Channel, l \in Lane : \A i \in DOMAIN log[c][l] :
        \A k \in 1..log[c][l][i][2] : Done(<<log[c][l][i][1], k>>)

\* The places where a published message can wait to be sent.
Places(m) ==
    {l \in Lane : m \in {busQ[l][i] : i \in DOMAIN busQ[l]}}
    \cup {d \in Dispatcher : disp[d] \in {"lookup", "enqueue"} /\ held[d] = m}
    \cup {w \in Worker : m \in {queue[w][i] : i \in DOMAIN queue[w]}}
    \cup {<<s>> : s \in {t \in Worker : cur[t] # <<>> /\ cur[t][1] = m}}

\* Two generations of dispatchers share the bus, and yet a published message is
\* in one place only; until a context is cancelled it is not lost: it waits
\* somewhere, or all its chunks were sent or reported as failed.
Accounted ==
    \A m \in offered \ Direct :
        /\ Cardinality(Places(m)) <= 1
        /\ ctxDone = {} /\ Places(m) = {} => Settled(m)

\* No Send of a worker runs when StopAll stops the channels, or later.
QuietAfterStop ==
    \A w \in Worker :
        w[1] < gen \/ (w[1] = gen /\ phase \in {"down", "failed"})
            => spc[w] \in {"none", "exited"}

\* "Close text worker queues -> wait for drain to complete": when StopAll has
\* returned, what the workers had queued has been sent or has failed.  (Does not
\* hold: a worker may choose the end of its context; QuietAfterStop is what does.)
StopDrains ==
    phase = "down" => \A w \in Worker : queue[w] = <<>>

\* Stopping the manager never sends on a closed queue nor closes one twice, the
\* panic that Close of the message bus is written to avoid.  (Does not hold:
\* EnqueueClosed and StopAgain can happen.)
NeverPanics == ~panicked

\* StopAll, which holds the manager's lock while it waits for its workers,
\* returns.
StopReturns == (phase = "cancelled") ~> (phase = "down" \/ panicked)

\* A published message is sent, fails after its retries or is skipped, unless
\* StopAll comes first.
Outcome ==
    \A m \in Message :
        (m \in offered /\ phase = "running")
            ~> (Settled(m) \/ phase = "cancelled" \/ panicked)

\* "services reloaded successfully": the same for a message that is on the bus
\* when the reload is over and the old dispatchers have stopped.
ReloadDelivers ==
    \A m \in Message :
        (gen > 1 /\ phase = "running" /\ (\A d \in Dispatcher : d[1] < gen => disp[d] = "stopped")
            /\ m \in {busQ[LaneOf[m]][i] : i \in DOMAIN busQ[LaneOf[m]]})
            ~> (Settled(m) \/ phase = "cancelled" \/ panicked)

\* What a platform sees of the pieces: their order, across a SendMessage and from the dispatcher to
\* the last retry, no hole in a long message, and no more copies than attempts.
PiecesInOrder == ChannelOrder /\ SendMessageFirst /\ NoHole /\ CopiesBounded

\* StopAll returns, and every message that is offered to a running manager has an outcome.
ManagerLive == StopReturns /\ Outcome
=============================================================================
