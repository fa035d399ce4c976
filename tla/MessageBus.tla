----------------------------- MODULE MessageBus -----------------------------
(***************************************************************************)
(* pkg/bus/bus.go: three buffered channels between the channel adapters,   *)
(* the agent loop and the channel manager.  Publishers and consumers run   *)
(* in their own goroutines; Close may run at any time, from any of them.   *)
(* Close never closes the three channels: it sets the flag `closed',       *)
(* closes the channel `done', and takes what it finds in the queues.       *)
(*                                                                         *)
(* The message <<p, n>> is the n-th that publisher p offers.               *)
(***************************************************************************)
EXTENDS Integers, Sequences, FiniteSets

CONSTANTS Publisher,   \* goroutines that call Publish*
          Closer,      \* goroutines that call Close
          Topics,      \* the channels, in the order in which Close drains them
          Capacity,    \* buffer size of a channel
          MaxSend      \* bound: messages offered by one publisher

Topic   == {Topics[i] : i \in DOMAIN Topics}
Message == Publisher \X (1..MaxSend)

ASSUME BusAssumption ==
    /\ Topics \in Seq(Topic) /\ Topics # <<>>
    /\ \A i, j \in DOMAIN Topics : Topics[i] = Topics[j] => i = j
    /\ Capacity \in Nat \ {0} /\ MaxSend \in Nat

VARIABLES
    queue,      \* queue[t]: the buffer of channel t
    closed,     \* the atomic flag
    doneClosed, \* channel done is closed
    drainAt,    \* index in Topics of the channel Close drains, 0 before that
    closer,     \* closer[k]: where goroutine k is in Close
    pub,        \* pub[p]: where goroutine p is in its Publish call
    topicOf,    \* topicOf[p]: the channel that call is for
    cancelled,  \* cancelled[p]: its context has ended
    sent,       \* sent[p]: how many messages p has offered
    consumer,   \* consumer[t]: where the one consumer of channel t is
    accepted,   \* the messages whose Publish returned nil
    late,       \* the messages offered after Close had set the flag
    delivered,  \* the messages a consumer received
    drained     \* the messages Close took

pubVars  == <<pub, topicOf, cancelled, sent, accepted, late>>
closeVars == <<closed, doneClosed, drainAt, closer, drained>>
conVars  == <<consumer, delivered>>
vars     == <<queue, pubVars, closeVars, conVars>>

Queued == UNION {{queue[t][i] : i \in DOMAIN queue[t]} : t \in Topic}

Init ==
    /\ queue = [t \in Topic |-> <<>>]
    /\ closed = FALSE /\ doneClosed = FALSE /\ drainAt = 0
    /\ closer = [k \in Closer |-> "outside"]
    /\ pub = [p \in Publisher |-> "outside"]
    /\ topicOf = [p \in Publisher |-> Topics[1]]
    /\ cancelled = [p \in Publisher |-> FALSE]
    /\ sent = [p \in Publisher |-> 0]
    /\ consumer = [t \in Topic |-> "busy"]
    /\ accepted = {} /\ late = {} /\ delivered = {} /\ drained = {}
-----------------------------------------------------------------------------
(* PublishInbound, PublishOutbound, PublishOutboundMedia.                  *)

\* the message that the call in progress offers
Offered(p) == <<p, sent[p]>>

Call(p, t) ==
    /\ pub[p] = "outside" /\ sent[p] < MaxSend
    /\ pub' = [pub EXCEPT ![p] = "start"]
    /\ topicOf' = [topicOf EXCEPT ![p] = t]
    /\ cancelled' = [cancelled EXCEPT ![p] = FALSE]
    /\ sent' = [sent EXCEPT ![p] = @ + 1]
    /\ late' = IF closed THEN late \cup {<<p, sent[p] + 1>>} ELSE late
    /\ UNCHANGED <<queue, accepted, closeVars, conVars>>

\* the caller's context ends: a timeout, or the end of the program
Cancel(p) ==
    /\ pub[p] # "outside" /\ ~cancelled[p]
    /\ cancelled' = [cancelled EXCEPT ![p] = TRUE]
    /\ UNCHANGED <<queue, pub, topicOf, sent, accepted, late, closeVars, conVars>>

ReturnTo(p, where) ==
    /\ pub' = [pub EXCEPT ![p] = where]
    /\ UNCHANGED <<topicOf, cancelled, sent, late>>

\* mb.closed.Load()
CheckClosed(p) ==
    /\ pub[p] = "start"
    /\ ReturnTo(p, IF closed THEN "outside" ELSE "context")
    /\ UNCHANGED <<queue, accepted, closeVars, conVars>>

\* ctx.Err()
CheckContext(p) ==
    /\ pub[p] = "context"
    /\ ReturnTo(p, IF cancelled[p] THEN "outside" ELSE "select")
    /\ UNCHANGED <<queue, accepted, closeVars, conVars>>


\* the select takes any case that is ready: there is room in the buffer ...
SelectSend(p) ==
    /\ pub[p] = "select" /\ Len(queue[topicOf[p]]) < Capacity
    /\ queue' = [queue EXCEPT ![topicOf[p]] = Append(@, Offered(p))]
    /\ accepted' = accepted \cup {Offered(p)}
    /\ ReturnTo(p, "outside")
    /\ UNCHANGED <<closeVars, conVars>>

\* a select without the case of the channel done
SelectStop_OnlyContext(p) ==
    /\ pub[p] = "select" /\ cancelled[p]
    /\ ReturnTo(p, "outside")
    /\ UNCHANGED <<queue, accepted, closeVars, conVars>>

\* ... or done is closed, or the context has ended: the call returns an error
SelectStop(p) ==
    /\ pub[p] = "select" /\ (doneClosed \/ cancelled[p])
    /\ ReturnTo(p, "outside")
    /\ UNCHANGED <<queue, accepted, closeVars, conVars>>

Publish(p) == CheckClosed(p) \/ CheckContext(p) \/ SelectSend(p) \/ SelectStop(p)
-----------------------------------------------------------------------------
(* ConsumeInbound, SubscribeOutbound, SubscribeOutboundMedia: one goroutine *)
(* per channel calls them in a loop.                                        *)

Consume(t) ==
    /\ consumer[t] = "busy"
    /\ consumer' = [consumer EXCEPT ![t] = "waiting"]
    /\ UNCHANGED <<queue, delivered, pubVars, closeVars>>


Receive(t) ==
    /\ consumer[t] = "waiting" /\ queue[t] # <<>>
    /\ delivered' = delivered \cup {Head(queue[t])}
    /\ queue' = [queue EXCEPT ![t] = Tail(@)]
    /\ consumer' = [consumer EXCEPT ![t] = "busy"]
    /\ UNCHANGED <<pubVars, closeVars>>

\* done is closed: (zero message, false), even if the buffer is not empty
ReceiveStopped(t) ==
    /\ consumer[t] = "waiting" /\ doneClosed
    /\ consumer' = [consumer EXCEPT ![t] = "busy"]
    /\ UNCHANGED <<queue, delivered, pubVars, closeVars>>

\* the consumer's context ends, and with it its loop
Leave(t) ==
    /\ consumer[t] # "gone"
    /\ consumer' = [consumer EXCEPT ![t] = "gone"]
    /\ UNCHANGED <<queue, delivered, pubVars, closeVars>>
-----------------------------------------------------------------------------
(* Close.                                                                   *)

\* a Close that does not look whether another one is running
CloseFlag_NoCompare(k) ==
    /\ closer[k] = "outside"
    /\ closed' = TRUE
    /\ closer' = [closer EXCEPT ![k] = "flagged"]
    /\ UNCHANGED <<queue, doneClosed, drainAt, drained, pubVars, conVars>>

\* closed.CompareAndSwap(false, true): the one that loses returns at once
CloseFlag(k) ==
    /\ closer[k] = "outside"
    /\ closed' = TRUE
    /\ closer' = [closer EXCEPT ![k] = IF closed THEN "returned" ELSE "flagged"]
    /\ UNCHANGED <<queue, doneClosed, drainAt, drained, pubVars, conVars>>

\* close(mb.done)
CloseDone(k) ==
    /\ closer[k] = "flagged"
    /\ doneClosed' = TRUE /\ drainAt' = 1
    /\ closer' = [closer EXCEPT ![k] = "draining"]
    /\ UNCHANGED <<queue, closed, drained, pubVars, conVars>>

\* a drain that leaves the message where it is
DrainOne_Peeks(k) ==
    LET t == Topics[drainAt] IN
    /\ closer[k] = "draining" /\ queue[t] # <<>>
    /\ drained' = drained \cup {Head(queue[t])}
    /\ drainAt' = drainAt + 1
    /\ closer' = [closer EXCEPT ![k] =
                     IF drainAt = Len(Topics) THEN "returned" ELSE @]
    /\ UNCHANGED <<queue, closed, doneClosed, pubVars, conVars>>

DrainOne(k) ==
    LET t == Topics[drainAt] IN
    /\ closer[k] = "draining" /\ queue[t] # <<>>
    /\ drained' = drained \cup {Head(queue[t])}
    /\ queue' = [queue EXCEPT ![t] = Tail(@)]
    /\ UNCHANGED <<closed, doneClosed, drainAt, closer, pubVars, conVars>>


\* default: this channel is empty
DrainNext(k) ==
    /\ closer[k] = "draining" /\ queue[Topics[drainAt]] = <<>>
    /\ drainAt' = drainAt + 1
    /\ closer' = [closer EXCEPT ![k] =
                     IF drainAt = Len(Topics) THEN "returned" ELSE @]
    /\ UNCHANGED <<queue, closed, doneClosed, drained, pubVars, conVars>>

Close(k) == CloseFlag(k) \/ CloseDone(k) \/ DrainOne(k) \/ DrainNext(k)
-----------------------------------------------------------------------------
Next ==
    \/ \E p \in Publisher :
          \/ \E t \in Topic : Call(p, t)
          \/ Cancel(p)
          \/ Publish(p)
    \/ \E t \in Topic : Consume(t) \/ Receive(t) \/ ReceiveStopped(t) \/ Leave(t)
    \/ \E k \in Closer : Close(k)

Spec == Init /\ [][Next]_vars

\* The Go scheduler runs every goroutine that can run.  Nobody has to call
\* Publish or Close, and no context has to end; a Close that began goes on.
Fairness ==
    /\ \A p \in Publisher : WF_vars(Publish(p))
    /\ \A t \in Topic : WF_vars(Consume(t)) /\ WF_vars(Receive(t) \/ ReceiveStopped(t))
    /\ \A k \in Closer : WF_vars(CloseDone(k) \/ DrainOne(k) \/ DrainNext(k))

FairSpec == Spec /\ Fairness
-----------------------------------------------------------------------------
(* Properties.                                                              *)

\* The variables hold values of the kinds the code declares, and no buffer
\* exceeds its size.
TypeOK ==
    /\ queue \in [Topic -> Seq(Message)]
    /\ \A t \in Topic : Len(queue[t]) <= Capacity
    /\ closed \in BOOLEAN /\ doneClosed \in BOOLEAN
    /\ drainAt \in 0..Len(Topics) + 1
    /\ closer \in [Closer -> {"outside", "flagged", "draining", "returned"}]
    /\ pub \in [Publisher -> {"outside", "start", "context", "select"}]
    /\ topicOf \in [Publisher -> Topic]
    /\ cancelled \in [Publisher -> BOOLEAN]
    /\ sent \in [Publisher -> 0..MaxSend]
    /\ consumer \in [Topic -> {"busy", "waiting", "gone"}]
    /\ accepted \subseteq Message /\ late \subseteq Message
    /\ delivered \subseteq Message /\ drained \subseteq Message

\* Whatever Close and the consumers race for, an accepted message is in exactly
\* one place: still buffered, received by a consumer, or taken by Close.
EachMessageOnce ==
    /\ accepted = Queued \cup delivered \cup drained
    /\ Queued \cap delivered = {} /\ Queued \cap drained = {}
    /\ delivered \cap drained = {}

\* done is closed once (closing it again would panic), although any number of
\* goroutines may call Close at once.
DoneClosedOnce ==
    /\ \A j, k \in Closer :
          closer[j] \in {"flagged", "draining"} /\ closer[k] \in {"flagged", "draining"}
             => j = k
    /\ \A k \in Closer : closer[k] = "flagged" => ~doneClosed

\* A message offered after Close set the flag is never accepted.
LateRefused == late \cap accepted = {}

\* After the drain, the buffers hold at most one message of each publisher, the
\* one it was offering when the flag was set: the drain misses no more than that.
AtMostOneStranded ==
    drainAt > Len(Topics) =>
        \A m1, m2 \in Queued : m1[1] = m2[1] => m1 = m2

\* "Drain loop ensures buffered messages are not silently dropped": when Close
\* has returned, every message whose Publish returned nil has been received, or
\* was at least taken and counted by the drain loop.  (Does not hold: a publisher
\* past its check may send after the drain; AtMostOneStranded says how many.)
CloseLosesNothing ==
    (\A k \in Closer : closer[k] = "returned") /\ (\A p \in Publisher : pub[p] = "outside")
        => accepted \subseteq delivered \cup drained

\* What Close keeps to, however many call it while publishers are at work: done is closed once, nothing
\* is accepted late, and the drain loop misses no more than the sends under way.
CloseSound == DoneClosedOnce /\ LateRefused /\ AtMostOneStranded

\* No publisher stays blocked on a full buffer once the bus is closed or its
\* own context has ended, even if nobody consumes any more.
PublishReturns ==
    \A p \in Publisher :
        (doneClosed \/ cancelled[p]) ~> (pub[p] = "outside")

\* While the bus is open and its consumer stays, every accepted message is
\* received.
Delivery ==
    \A t \in Topic, m \in Message :
        (m \in {queue[t][i] : i \in DOMAIN queue[t]})
            ~> (m \in delivered \/ doneClosed \/ consumer[t] = "gone")

\* Both: publishers and closers race without a lock, and yet no publisher and no message waits for ever.
BusLive == PublishReturns /\ Delivery
=============================================================================
