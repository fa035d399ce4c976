---------------------------- MODULE MessageProofs ----------------------------
(***************************************************************************)
(* Proofs about messages on their way: MessageBus, for any publishers,     *)
(* closers and channels, any capacity and any number of messages; and      *)
(* MessageSplit, for texts of any length and any limit.                    *)
(***************************************************************************)
EXTENDS MessageBus, MessageSplit, FiniteSetTheorems, SequenceTheorems, WellFoundedInduction, TLAPS

-----------------------------------------------------------------------------
(* The bus (MessageBus).  Queues as sets of messages.                      *)

At(q) == {q[i] : i \in DOMAIN q}

NoRepeat(q) == \A i, j \in DOMAIN q : q[i] = q[j] => i = j

\* A send puts its message at the end of the buffer.
LEMMA AppendAt ==
  ASSUME NEW S, NEW q \in Seq(S), NEW m \in S
  PROVE  /\ Append(q, m) \in Seq(S) /\ Len(Append(q, m)) = Len(q) + 1
         /\ At(Append(q, m)) = At(q) \cup {m}
         /\ NoRepeat(q) /\ m \notin At(q) => NoRepeat(Append(q, m))
<1> DEFINE r == Append(q, m)
<1>1. /\ r \in Seq(S) /\ Len(r) = Len(q) + 1 /\ Len(q) \in Nat
      /\ \A i \in 1..Len(q) : r[i] = q[i]
      /\ r[Len(q) + 1] = m
  BY AppendProperties, LenProperties
<1>2. DOMAIN r = DOMAIN q \cup {Len(q) + 1} /\ DOMAIN q = 1..Len(q)
  BY <1>1, LenProperties
<1> HIDE DEF r
<1>3. At(r) = At(q) \cup {m}
  BY <1>1, <1>2 DEF At
<1>4. NoRepeat(q) /\ m \notin At(q) => NoRepeat(r)
  BY <1>1, <1>2 DEF At, NoRepeat
<1> QED BY <1>1, <1>3, <1>4 DEF r

\* A receive takes the first message out of the buffer.
LEMMA TailAt ==
  ASSUME NEW S, NEW q \in Seq(S), q # <<>>
  PROVE  /\ Tail(q) \in Seq(S) /\ Len(Tail(q)) = Len(q) - 1
         /\ Head(q) \in S /\ Head(q) \in At(q)
         /\ NoRepeat(q) => At(Tail(q)) = At(q) \ {Head(q)} /\ NoRepeat(Tail(q))
<1> DEFINE r == Tail(q)
<1>1. /\ r \in Seq(S) /\ Len(r) = Len(q) - 1 /\ Len(q) \in Nat /\ Len(q) # 0
      /\ \A i \in 1..Len(r) : r[i] = q[i + 1]
      /\ Head(q) = q[1] /\ Head(q) \in S
  BY HeadTailProperties, EmptySeq, LenProperties
<1>2. DOMAIN r = 1..Len(q) - 1 /\ DOMAIN q = 1..Len(q)
  BY <1>1, LenProperties
<1> HIDE DEF r
<1>3. Head(q) \in At(q)
  BY <1>1, <1>2 DEF At
<1>4. ASSUME NoRepeat(q) PROVE At(r) = At(q) \ {Head(q)} /\ NoRepeat(r)
  <2>1. ASSUME NEW x \in At(r) PROVE x \in At(q) \ {Head(q)}
    <3>1. PICK i \in 1..Len(q) - 1 : x = q[i + 1]
      BY <1>1, <1>2 DEF At
    <3>2. i + 1 \in DOMAIN q /\ 1 \in DOMAIN q /\ i + 1 # 1
      BY <1>1, <1>2
    <3> QED BY <1>1, <1>4, <3>1, <3>2 DEF At, NoRepeat
  <2>2. ASSUME NEW x \in At(q) \ {Head(q)} PROVE x \in At(r)
    <3>1. PICK i \in 1..Len(q) : x = q[i] /\ i # 1
      BY <1>1, <1>2 DEF At
    <3>2. i - 1 \in 1..Len(r) /\ r[i - 1] = q[(i - 1) + 1]
      BY <1>1, <3>1
    <3>3. (i - 1) + 1 = i
      BY <3>1
    <3> QED BY <1>1, <1>2, <3>1, <3>2, <3>3 DEF At
  <2>3. NoRepeat(r)
    <3>1. SUFFICES ASSUME NEW i \in DOMAIN r, NEW j \in DOMAIN r, i # j PROVE r[i] # r[j]
      BY DEF NoRepeat
    <3>2. i + 1 \in DOMAIN q /\ j + 1 \in DOMAIN q /\ i + 1 # j + 1
      BY <1>1, <1>2, <3>1
    <3>3. r[i] = q[i + 1] /\ r[j] = q[j + 1]
      BY <1>1, <1>2, <3>1
    <3> QED BY <1>4, <3>2, <3>3 DEF NoRepeat
  <2> QED BY <2>1, <2>2, <2>3
<1> QED BY <1>1, <1>3, <1>4 DEF r
-----------------------------------------------------------------------------
(* The inductive invariant.                                                *)

InFlight(p) == pub[p] \in {"context", "select"}

TypeInv ==
    /\ TypeOK
    /\ \A p \in Publisher : pub[p] # "outside" => sent[p] # 0

\* One Close at a time gets past the flag; the others return.
CloseInv ==
    /\ drainAt > 0 => doneClosed
    /\ doneClosed => closed
    /\ \A k \in Closer :
          /\ closer[k] \in {"flagged", "draining"} => closed
          /\ closer[k] = "flagged" => drainAt = 0
          /\ closer[k] = "draining" => drainAt \in 1..Len(Topics)
    /\ DoneClosedOnce

\* No message twice in the buffers; the one that is offered is in none.
PlaceInv ==
    /\ \A t \in Topic : NoRepeat(queue[t])
    /\ \A t, u \in Topic : t # u => At(queue[t]) \cap At(queue[u]) = {}
    /\ EachMessageOnce
    /\ \A m \in accepted \cup late : m[2] <= sent[m[1]]
    /\ \A p \in Publisher : pub[p] # "outside" => Offered(p) \notin accepted

\* A publisher past the check of the flag offers a message from before Close.
LateInv ==
    /\ LateRefused
    /\ late # {} => closed
    /\ \A p \in Publisher : InFlight(p) => Offered(p) \notin late

\* The messages in the buffers that Close has drained already: a publisher has
\* at most one there, and has returned from the call that left it.
Missed == UNION {At(queue[Topics[i]]) : i \in 1..drainAt - 1}

MissedInv ==
    /\ \A m1, m2 \in Missed : m1[1] = m2[1] => m1 = m2
    /\ \A p \in Publisher, m \in Missed : InFlight(p) => m[1] # p

LEMMA TypeInit == BusAssumption /\ Init => TypeInv
<1> SUFFICES ASSUME BusAssumption, Init PROVE TypeInv
  OBVIOUS
<1>1. 1 \in DOMAIN Topics /\ Len(Topics) \in Nat /\ Len(Topics) > 0
  BY EmptySeq, LenProperties DEF BusAssumption
<1>2. Topics[1] \in Topic
  BY <1>1 DEF Topic
<1>3. \A t \in Topic : queue[t] = <<>> /\ Len(queue[t]) = 0
  BY EmptySeq DEF Init
<1>4. queue \in [Topic -> Seq(Message)]
  BY EmptySeq DEF Init
<1>5. 0 <= Capacity /\ 0 \in 0..MaxSend /\ 0 \in 0..Len(Topics) + 1
  BY <1>1 DEF BusAssumption
<1>6. /\ topicOf \in [Publisher -> Topic] /\ sent \in [Publisher -> 0..MaxSend]
      /\ \A p \in Publisher : pub[p] = "outside"
  BY <1>2, <1>5 DEF Init
<1> QED BY <1>3, <1>4, <1>5, <1>6 DEF Init, TypeInv, TypeOK

LEMMA TypeStep == BusAssumption /\ TypeInv /\ CloseInv /\ [Next]_vars => TypeInv'
<1> SUFFICES ASSUME BusAssumption, TypeInv, CloseInv, [Next]_vars PROVE TypeInv'
  OBVIOUS
<1> USE DEF TypeInv, TypeOK
<1>0. /\ Capacity \in Nat /\ MaxSend \in Nat /\ Len(Topics) \in Nat
      /\ \A p \in Publisher : sent[p] \in Nat
  BY LenProperties DEF BusAssumption
<1>1. ASSUME NEW p \in Publisher, NEW t \in Topic, Call(p, t) PROVE TypeInv'
  <2>1. /\ sent[p] + 1 \in 0..MaxSend /\ sent[p] + 1 # 0
        /\ <<p, sent[p] + 1>> \in Message
    BY <1>0, <1>1 DEF Call, Message
  <2> QED BY <1>1, <2>1 DEF Call, closeVars, conVars
<1>2. ASSUME NEW p \in Publisher, Cancel(p) PROVE TypeInv'
  BY <1>2 DEF Cancel, closeVars, conVars
<1>3. ASSUME NEW p \in Publisher, CheckClosed(p) \/ CheckContext(p) \/ SelectStop(p)
      PROVE TypeInv'
  BY <1>3 DEF CheckClosed, CheckContext, SelectStop, ReturnTo, closeVars, conVars
<1>4. ASSUME NEW p \in Publisher, SelectSend(p) PROVE TypeInv'
  <2>1. Offered(p) \in Message
    BY <1>0, <1>4 DEF SelectSend, Offered, Message
  <2>2. /\ Append(queue[topicOf[p]], Offered(p)) \in Seq(Message)
        /\ Len(Append(queue[topicOf[p]], Offered(p))) = Len(queue[topicOf[p]]) + 1
    BY <2>1, AppendAt
  <2>3. Len(queue[topicOf[p]]) + 1 <= Capacity
    BY <1>0, <1>4, LenProperties DEF SelectSend
  <2> QED BY <1>4, <2>1, <2>2, <2>3 DEF SelectSend, ReturnTo, closeVars, conVars
<1>5. ASSUME NEW t \in Topic, Consume(t) \/ ReceiveStopped(t) \/ Leave(t) PROVE TypeInv'
  BY <1>5 DEF Consume, ReceiveStopped, Leave, pubVars, closeVars
<1>6. ASSUME NEW t \in Topic, Receive(t) PROVE TypeInv'
  <2>1. /\ Tail(queue[t]) \in Seq(Message) /\ Head(queue[t]) \in Message
        /\ Len(Tail(queue[t])) <= Capacity
    BY <1>0, <1>6, TailAt, LenProperties DEF Receive
  <2> QED BY <1>6, <2>1 DEF Receive, pubVars, closeVars
<1>7. ASSUME NEW k \in Closer, CloseFlag(k) \/ CloseDone(k) \/ DrainNext(k) PROVE TypeInv'
  <2>1. CASE CloseFlag(k)
    BY <2>1 DEF CloseFlag, pubVars, conVars
  <2>2. CASE CloseDone(k)
    <3>1. 1 \in 0..Len(Topics) + 1
      BY <1>0
    <3> QED BY <2>2, <3>1 DEF CloseDone, pubVars, conVars
  <2>3. CASE DrainNext(k)
    <3>1. drainAt + 1 \in 0..Len(Topics) + 1
      BY <1>0, <2>3 DEF DrainNext, CloseInv
    <3> QED BY <2>3, <3>1 DEF DrainNext, pubVars, conVars
  <2> QED BY <1>7, <2>1, <2>2, <2>3
<1>8. ASSUME NEW k \in Closer, DrainOne(k) PROVE TypeInv'
  <2>1. Topics[drainAt] \in Topic
    BY <1>0, <1>8, LenProperties DEF DrainOne, CloseInv, Topic, BusAssumption
  <2>2. /\ Tail(queue[Topics[drainAt]]) \in Seq(Message)
        /\ Head(queue[Topics[drainAt]]) \in Message
        /\ Len(Tail(queue[Topics[drainAt]])) <= Capacity
    BY <1>0, <1>8, <2>1, TailAt, LenProperties DEF DrainOne
  <2> QED BY <1>8, <2>1, <2>2 DEF DrainOne, pubVars, conVars
<1>9. CASE UNCHANGED vars
  BY <1>9 DEF vars, pubVars, closeVars, conVars
<1> QED
  BY <1>1, <1>2, <1>3, <1>4, <1>5, <1>6, <1>7, <1>8, <1>9
  DEF Next, Publish, Close

LEMMA CloseInit == BusAssumption /\ Init => CloseInv
BY DEF Init, CloseInv, DoneClosedOnce

\* Only Close changes what CloseInv is about.
LEMMA CloseStep == BusAssumption /\ TypeInv /\ CloseInv /\ [Next]_vars => CloseInv'
<1> SUFFICES ASSUME BusAssumption, TypeInv, CloseInv, [Next]_vars PROVE CloseInv'
  OBVIOUS
<1>0. /\ Len(Topics) \in Nat \ {0} /\ drainAt \in Nat
      /\ closer \in [Closer -> {"outside", "flagged", "draining", "returned"}]
      /\ closed \in BOOLEAN /\ doneClosed \in BOOLEAN
  BY EmptySeq, LenProperties DEF BusAssumption, TypeInv, TypeOK
<1>1. ASSUME NEW k \in Closer, CloseFlag(k) PROVE CloseInv'
  BY <1>0, <1>1 DEF CloseFlag, CloseInv, DoneClosedOnce
<1>2. ASSUME NEW k \in Closer, CloseDone(k) PROVE CloseInv'
  BY <1>0, <1>2 DEF CloseDone, CloseInv, DoneClosedOnce
<1>3. ASSUME NEW k \in Closer, DrainNext(k) PROVE CloseInv'
  <2>1. drainAt \in 1..Len(Topics) /\ drainAt' = drainAt + 1
    BY <1>3 DEF DrainNext, CloseInv
  <2>2. ASSUME NEW j \in Closer PROVE closer'[j] # "flagged"
    BY <1>0, <1>3, <2>1 DEF DrainNext, CloseInv
  <2>3. ASSUME NEW j \in Closer, closer'[j] = "draining"
        PROVE  j = k /\ drainAt # Len(Topics)
    BY <1>0, <1>3, <2>3 DEF DrainNext, CloseInv, DoneClosedOnce
  <2> QED BY <1>0, <1>3, <2>1, <2>2, <2>3 DEF DrainNext, CloseInv, DoneClosedOnce
<1>4. ASSUME NEW k \in Closer, DrainOne(k) PROVE CloseInv'
  BY <1>4 DEF DrainOne, CloseInv, DoneClosedOnce
<1>5. CASE UNCHANGED closeVars
  BY <1>5 DEF closeVars, CloseInv, DoneClosedOnce
<1>6. UNCHANGED vars => UNCHANGED closeVars
  BY DEF vars
<1>7. (\E p \in Publisher : (\E t \in Topic : Call(p, t)) \/ Cancel(p) \/ Publish(p))
         => UNCHANGED closeVars
  BY DEF Call, Cancel, Publish, CheckClosed, CheckContext, SelectSend, SelectStop
<1>8. (\E t \in Topic : Consume(t) \/ Receive(t) \/ ReceiveStopped(t) \/ Leave(t))
         => UNCHANGED closeVars
  BY DEF Consume, Receive, ReceiveStopped, Leave
<1> QED
  BY <1>1, <1>2, <1>3, <1>4, <1>5, <1>6, <1>7, <1>8 DEF Next, Close
-----------------------------------------------------------------------------
(* What the steps that move a message do to the buffers.                   *)

LEMMA QueuedAt ==
  /\ Queued = UNION {At(queue[t]) : t \in Topic}
  /\ Queued' = UNION {At(queue'[t]) : t \in Topic}
BY DEF Queued, At

LEMMA SendEffect ==
  ASSUME BusAssumption, TypeInv, NEW p \in Publisher, SelectSend(p)
  PROVE  /\ topicOf[p] \in Topic /\ Offered(p) \in Message
         /\ At(queue'[topicOf[p]]) = At(queue[topicOf[p]]) \cup {Offered(p)}
         /\ NoRepeat(queue[topicOf[p]]) /\ Offered(p) \notin At(queue[topicOf[p]])
               => NoRepeat(queue'[topicOf[p]])
         /\ \A u \in Topic : u # topicOf[p] => queue'[u] = queue[u]
         /\ Queued' = Queued \cup {Offered(p)}
<1> DEFINE t == topicOf[p]
           m == Offered(p)
<1>1. /\ t \in Topic /\ queue \in [Topic -> Seq(Message)] /\ queue[t] \in Seq(Message)
      /\ sent[p] \in 1..MaxSend
  BY DEF SelectSend, TypeInv, TypeOK, BusAssumption
<1>2. m \in Message
  BY <1>1 DEF Offered, Message
<1>3. /\ queue'[t] = Append(queue[t], m)
      /\ \A u \in Topic : u # t => queue'[u] = queue[u]
  BY <1>1 DEF SelectSend
<1>4. /\ At(queue'[t]) = At(queue[t]) \cup {m}
      /\ NoRepeat(queue[t]) /\ m \notin At(queue[t]) => NoRepeat(queue'[t])
  BY <1>1, <1>2, <1>3, AppendAt
<1> HIDE DEF t, m
<1>5. Queued' = Queued \cup {m}
  <2>1. ASSUME NEW x PROVE x \in Queued' <=> x \in Queued \/ x = m
    <3>1. x \in Queued' => x \in Queued \/ x = m
      BY <1>1, <1>3, <1>4, QueuedAt
    <3>2. x = m => x \in Queued'
      BY <1>1, <1>4, QueuedAt
    <3>3. x \in Queued => x \in Queued'
      BY <1>1, <1>3, <1>4, QueuedAt
    <3> QED BY <3>1, <3>2, <3>3
  <2> QED BY <2>1
<1> QED BY <1>1, <1>2, <1>3, <1>4, <1>5 DEF t, m

LEMMA TakeEffect ==
  ASSUME TypeInv, PlaceInv, NEW t \in Topic, queue[t] # <<>>,
         queue' = [queue EXCEPT ![t] = Tail(queue[t])]
  PROVE  /\ Head(queue[t]) \in Queued /\ Head(queue[t]) \in At(queue[t])
         /\ At(queue'[t]) = At(queue[t]) \ {Head(queue[t])}
         /\ NoRepeat(queue'[t])
         /\ \A u \in Topic : u # t => queue'[u] = queue[u]
         /\ \A u \in Topic : At(queue'[u]) \subseteq At(queue[u])
         /\ Queued' = Queued \ {Head(queue[t])}
<1> DEFINE h == Head(queue[t])
<1>1. /\ queue \in [Topic -> Seq(Message)] /\ queue[t] \in Seq(Message)
      /\ NoRepeat(queue[t])
  BY DEF TypeInv, TypeOK, PlaceInv
<1>2. /\ queue'[t] = Tail(queue[t])
      /\ \A u \in Topic : u # t => queue'[u] = queue[u]
  BY <1>1
<1>3. /\ h \in At(queue[t]) /\ At(queue'[t]) = At(queue[t]) \ {h}
      /\ NoRepeat(queue'[t])
  BY <1>1, <1>2, TailAt
<1> HIDE DEF h
<1>4. \A u \in Topic : u # t => h \notin At(queue[u])
  BY <1>3 DEF PlaceInv
<1>5. Queued' = Queued \ {h}
  <2>1. ASSUME NEW x PROVE x \in Queued' <=> x \in Queued /\ x # h
    <3>1. x \in Queued' => x \in Queued /\ x # h
      BY <1>2, <1>3, <1>4, QueuedAt
    <3>2. x \in Queued /\ x # h => x \in Queued'
      BY <1>2, <1>3, QueuedAt
    <3> QED BY <3>1, <3>2
  <2> QED BY <2>1
<1>6. h \in Queued
  BY <1>3, QueuedAt
<1> QED BY <1>2, <1>3, <1>5, <1>6 DEF h
-----------------------------------------------------------------------------
(* Each message in one place.                                              *)

LEMMA PlaceInit == BusAssumption /\ Init => PlaceInv
<1> SUFFICES ASSUME BusAssumption, Init PROVE PlaceInv
  OBVIOUS
<1>1. \A t \in Topic : queue[t] = <<>> /\ DOMAIN queue[t] = {}
  BY EmptySeq DEF Init
<1>2. \A t \in Topic : At(queue[t]) = {} /\ NoRepeat(queue[t])
  BY <1>1 DEF At, NoRepeat
<1>3. Queued = {}
  BY <1>2, QueuedAt
<1> QED BY <1>2, <1>3 DEF Init, PlaceInv, EachMessageOnce

LEMMA PlaceStep ==
  BusAssumption /\ TypeInv /\ CloseInv /\ PlaceInv /\ [Next]_vars => PlaceInv'
<1> SUFFICES ASSUME BusAssumption, TypeInv, CloseInv, PlaceInv, [Next]_vars
             PROVE  PlaceInv'
  OBVIOUS
<1>0. /\ sent \in [Publisher -> 0..MaxSend] /\ MaxSend \in Nat
      /\ pub \in [Publisher -> {"outside", "start", "context", "select"}]
      /\ \A m \in Message : m[1] \in Publisher /\ m[2] \in Nat
      /\ accepted \subseteq Message /\ late \subseteq Message
  BY DEF TypeInv, TypeOK, BusAssumption, Message
<1>1. ASSUME NEW p \in Publisher, NEW t \in Topic, Call(p, t) PROVE PlaceInv'
  <2>1. /\ sent'[p] = sent[p] + 1 /\ \A q \in Publisher : q # p => sent'[q] = sent[q]
        /\ late' \subseteq late \cup {<<p, sent[p] + 1>>}
        /\ \A q \in Publisher : q # p => pub'[q] = pub[q]
        /\ UNCHANGED <<queue, accepted, delivered, drained>>
    BY <1>0, <1>1 DEF Call, closeVars, conVars
  <2>2. \A m \in accepted \cup late' : m[2] <= sent'[m[1]]
    BY <1>0, <2>1 DEF PlaceInv
  <2>3. <<p, sent[p] + 1>> \notin accepted
    BY <1>0 DEF PlaceInv
  <2>4. \A q \in Publisher : pub'[q] # "outside" => <<q, sent'[q]>> \notin accepted
    BY <2>1, <2>3 DEF PlaceInv, Offered
  <2>5. EachMessageOnce'
    BY <2>1, QueuedAt DEF PlaceInv, EachMessageOnce
  <2>6. \A q \in Publisher : Offered(q)' = <<q, sent'[q]>>
    BY DEF Offered
  <2>7. /\ \A u \in Topic : NoRepeat(queue'[u])
        /\ \A u, v \in Topic : u # v => At(queue'[u]) \cap At(queue'[v]) = {}
    BY <2>1 DEF PlaceInv
  <2> QED BY <2>1, <2>2, <2>4, <2>5, <2>6, <2>7 DEF PlaceInv
<1>2. ASSUME NEW p \in Publisher,
             Cancel(p) \/ CheckClosed(p) \/ CheckContext(p) \/ SelectStop(p)
      PROVE  PlaceInv'
  <2>1. /\ \A q \in Publisher : pub'[q] # "outside" => pub[q] # "outside"
        /\ UNCHANGED <<queue, sent, accepted, late, delivered, drained>>
    BY <1>0, <1>2
    DEF Cancel, CheckClosed, CheckContext, SelectStop, ReturnTo, closeVars, conVars
  <2>2. EachMessageOnce'
    BY <2>1, QueuedAt DEF PlaceInv, EachMessageOnce
  <2> QED BY <2>1, <2>2 DEF PlaceInv, Offered
<1>3. ASSUME NEW p \in Publisher, SelectSend(p) PROVE PlaceInv'
  <2> DEFINE m == Offered(p)
  <2>1. /\ pub'[p] = "outside" /\ \A q \in Publisher : q # p => pub'[q] = pub[q]
        /\ accepted' = accepted \cup {m} /\ m \notin accepted
        /\ UNCHANGED <<sent, late, delivered, drained>>
    BY <1>0, <1>3 DEF SelectSend, ReturnTo, PlaceInv, closeVars, conVars
  <2>2. m[1] = p /\ m[2] = sent[p]
    BY DEF Offered
  <2>3. \A u \in Topic : m \notin At(queue[u])
    BY <2>1, QueuedAt DEF PlaceInv, EachMessageOnce
  <2>4. /\ \A u \in Topic : NoRepeat(queue'[u])
        /\ \A u, v \in Topic : u # v => At(queue'[u]) \cap At(queue'[v]) = {}
    <3>1. /\ At(queue'[topicOf[p]]) = At(queue[topicOf[p]]) \cup {m}
          /\ NoRepeat(queue'[topicOf[p]]) /\ topicOf[p] \in Topic
          /\ \A u \in Topic : u # topicOf[p] => queue'[u] = queue[u]
      BY <1>3, <2>3, SendEffect DEF PlaceInv
    <3> HIDE DEF m
    <3>2. \A u \in Topic : NoRepeat(queue'[u])
      BY <3>1 DEF PlaceInv
    <3>3. ASSUME NEW u \in Topic, NEW v \in Topic, u # v
          PROVE  At(queue'[u]) \cap At(queue'[v]) = {}
      <4>1. CASE u = topicOf[p]
        BY <2>3, <3>1, <3>3, <4>1 DEF PlaceInv
      <4>2. CASE v = topicOf[p]
        BY <2>3, <3>1, <3>3, <4>2 DEF PlaceInv
      <4>3. CASE u # topicOf[p] /\ v # topicOf[p]
        BY <3>1, <3>3, <4>3 DEF PlaceInv
      <4> QED BY <4>1, <4>2, <4>3
    <3> QED BY <3>2, <3>3
  <2>5. EachMessageOnce'
    BY <1>3, <2>1, SendEffect DEF PlaceInv, EachMessageOnce
  <2>6. \A q \in Publisher : q # p => Offered(q) # m
    BY DEF Offered
  <2>7. \A x \in accepted' \cup late' : x[2] <= sent'[x[1]]
    BY <1>0, <2>1, <2>2 DEF PlaceInv
  <2>8. \A q \in Publisher : pub'[q] # "outside" => Offered(q) \notin accepted'
    BY <2>1, <2>6 DEF PlaceInv
  <2>9. \A q \in Publisher : Offered(q)' = Offered(q)
    BY <2>1 DEF Offered
  <2> QED BY <2>4, <2>5, <2>7, <2>8, <2>9 DEF PlaceInv
<1>4. ASSUME NEW t \in Topic, Receive(t) PROVE PlaceInv'
  <2>1. /\ queue[t] # <<>> /\ queue' = [queue EXCEPT ![t] = Tail(queue[t])]
        /\ delivered' = delivered \cup {Head(queue[t])}
        /\ UNCHANGED <<pub, sent, accepted, late, drained>>
    BY <1>4 DEF Receive, pubVars, closeVars
  <2>2. EachMessageOnce'
    <3>1. Head(queue[t]) \in Queued /\ Queued' = Queued \ {Head(queue[t])}
      BY <2>1, TakeEffect
    <3> QED BY <2>1, <3>1 DEF PlaceInv, EachMessageOnce
  <2>3. /\ \A u \in Topic : NoRepeat(queue'[u])
        /\ \A u, v \in Topic : u # v => At(queue'[u]) \cap At(queue'[v]) = {}
    BY <2>1, TakeEffect DEF PlaceInv
  <2> QED BY <2>1, <2>2, <2>3 DEF PlaceInv, Offered
<1>5. ASSUME NEW k \in Closer, DrainOne(k) PROVE PlaceInv'
  <2> DEFINE t == Topics[drainAt]
  <2>1. t \in Topic
    BY <1>5, LenProperties DEF DrainOne, CloseInv, Topic, BusAssumption
  <2>2. /\ queue[t] # <<>> /\ queue' = [queue EXCEPT ![t] = Tail(queue[t])]
        /\ drained' = drained \cup {Head(queue[t])}
        /\ UNCHANGED <<pub, sent, accepted, late, delivered>>
    BY <1>5 DEF DrainOne, pubVars, conVars
  <2> HIDE DEF t
  <2>3. EachMessageOnce'
    <3>1. Head(queue[t]) \in Queued /\ Queued' = Queued \ {Head(queue[t])}
      BY <2>1, <2>2, TakeEffect
    <3> QED BY <2>2, <3>1 DEF PlaceInv, EachMessageOnce
  <2>4. /\ \A u \in Topic : NoRepeat(queue'[u])
        /\ \A u, v \in Topic : u # v => At(queue'[u]) \cap At(queue'[v]) = {}
    BY <2>1, <2>2, TakeEffect DEF PlaceInv
  <2> QED BY <2>2, <2>3, <2>4 DEF PlaceInv, Offered
<1>6. CASE UNCHANGED <<queue, pub, sent, accepted, late, delivered, drained>>
  <2>1. EachMessageOnce'
    BY <1>6, QueuedAt DEF PlaceInv, EachMessageOnce
  <2> QED BY <1>6, <2>1 DEF PlaceInv, Offered
<1>7. ASSUME NEW t \in Topic, Consume(t) \/ ReceiveStopped(t) \/ Leave(t) PROVE PlaceInv'
  BY <1>6, <1>7 DEF Consume, ReceiveStopped, Leave, pubVars, closeVars
<1>8. ASSUME NEW k \in Closer, CloseFlag(k) \/ CloseDone(k) \/ DrainNext(k) PROVE PlaceInv'
  BY <1>6, <1>8 DEF CloseFlag, CloseDone, DrainNext, pubVars, conVars
<1>9. CASE UNCHANGED vars
  BY <1>6, <1>9 DEF vars, pubVars, closeVars, conVars
<1> QED
  BY <1>1, <1>2, <1>3, <1>4, <1>5, <1>7, <1>8, <1>9 DEF Next, Publish, Close
-----------------------------------------------------------------------------
(* What is offered after Close set the flag.                               *)

LEMMA LateInit == Init => LateInv
BY DEF Init, LateInv, LateRefused, InFlight

LEMMA LateStep ==
  BusAssumption /\ TypeInv /\ CloseInv /\ PlaceInv /\ LateInv /\ [Next]_vars => LateInv'
<1> SUFFICES ASSUME BusAssumption, TypeInv, CloseInv, PlaceInv, LateInv, [Next]_vars
             PROVE  LateInv'
  OBVIOUS
<1>0. /\ sent \in [Publisher -> 0..MaxSend] /\ MaxSend \in Nat
      /\ pub \in [Publisher -> {"outside", "start", "context", "select"}]
      /\ closed \in BOOLEAN
      /\ \A m \in Message : m[1] \in Publisher /\ m[2] \in Nat
      /\ accepted \subseteq Message /\ late \subseteq Message
  BY DEF TypeInv, TypeOK, BusAssumption, Message
<1>1. ASSUME NEW p \in Publisher, NEW t \in Topic, Call(p, t) PROVE LateInv'
  <2> DEFINE n == <<p, sent[p] + 1>>
  <2>1. /\ late' = IF closed THEN late \cup {n} ELSE late
        /\ pub'[p] = "start" /\ \A q \in Publisher : q # p => pub'[q] = pub[q]
        /\ \A q \in Publisher : q # p => sent'[q] = sent[q]
        /\ UNCHANGED <<accepted, closed>>
    BY <1>0, <1>1 DEF Call, closeVars, conVars
  <2>2. n \notin accepted
    BY <1>0 DEF PlaceInv
  <2>3. \A q \in Publisher : q # p => <<q, sent[q]>> # n
    OBVIOUS
  <2> HIDE DEF n
  <2>4. LateRefused'
    BY <2>1, <2>2 DEF LateInv, LateRefused
  <2>5. late' # {} => closed'
    BY <2>1 DEF LateInv
  <2>6. ASSUME NEW q \in Publisher, InFlight(q)' PROVE Offered(q)' \notin late'
    <3>1. q # p /\ InFlight(q) /\ Offered(q)' = <<q, sent[q]>> /\ Offered(q) = <<q, sent[q]>>
      BY <2>1, <2>6 DEF InFlight, Offered
    <3> QED BY <2>1, <2>3, <3>1 DEF LateInv
  <2> QED BY <2>4, <2>5, <2>6 DEF LateInv
<1>2. ASSUME NEW p \in Publisher, CheckClosed(p) PROVE LateInv'
  <2>1. /\ pub'[p] = IF closed THEN "outside" ELSE "context"
        /\ \A q \in Publisher : q # p => pub'[q] = pub[q]
        /\ UNCHANGED <<sent, late, accepted, closed>>
    BY <1>0, <1>2 DEF CheckClosed, ReturnTo, closeVars
  <2>2. ~closed => late = {}
    BY DEF LateInv
  <2> QED BY <2>1, <2>2 DEF LateInv, LateRefused, InFlight, Offered
<1>3. ASSUME NEW p \in Publisher, Cancel(p) \/ CheckContext(p) \/ SelectStop(p)
      PROVE LateInv'
  <2>1. /\ \A q \in Publisher : InFlight(q)' => InFlight(q)
        /\ UNCHANGED <<sent, late, accepted, closed>>
    BY <1>0, <1>3
    DEF Cancel, CheckContext, SelectStop, ReturnTo, closeVars, InFlight
  <2> QED BY <2>1 DEF LateInv, LateRefused, Offered
<1>4. ASSUME NEW p \in Publisher, SelectSend(p) PROVE LateInv'
  <2>1. /\ InFlight(p) /\ \A q \in Publisher : InFlight(q)' => InFlight(q)
        /\ accepted' = accepted \cup {Offered(p)}
        /\ UNCHANGED <<sent, late, closed>>
    BY <1>0, <1>4 DEF SelectSend, ReturnTo, closeVars, InFlight
  <2> QED BY <2>1 DEF LateInv, LateRefused, Offered
<1>5. ASSUME NEW k \in Closer, CloseFlag(k) PROVE LateInv'
  BY <1>5 DEF CloseFlag, pubVars, LateInv, LateRefused, InFlight, Offered
<1>6. CASE UNCHANGED <<pub, sent, late, accepted, closed>>
  BY <1>6 DEF LateInv, LateRefused, InFlight, Offered
<1>7. ASSUME NEW k \in Closer, CloseDone(k) \/ DrainOne(k) \/ DrainNext(k) PROVE LateInv'
  BY <1>6, <1>7 DEF CloseDone, DrainOne, DrainNext, pubVars
<1>8. ASSUME NEW t \in Topic, Consume(t) \/ Receive(t) \/ ReceiveStopped(t) \/ Leave(t)
      PROVE LateInv'
  BY <1>6, <1>8 DEF Consume, Receive, ReceiveStopped, Leave, pubVars, closeVars
<1>9. CASE UNCHANGED vars
  BY <1>6, <1>9 DEF vars, pubVars, closeVars
<1> QED
  BY <1>1, <1>2, <1>3, <1>4, <1>5, <1>7, <1>8, <1>9 DEF Next, Publish, Close
-----------------------------------------------------------------------------
(* What the drain misses.                                                  *)

LEMMA MissedInit == Init => MissedInv
<1> SUFFICES ASSUME Init PROVE MissedInv
  OBVIOUS
<1>1. Missed = {}
  BY DEF Init, Missed
<1> QED BY <1>1 DEF MissedInv

\* The channels drained so far are channels of the bus.
LEMMA DrainedTopics ==
  ASSUME BusAssumption, TypeInv
  PROVE  /\ drainAt \in Nat /\ Len(Topics) \in Nat
         /\ \A i \in 1..drainAt - 1 : Topics[i] \in Topic
<1>1. drainAt \in 0..Len(Topics) + 1 /\ Len(Topics) \in Nat /\ DOMAIN Topics = 1..Len(Topics)
  BY LenProperties DEF TypeInv, TypeOK, BusAssumption
<1> QED BY <1>1 DEF Topic

LEMMA MissedIn ==
  ASSUME BusAssumption, TypeInv
  PROVE  /\ \A m : m \in Missed <=> \E i \in 1..drainAt - 1 : m \in At(queue[Topics[i]])
         /\ \A m : m \in Missed' <=> \E i \in 1..drainAt' - 1 : m \in At(queue'[Topics[i]])
<1>1. ASSUME NEW m
      PROVE  m \in Missed <=> \E i \in 1..drainAt - 1 : m \in At(queue[Topics[i]])
  BY Zenon DEF Missed
<1>2. Missed' = UNION {At(queue'[Topics[i]]) : i \in 1..drainAt' - 1}
  BY DEF Missed, At
<1>3. ASSUME NEW m
      PROVE  m \in Missed' <=> \E i \in 1..drainAt' - 1 : m \in At(queue'[Topics[i]])
  BY <1>2, Zenon
<1> QED BY <1>1, <1>3

\* A step that takes messages out of the buffers, or puts none in, leaves the
\* drain with no more missed messages, if the publishers are where they were.
LEMMA MissedShrinks ==
  ASSUME MissedInv, Missed' \subseteq Missed,
         \A p \in Publisher : InFlight(p)' => InFlight(p)
  PROVE  MissedInv'
BY DEF MissedInv

LEMMA MissedStep ==
  BusAssumption /\ TypeInv /\ CloseInv /\ PlaceInv /\ MissedInv /\ [Next]_vars => MissedInv'
<1> SUFFICES ASSUME BusAssumption, TypeInv, CloseInv, PlaceInv, MissedInv, [Next]_vars
             PROVE  MissedInv'
  OBVIOUS
<1>0. /\ pub \in [Publisher -> {"outside", "start", "context", "select"}]
      /\ \A m \in Message : m[1] \in Publisher
      /\ drainAt \in Nat
  BY DrainedTopics DEF TypeInv, TypeOK, Message
<1>1. ASSUME UNCHANGED <<queue, drainAt>> PROVE Missed' = Missed
  BY <1>1 DEF Missed
<1>2. ASSUME NEW p \in Publisher, NEW t \in Topic, Call(p, t) PROVE MissedInv'
  <2>1. \A q \in Publisher : InFlight(q)' => InFlight(q)
    BY <1>0, <1>2 DEF Call, InFlight
  <2>2. UNCHANGED <<queue, drainAt>>
    BY <1>2 DEF Call, closeVars
  <2> QED BY <1>1, <2>1, <2>2, MissedShrinks
<1>3. ASSUME NEW p \in Publisher, CheckClosed(p) PROVE MissedInv'
  <2>1. UNCHANGED <<queue, drainAt>> /\ \A q \in Publisher : q # p => pub'[q] = pub[q]
    BY <1>0, <1>3 DEF CheckClosed, ReturnTo, closeVars
  <2>2. CASE closed
    <3>1. \A q \in Publisher : InFlight(q)' => InFlight(q)
      BY <1>0, <1>3, <2>2 DEF CheckClosed, ReturnTo, InFlight
    <3> QED BY <1>1, <2>1, <3>1, MissedShrinks
  <2>3. CASE ~closed
    <3>1. drainAt = 0
      BY <1>0, <2>3 DEF CloseInv
    <3>2. Missed = {}
      BY <3>1 DEF Missed
    <3> QED BY <1>1, <2>1, <3>2 DEF MissedInv
  <2> QED BY <2>2, <2>3
<1>4. ASSUME NEW p \in Publisher, Cancel(p) \/ CheckContext(p) \/ SelectStop(p)
      PROVE MissedInv'
  <2>1. \A q \in Publisher : InFlight(q)' => InFlight(q)
    BY <1>0, <1>4 DEF Cancel, CheckContext, SelectStop, ReturnTo, InFlight
  <2>2. UNCHANGED <<queue, drainAt>>
    BY <1>4 DEF Cancel, CheckContext, SelectStop, closeVars
  <2> QED BY <1>1, <2>1, <2>2, MissedShrinks
<1>5. ASSUME NEW p \in Publisher, SelectSend(p) PROVE MissedInv'
  <2> DEFINE n == Offered(p)
  <2>1. /\ InFlight(p) /\ ~InFlight(p)'
        /\ \A q \in Publisher : InFlight(q)' => InFlight(q)
        /\ drainAt' = drainAt
    BY <1>0, <1>5 DEF SelectSend, ReturnTo, InFlight, closeVars
  <2>2. n[1] = p
    BY DEF Offered
  <2>3. \A m \in Missed : m[1] # n[1]
    BY <2>1, <2>2 DEF MissedInv
  <2>4. /\ At(queue'[topicOf[p]]) = At(queue[topicOf[p]]) \cup {n}
        /\ \A u \in Topic : u # topicOf[p] => queue'[u] = queue[u]
    BY <1>5, SendEffect
  <2> HIDE DEF n
  <2>5. Missed' \subseteq Missed \cup {n}
    <3> SUFFICES ASSUME NEW m \in Missed', m # n PROVE m \in Missed
      OBVIOUS
    <3>1. PICK i \in 1..drainAt - 1 : m \in At(queue'[Topics[i]])
      BY <2>1, MissedIn
    <3>2. Topics[i] \in Topic
      BY DrainedTopics
    <3>3. m \in At(queue[Topics[i]])
      BY <2>4, <3>1, <3>2
    <3> QED BY <3>3, MissedIn
  <2>6. \A m1, m2 \in Missed' : m1[1] = m2[1] => m1 = m2
    BY <2>3, <2>5 DEF MissedInv
  <2>7. \A q \in Publisher, m \in Missed' : InFlight(q)' => m[1] # q
    BY <2>1, <2>2, <2>5 DEF MissedInv
  <2> QED BY <2>6, <2>7 DEF MissedInv
<1>6. ASSUME NEW t \in Topic, queue[t] # <<>>,
             queue' = [queue EXCEPT ![t] = Tail(queue[t])], UNCHANGED <<drainAt, pub>>
      PROVE  MissedInv'
  <2>1. \A u \in Topic : At(queue'[u]) \subseteq At(queue[u])
    BY <1>6, TakeEffect
  <2>2. Missed' \subseteq Missed
    BY <1>6, <2>1, DrainedTopics, MissedIn
  <2>3. \A q \in Publisher : InFlight(q)' => InFlight(q)
    BY <1>6 DEF InFlight
  <2> QED BY <2>2, <2>3, MissedShrinks
<1>7. ASSUME NEW t \in Topic, Receive(t) PROVE MissedInv'
  BY <1>6, <1>7 DEF Receive, pubVars, closeVars
<1>8. ASSUME NEW k \in Closer, DrainOne(k) PROVE MissedInv'
  <2>1. Topics[drainAt] \in Topic
    BY <1>8, LenProperties DEF DrainOne, CloseInv, Topic, BusAssumption
  <2> QED BY <1>6, <1>8, <2>1 DEF DrainOne, pubVars, conVars
<1>9. ASSUME NEW k \in Closer, CloseDone(k) PROVE MissedInv'
  <2>1. drainAt' = 1
    BY <1>9 DEF CloseDone
  <2>2. Missed' = {}
    BY <2>1 DEF Missed
  <2> QED BY <2>2 DEF MissedInv
<1>10. ASSUME NEW k \in Closer, DrainNext(k) PROVE MissedInv'
  <2>1. /\ queue[Topics[drainAt]] = <<>> /\ drainAt' = drainAt + 1
        /\ UNCHANGED <<queue, pub>>
    BY <1>10 DEF DrainNext, pubVars
  <2>2. At(queue[Topics[drainAt]]) = {}
    BY <2>1, EmptySeq DEF At
  <2>3. Missed' \subseteq Missed
    <3> SUFFICES ASSUME NEW m \in Missed' PROVE m \in Missed
      OBVIOUS
    <3>1. PICK i \in 1..drainAt' - 1 : m \in At(queue'[Topics[i]])
      BY MissedIn
    <3>2. i \in 1..drainAt - 1 /\ m \in At(queue[Topics[i]])
      BY <1>0, <2>1, <2>2, <3>1
    <3> QED BY <3>2, MissedIn
  <2>4. \A q \in Publisher : InFlight(q)' => InFlight(q)
    BY <2>1 DEF InFlight
  <2> QED BY <2>3, <2>4, MissedShrinks
<1>11. CASE UNCHANGED <<queue, drainAt, pub>>
  <2>1. \A q \in Publisher : InFlight(q)' => InFlight(q)
    BY <1>11 DEF InFlight
  <2> QED BY <1>1, <1>11, <2>1, MissedShrinks
<1>12. ASSUME NEW k \in Closer, CloseFlag(k) PROVE MissedInv'
  BY <1>11, <1>12 DEF CloseFlag, pubVars
<1>13. ASSUME NEW t \in Topic, Consume(t) \/ ReceiveStopped(t) \/ Leave(t) PROVE MissedInv'
  BY <1>11, <1>13 DEF Consume, ReceiveStopped, Leave, pubVars, closeVars
<1>14. CASE UNCHANGED vars
  BY <1>11, <1>14 DEF vars, pubVars, closeVars
<1> QED
  BY <1>2, <1>3, <1>4, <1>5, <1>7, <1>8, <1>9, <1>10, <1>12, <1>13, <1>14
  DEF Next, Publish, Close
-----------------------------------------------------------------------------
(* The theorems.                                                           *)

BusInv == TypeInv /\ CloseInv /\ PlaceInv /\ LateInv /\ MissedInv

LEMMA Inductive == Spec => []BusInv
<1> USE BusAssumption
<1>1. Init => BusInv
  BY TypeInit, CloseInit, PlaceInit, LateInit, MissedInit DEF BusInv
<1>2. BusInv /\ [Next]_vars => BusInv'
  BY TypeStep, CloseStep, PlaceStep, LateStep, MissedStep DEF BusInv
<1> QED BY <1>1, <1>2, PTL DEF Spec

\* The variables keep the values the code declares for them, and a buffered
\* channel never holds more than its size (make(chan ..., defaultBusBufferSize)).
THEOREM BusTypeCorrect == Spec => []TypeOK
<1>1. BusInv => TypeOK
  BY DEF BusInv, TypeInv
<1> QED BY <1>1, Inductive, PTL

\* Every message whose Publish returned nil is in exactly one place: in its
\* buffer, with the consumer that received it, or taken by Close's drain loop.
THEOREM BusKeepsEachMessageOnce == Spec => []EachMessageOnce
<1>1. BusInv => EachMessageOnce
  BY DEF BusInv, PlaceInv
<1> QED BY <1>1, Inductive, PTL

\* closed.CompareAndSwap lets one Close through, so close(mb.done) runs once,
\* however many goroutines call Close.
THEOREM BusClosesDoneOnce == Spec => []DoneClosedOnce
<1>1. BusInv => DoneClosedOnce
  BY DEF BusInv, CloseInv
<1> QED BY <1>1, Inductive, PTL

\* A Publish that is called after Close stored the flag returns an error.
THEOREM BusRefusesLate == Spec => []LateRefused
<1>1. BusInv => LateRefused
  BY DEF BusInv, LateInv
<1> QED BY <1>1, Inductive, PTL

\* When Close's drain is over, the buffers hold at most one message of each
\* publisher: the drain loop can miss no more than the sends under way.
THEOREM BusStrandsAtMostOne == Spec => []AtMostOneStranded
<1>1. BusInv => AtMostOneStranded
  <2> SUFFICES ASSUME BusInv, drainAt > Len(Topics),
                      NEW m1 \in Queued, NEW m2 \in Queued, m1[1] = m2[1]
               PROVE  m1 = m2
    BY DEF AtMostOneStranded
  <2>1. /\ drainAt \in Nat /\ Len(Topics) \in Nat /\ DOMAIN Topics = 1..Len(Topics)
    BY BusAssumption, LenProperties, DrainedTopics DEF BusInv
  <2>2. ASSUME NEW m \in Queued PROVE m \in Missed
    <3>1. PICK t \in Topic : m \in At(queue[t])
      BY QueuedAt
    <3>2. PICK i \in DOMAIN Topics : t = Topics[i]
      BY DEF Topic
    <3>3. i \in 1..drainAt - 1
      BY <2>1, <3>2
    <3> QED BY <3>1, <3>2, <3>3, BusAssumption, MissedIn DEF BusInv
  <2> QED BY <2>2 DEF BusInv, MissedInv
<1> QED BY <1>1, Inductive, PTL

\* The three of Close together, as one invariant.
THEOREM BusCloses == Spec => []CloseSound
<1>1. DoneClosedOnce /\ LateRefused /\ AtMostOneStranded => CloseSound
  BY DEF CloseSound
<1> QED BY <1>1, BusClosesDoneOnce, BusRefusesLate, BusStrandsAtMostOne, PTL
-----------------------------------------------------------------------------
(* Splitting (MessageSplit).                                               *)

\* A set of numbers that is not empty has a least one.
LEMMA LeastExists ==
  ASSUME NEW T \in SUBSET Nat, T # {}
  PROVE  \E m \in T : \A n \in T : m <= n
<1> DEFINE Below == {ss \in Nat \X Nat : ss[1] < ss[2]}
<1>1. Below = OpToRel(<, Nat)
  BY DEF OpToRel
<1>2. IsWellFoundedOn(Below, Nat)
  BY <1>1, NatLessThanWellFounded
<1>3. PICK m \in T : \A n \in T : ~(<<n, m>> \in Below)
  <2> HIDE DEF Below
  <2> QED BY <1>2, WFMin
<1>4. ASSUME NEW n \in T PROVE m <= n
  <2>1. n \in Nat /\ m \in Nat /\ ~(<<n, m>> \in Below)
    BY <1>3
  <2> QED BY <2>1
<1> QED BY <1>4

\* Every set of places below a bound that is not empty has a last one.
LEMMA LastPlaceExists ==
  ASSUME NEW n \in Nat, NEW U \in SUBSET (1..n), U # {}
  PROVE  \E i \in U : \A j \in U : j <= i
<1> DEFINE T == {n - i : i \in U}
<1>1. T \in SUBSET Nat /\ T # {} /\ \A i \in U : i \in Nat /\ i <= n
  <2>1. \A i \in U : i \in 1..n
    OBVIOUS
  <2>2. \A i \in U : i \in Nat /\ i <= n /\ n - i \in Nat
    BY <2>1
  <2> QED BY <2>2
<1>2. PICK t \in T : \A r \in T : t <= r
  <2> HIDE DEF T
  <2> QED BY <1>1, LeastExists
<1>3. PICK i \in U : t = n - i
  OBVIOUS
<1>4. ASSUME NEW j \in U PROVE j <= i
  <2>1. n - j \in T /\ i \in Nat /\ j \in Nat
    BY <1>1
  <2>2. t <= n - j
    BY <1>2, <2>1
  <2> QED BY <1>3, <2>1, <2>2
<1> QED BY <1>4

Runes == [kind : RuneKinds, from : Nat]

\* Two sequences with the elements of a third make it.
LEMMA JoinedIs ==
  ASSUME NEW M, NEW p \in Seq(M), NEW q \in Seq(M), NEW h \in Seq(M), Len(h) = Len(p) + Len(q),
         \A i \in 1..Len(p) : p[i] = h[i], \A i \in 1..Len(q) : q[i] = h[Len(p) + i]
  PROVE  p \o q = h
<1> DEFINE all == p \o q
           k == Len(p)
           n == Len(q)
<1>1. /\ all \in Seq(M) /\ Len(all) = k + n /\ k \in Nat /\ n \in Nat
      /\ \A i \in 1..k + n : all[i] = IF i <= k THEN p[i] ELSE q[i - k]
  BY ConcatProperties
<1>2. Len(h) = k + n /\ (\A i \in 1..k : p[i] = h[i]) /\ \A i \in 1..n : q[i] = h[k + i]
  OBVIOUS
<1> HIDE DEF all, k, n
<1>3. ASSUME NEW i \in 1..k + n PROVE all[i] = h[i]
  <2>1. CASE i <= k
    <3>1. i \in 1..k
      BY <1>1, <2>1
    <3> QED BY <1>1, <1>2, <2>1, <3>1
  <2>2. CASE ~(i <= k)
    <3>1. i - k \in 1..n /\ k + (i - k) = i
      BY <1>1, <2>2
    <3>2. q[i - k] = h[k + (i - k)]
      BY <1>2, <3>1
    <3> QED BY <1>1, <2>2, <3>1, <3>2
  <2> QED BY <2>1, <2>2
<1>4. all = h
  BY <1>1, <1>2, <1>3, SeqEqual
<1> QED BY <1>4 DEF all

\* A sequence is what comes up to a place and what comes after it.
LEMMA CutInTwo ==
  ASSUME NEW M, NEW h \in Seq(M), NEW k \in 0..Len(h)
  PROVE  /\ SubSeq(h, 1, k) \in Seq(M) /\ Len(SubSeq(h, 1, k)) = k
         /\ \A i \in 1..k : SubSeq(h, 1, k)[i] = h[i]
         /\ SubSeq(h, k + 1, Len(h)) \in Seq(M) /\ Len(SubSeq(h, k + 1, Len(h))) = Len(h) - k
         /\ \A i \in 1..Len(h) - k : SubSeq(h, k + 1, Len(h))[i] = h[k + i]
         /\ SubSeq(h, 1, k) \o SubSeq(h, k + 1, Len(h)) = h
<1> DEFINE n == Len(h)
           p == SubSeq(h, 1, k)
           q == SubSeq(h, k + 1, n)
<1>1. n \in Nat /\ k \in Nat /\ k <= n /\ \A i \in 1..n : h[i] \in M
  OBVIOUS
<1>2. p \in Seq(M) /\ Len(p) = k /\ \A i \in 1..k : p[i] = h[i]
  <2>1. /\ p \in Seq(M) /\ Len(p) = IF 1 <= k THEN k - 1 + 1 ELSE 0
        /\ \A i \in 1..k - 1 + 1 : p[i] = h[1 + i - 1]
    BY <1>1, SubSeqProperties
  <2> HIDE DEF p
  <2>2. \A i \in 1..k : i \in 1..k - 1 + 1 /\ 1 + i - 1 = i
    BY <1>1
  <2>3. \A i \in 1..k : p[i] = h[i]
    BY <2>1, <2>2
  <2> QED BY <1>1, <2>1, <2>3
<1>3. q \in Seq(M) /\ Len(q) = n - k /\ \A i \in 1..n - k : q[i] = h[k + i]
  <2>1. \A i \in k + 1..n : h[i] \in M
    BY <1>1
  <2>2. /\ q \in Seq(M) /\ Len(q) = IF k + 1 <= n THEN n - (k + 1) + 1 ELSE 0
        /\ \A i \in 1..n - (k + 1) + 1 : q[i] = h[k + 1 + i - 1]
    BY <1>1, <2>1, SubSeqProperties
  <2> HIDE DEF n, q
  <2>3. \A i \in 1..n - k : i \in 1..n - (k + 1) + 1 /\ k + 1 + i - 1 = k + i
    BY <1>1
  <2>4. \A i \in 1..n - k : q[i] = h[k + i]
    BY <2>2, <2>3
  <2> QED BY <1>1, <2>2, <2>4
<1>4. p \o q = h
  <2>1. Len(h) = Len(p) + Len(q) /\ (\A i \in 1..Len(p) : p[i] = h[i]) /\ \A i \in 1..Len(q) : q[i] = h[Len(p) + i]
    <3> HIDE DEF p, q
    <3> QED BY <1>1, <1>2, <1>3
  <2> HIDE DEF p, q, n
  <2> QED BY <1>2, <1>3, <2>1, JoinedIs
<1> QED BY <1>2, <1>3, <1>4

\* White space is all that trimming takes.
Blank(w) == w \in Seq(Runes) /\ \A i \in 1..Len(w) : w[i].kind \in White

LEMMA TrimRight ==
  ASSUME NEW s \in Seq(Runes)
  PROVE  \E w : /\ Blank(w) /\ TrimmedRight(s) \in Seq(Runes) /\ s = TrimmedRight(s) \o w
                /\ Len(TrimmedRight(s)) <= Len(s)
<1> DEFINE ink == {i \in DOMAIN s : s[i].kind \notin White}
           n == Len(s)
<1>1. n \in Nat /\ DOMAIN s = 1..n
  OBVIOUS
<1>2. CASE ink = {}
  <2>1. TrimmedRight(s) = <<>>
    BY <1>2 DEF TrimmedRight
  <2>2. <<>> \o s = s /\ <<>> \in Seq(Runes) /\ Len(<<>>) = 0
    BY ConcatEmptySeq
  <2>3. Blank(s)
    BY <1>1, <1>2 DEF Blank
  <2> QED BY <1>1, <2>1, <2>2, <2>3
<1>3. CASE ink # {}
  <2>1. ink \in SUBSET (1..n)
    BY <1>1
  <2>2. \E i \in ink : \A j \in ink : j <= i
    <3> HIDE DEF ink, n
    <3> QED BY <1>1, <1>3, <2>1, LastPlaceExists
  <2> DEFINE k == Largest(ink)
             p == SubSeq(s, 1, k)
             w == SubSeq(s, k + 1, n)
  <2>3. k \in ink /\ \A j \in ink : j <= k
    BY <2>2 DEF Largest
  <2>4. TrimmedRight(s) = p
    BY <1>3 DEF TrimmedRight
  <2>5. k \in 0..n
    BY <1>1, <2>1, <2>3
  <2> HIDE DEF k
  <2>6. /\ p \in Seq(Runes) /\ Len(p) = k
        /\ w \in Seq(Runes) /\ Len(w) = n - k /\ \A i \in 1..n - k : w[i] = s[k + i]
        /\ p \o w = s
    <3> HIDE DEF ink
    <3> QED BY <2>5, CutInTwo
  <2> HIDE DEF p, w
  <2>7. ASSUME NEW i \in 1..n - k PROVE w[i].kind \in White
    <3>1. k + i \in 1..n /\ ~(k + i <= k)
      BY <1>1, <2>5
    <3>2. k + i \notin ink
      BY <2>3, <3>1
    <3> QED BY <1>1, <2>6, <3>1, <3>2
  <2>8. Blank(w)
    BY <2>6, <2>7 DEF Blank
  <2>9. Len(p) <= Len(s)
    BY <2>5, <2>6
  <2> QED BY <2>4, <2>6, <2>8, <2>9
<1> QED BY <1>2, <1>3

LEMMA TrimLeft ==
  ASSUME NEW s \in Seq(Runes)
  PROVE  \E w : /\ Blank(w) /\ TrimmedLeft(s) \in Seq(Runes) /\ s = w \o TrimmedLeft(s)
                /\ Len(TrimmedLeft(s)) <= Len(s)
<1> DEFINE ink == {i \in DOMAIN s : s[i].kind \notin White}
           n == Len(s)
<1>1. n \in Nat /\ DOMAIN s = 1..n
  OBVIOUS
<1>2. CASE ink = {}
  <2>1. TrimmedLeft(s) = <<>>
    BY <1>2 DEF TrimmedLeft
  <2>2. s \o <<>> = s /\ <<>> \in Seq(Runes) /\ Len(<<>>) = 0
    BY ConcatEmptySeq
  <2>3. Blank(s)
    BY <1>1, <1>2 DEF Blank
  <2> QED BY <1>1, <2>1, <2>2, <2>3
<1>3. CASE ink # {}
  <2>1. ink \in SUBSET Nat /\ \A i \in ink : i \in 1..n
    BY <1>1
  <2>2. \E i \in ink : \A j \in ink : i <= j
    <3> HIDE DEF ink
    <3> QED BY <1>3, <2>1, LeastExists
  <2> DEFINE first == Smallest(ink)
             k == first - 1
             w == SubSeq(s, 1, k)
             q == SubSeq(s, k + 1, n)
  <2>3. first \in ink /\ \A j \in ink : first <= j
    BY <2>2 DEF Smallest
  <2>4. first \in 1..n /\ k \in 0..n /\ k + 1 = first
    BY <1>1, <2>1, <2>3
  <2>5. TrimmedLeft(s) = q
    BY <1>3, <2>4 DEF TrimmedLeft
  <2> HIDE DEF k
  <2>6. /\ w \in Seq(Runes) /\ Len(w) = k /\ \A i \in 1..k : w[i] = s[i]
        /\ q \in Seq(Runes) /\ Len(q) = n - k
        /\ w \o q = s
    <3> HIDE DEF ink
    <3> QED BY <2>4, CutInTwo
  <2> HIDE DEF first, q, w
  <2>7. ASSUME NEW i \in 1..k PROVE w[i].kind \in White
    <3>1. i \in 1..n /\ ~(first <= i)
      BY <1>1, <2>4
    <3>2. i \notin ink
      BY <2>3, <3>1
    <3> QED BY <1>1, <2>6, <3>1, <3>2
  <2>8. Blank(w)
    BY <2>6, <2>7 DEF Blank
  <2>9. Len(q) <= Len(s)
    BY <2>4, <2>6
  <2> QED BY <2>5, <2>6, <2>8, <2>9
<1> QED BY <1>2, <1>3
-----------------------------------------------------------------------------
(* What shows of a sequence of runes.                                      *)

\* ink is what the loop of Ink has after each of its first n runes of s.
Inks(s, n, ink) ==
    ink = [k \in 0..n |->
              IF k = 0 THEN <<>> ELSE IF Shows(s[k]) THEN Append(ink[k - 1], s[k]) ELSE ink[k - 1]]

LEMMA InkExists == ASSUME NEW s, NEW n \in Nat PROVE \E g : Inks(s, n, g)
<1> DEFINE T == {m \in Nat : ~\E g : Inks(s, m, g)}
<1>1. SUFFICES ASSUME T # {} PROVE FALSE
  OBVIOUS
<1>2. PICK m \in T : \A k \in T : m <= k
  BY <1>1, LeastExists
<1>3. m \in Nat /\ ~\E g : Inks(s, m, g)
  OBVIOUS
<1>4. m # 0
  <2> DEFINE g == [k \in 0..0 |-> <<>>]
  <2>1. Inks(s, 0, g)
    BY DEF Inks
  <2> QED BY <1>3, <2>1
<1>5. PICK g : Inks(s, m - 1, g)
  BY <1>2, <1>3, <1>4
<1> DEFINE step == IF Shows(s[m]) THEN Append(g[m - 1], s[m]) ELSE g[m - 1]
           longer == [k \in 0..m |-> IF k < m THEN g[k] ELSE step]
           again == [k \in 0..m |-> IF k = 0 THEN <<>>
                                    ELSE IF Shows(s[k]) THEN Append(longer[k - 1], s[k]) ELSE longer[k - 1]]
<1>6. ASSUME NEW k \in 0..m PROVE longer[k] = again[k]
  <2>1. CASE k = m
    BY <1>3, <1>4, <2>1
  <2>2. CASE k # m
    <3>1. k \in 0..m - 1 /\ (k # 0 => k - 1 \in 0..m - 1 /\ k - 1 \in 0..m /\ k - 1 < m)
      BY <1>3, <2>2
    <3>2. g[k] = IF k = 0 THEN <<>> ELSE IF Shows(s[k]) THEN Append(g[k - 1], s[k]) ELSE g[k - 1]
      BY <1>5, <3>1 DEF Inks
    <3> QED BY <1>3, <2>2, <3>1, <3>2
  <2> QED BY <2>1, <2>2
<1>7. longer = again
  BY <1>6
<1>8. Inks(s, m, longer)
  BY <1>7 DEF Inks
<1> QED BY <1>3, <1>8

\* The loop of Ink as a function of how far it is.
InkUpTo(s) == CHOOSE g : Inks(s, Len(s), g)

LEMMA InkByRune ==
  ASSUME NEW M, NEW s \in Seq(M)
  PROVE  /\ Ink(s) = InkUpTo(s)[Len(s)] /\ InkUpTo(s)[0] = <<>>
         /\ \A k \in 1..Len(s) : InkUpTo(s)[k] =
                IF Shows(s[k]) THEN Append(InkUpTo(s)[k - 1], s[k]) ELSE InkUpTo(s)[k - 1]
<1> DEFINE n == Len(s)
           G == InkUpTo(s)
<1>1. n \in Nat
  OBVIOUS
<1>2. Inks(s, n, G)
  BY <1>1, InkExists DEF InkUpTo
<1>3. Ink(s) = G[n]
  BY DEF Ink, InkUpTo, Inks
<1> HIDE DEF G, n
<1>4. G[0] = <<>> /\ \A k \in 1..n : G[k] = IF Shows(s[k]) THEN Append(G[k - 1], s[k]) ELSE G[k - 1]
  <2>1. \A k \in 0..n : G[k] = IF k = 0 THEN <<>> ELSE IF Shows(s[k]) THEN Append(G[k - 1], s[k]) ELSE G[k - 1]
    BY <1>2 DEF Inks
  <2>2. 0 \in 0..n /\ \A k \in 1..n : k \in 0..n /\ k # 0
    BY <1>1
  <2> QED BY <2>1, <2>2
<1> QED BY <1>3, <1>4 DEF G, n

LEMMA InkTyped == ASSUME NEW M, NEW s \in Seq(M) PROVE \A k \in 0..Len(s) : InkUpTo(s)[k] \in Seq(M)
<1> DEFINE n == Len(s)
           G == InkUpTo(s)
           T == {k \in 0..n : G[k] \notin Seq(M)}
<1>1. /\ n \in Nat /\ G[0] = <<>> /\ \A k \in 1..n : s[k] \in M
      /\ \A k \in 1..n : G[k] = IF Shows(s[k]) THEN Append(G[k - 1], s[k]) ELSE G[k - 1]
  BY InkByRune
<1> HIDE DEF n, G
<1>2. SUFFICES ASSUME T # {} PROVE FALSE
  BY DEF n, G
<1>3. PICK k \in T : \A j \in T : k <= j
  <2>1. T \in SUBSET Nat
    BY <1>1
  <2> HIDE DEF T
  <2> QED BY <1>2, <2>1, LeastExists
<1>4. k \in 0..n /\ G[k] \notin Seq(M)
  OBVIOUS
<1>5. k # 0
  BY <1>1, <1>4, EmptySeq
<1>6. k \in 1..n /\ k - 1 \in 0..n /\ ~(k <= k - 1)
  BY <1>1, <1>4, <1>5
<1>7. G[k - 1] \in Seq(M)
  BY <1>3, <1>6
<1>8. Append(G[k - 1], s[k]) \in Seq(M)
  BY <1>1, <1>6, <1>7, AppendProperties
<1> QED BY <1>1, <1>4, <1>6, <1>7, <1>8

\* What shows of two parts.
LEMMA InkJoined ==
  ASSUME NEW M, NEW p \in Seq(M), NEW q \in Seq(M)
  PROVE  Ink(p \o q) = Ink(p) \o Ink(q) /\ Ink(p) \in Seq(M)
<1> DEFINE s == p \o q
           m == Len(p)
           n == Len(q)
           P == InkUpTo(p)
           Q == InkUpTo(q)
           G == InkUpTo(s)
<1>0. \A u, v \in Seq(M) : \A y \in M : Append(u \o v, y) = u \o Append(v, y)
  <2> HIDE DEF s, m, n, P, Q, G
  <2> TAKE u, v \in Seq(M)
  <2> TAKE y \in M
  <2>1. <<y>> \in Seq(M) /\ u \o v \in Seq(M)
    BY ConcatProperties
  <2>2. Append(u \o v, y) = (u \o v) \o <<y>> /\ Append(v, y) = v \o <<y>>
    BY <2>1, AppendIsConcat
  <2> QED BY <2>1, <2>2, ConcatAssociative
<1>1. /\ s \in Seq(M) /\ Len(s) = m + n /\ m \in Nat /\ n \in Nat
      /\ \A i \in 1..m + n : s[i] = IF i <= m THEN p[i] ELSE q[i - m]
      /\ \A i \in 1..n : q[i] \in M
  BY ConcatProperties
<1>2. /\ Ink(p) = P[m] /\ P[0] = <<>>
      /\ \A k \in 1..m : P[k] = IF Shows(p[k]) THEN Append(P[k - 1], p[k]) ELSE P[k - 1]
  BY InkByRune
<1>3. /\ Ink(q) = Q[n] /\ Q[0] = <<>>
      /\ \A k \in 1..n : Q[k] = IF Shows(q[k]) THEN Append(Q[k - 1], q[k]) ELSE Q[k - 1]
  BY InkByRune
<1>4. /\ Ink(s) = G[m + n] /\ G[0] = <<>>
      /\ \A k \in 1..m + n : G[k] = IF Shows(s[k]) THEN Append(G[k - 1], s[k]) ELSE G[k - 1]
  <2> HIDE DEF s
  <2> QED BY <1>1, InkByRune
<1>5. (\A k \in 0..m : P[k] \in Seq(M)) /\ \A k \in 0..n : Q[k] \in Seq(M)
  BY InkTyped
<1> HIDE DEF P, Q, G, s, m, n
<1>6. \A k \in 0..m : G[k] = P[k]
  <2> DEFINE T == {k \in 0..m : G[k] # P[k]}
  <2>1. SUFFICES ASSUME T # {} PROVE FALSE
    OBVIOUS
  <2>2. PICK k \in T : \A j \in T : k <= j
    <3>1. T \in SUBSET Nat
      BY <1>1
    <3> HIDE DEF T
    <3> QED BY <2>1, <3>1, LeastExists
  <2>3. k \in 0..m /\ G[k] # P[k] /\ k # 0
    BY <1>2, <1>4
  <2>4. k \in 1..m /\ k \in 1..m + n /\ k <= m /\ k - 1 \in 0..m /\ ~(k <= k - 1)
    BY <1>1, <2>3
  <2>5. G[k - 1] = P[k - 1]
    BY <2>2, <2>4
  <2>6. s[k] = p[k]
    BY <1>1, <2>4
  <2> QED BY <1>2, <1>4, <2>3, <2>4, <2>5, <2>6
<1>7. \A k \in 0..n : G[m + k] = P[m] \o Q[k]
  <2> DEFINE T == {k \in 0..n : G[m + k] # P[m] \o Q[k]}
  <2>1. SUFFICES ASSUME T # {} PROVE FALSE
    OBVIOUS
  <2>2. PICK k \in T : \A j \in T : k <= j
    <3>1. T \in SUBSET Nat
      <4>1. 0..n \subseteq Nat
        BY <1>1
      <4> QED BY <4>1, Zenon
    <3> HIDE DEF T
    <3> QED BY <2>1, <3>1, LeastExists
  <2>3. k \in 0..n /\ G[m + k] # P[m] \o Q[k]
    OBVIOUS
  <2>4. P[m] \in Seq(M)
    BY <1>1, <1>5
  <2>5. k # 0
    <3>1. G[m + 0] = P[m] /\ m \in 0..m
      BY <1>1, <1>6
    <3>2. P[m] \o <<>> = P[m]
      BY <2>4, ConcatEmptySeq
    <3> QED BY <1>3, <2>3, <3>1, <3>2
  <2>6. k \in 1..n /\ m + k \in 1..m + n /\ ~(m + k <= m) /\ m + k - m = k /\ k - 1 \in 0..n /\ ~(k <= k - 1)
        /\ m + k - 1 = m + (k - 1)
    BY <1>1, <2>3, <2>5
  <2>7. G[m + (k - 1)] = P[m] \o Q[k - 1]
    BY <2>2, <2>6
  <2>8. s[m + k] = q[k] /\ q[k] \in M
    BY <1>1, <2>6
  <2> DEFINE a == P[m]
             b == Q[k - 1]
             x == q[k]
             place == m + k
  <2>9. a \in Seq(M) /\ b \in Seq(M) /\ x \in M
    BY <1>5, <2>4, <2>6, <2>8
  <2>10. G[place] = IF Shows(s[place]) THEN Append(G[place - 1], s[place]) ELSE G[place - 1]
    <3> HIDE DEF place
    <3>1. place \in 1..m + n
      BY <2>6 DEF place
    <3> QED BY <1>4, <3>1
  <2>11. G[place - 1] = a \o b /\ s[place] = x
    <3>1. place - 1 = m + (k - 1)
      BY <1>1, <2>6
    <3> QED BY <2>7, <2>8, <3>1, Zenon
  <2>12. Q[k] = IF Shows(x) THEN Append(b, x) ELSE b
    BY <1>3, <2>6
  <2>13. G[place] # a \o Q[k]
    BY <2>3
  <2> HIDE DEF a, b, x, place
  <2>14. Append(a \o b, x) = a \o Append(b, x)
    BY <1>0, <2>9
  <2> QED BY <2>10, <2>11, <2>12, <2>13, <2>14
<1>8. Ink(s) = P[m] \o Q[n] /\ P[m] \in Seq(M)
  <2>1. n \in 0..n /\ m \in 0..m
    BY <1>1
  <2> QED BY <1>4, <1>5, <1>7, <2>1
<1> QED BY <1>2, <1>3, <1>8 DEF s

\* Nothing shows of runes that are all white or all added.
LEMMA NothingShows ==
  ASSUME NEW M, NEW s \in Seq(M), \A i \in 1..Len(s) : ~Shows(s[i])
  PROVE  Ink(s) = <<>>
<1> DEFINE n == Len(s)
           G == InkUpTo(s)
           T == {k \in 0..n : G[k] # <<>>}
<1>1. /\ n \in Nat /\ G[0] = <<>> /\ Ink(s) = G[n] /\ \A k \in 1..n : ~Shows(s[k])
      /\ \A k \in 1..n : G[k] = IF Shows(s[k]) THEN Append(G[k - 1], s[k]) ELSE G[k - 1]
  BY InkByRune
<1> HIDE DEF n, G
<1>2. SUFFICES ASSUME T # {} PROVE FALSE
  BY <1>1
<1>3. PICK k \in T : \A j \in T : k <= j
  <2>1. T \in SUBSET Nat
    BY <1>1
  <2> HIDE DEF T
  <2> QED BY <1>2, <2>1, LeastExists
<1>4. k \in 0..n /\ G[k] # <<>> /\ k # 0
  BY <1>1
<1>5. k \in 1..n /\ k - 1 \in 0..n /\ ~(k <= k - 1)
  BY <1>1, <1>4
<1>6. G[k - 1] = <<>>
  BY <1>3, <1>5
<1> QED BY <1>1, <1>4, <1>5, <1>6

LEMMA TrimsKeepInk ==
  ASSUME NEW s \in Seq(Runes)
  PROVE  Ink(TrimmedRight(s)) = Ink(s) /\ Ink(TrimmedLeft(s)) = Ink(s) /\ Ink(s) \in Seq(Runes)
<1>1. \A w : Blank(w) => w \in Seq(Runes) /\ Ink(w) = <<>>
  BY NothingShows DEF Blank, Shows
<1>2. \A x \in Seq(Runes) : Ink(x) \in Seq(Runes) /\ Ink(x) \o <<>> = Ink(x) /\ <<>> \o Ink(x) = Ink(x)
  BY InkJoined, ConcatEmptySeq
<1>3. PICK w : Blank(w) /\ TrimmedRight(s) \in Seq(Runes) /\ s = TrimmedRight(s) \o w
  BY TrimRight
<1>4. Ink(s) = Ink(TrimmedRight(s)) \o Ink(w)
  <2>1. w \in Seq(Runes) /\ TrimmedRight(s) \in Seq(Runes)
    BY <1>1, <1>3
  <2>2. Ink(TrimmedRight(s) \o w) = Ink(TrimmedRight(s)) \o Ink(w)
    BY <2>1, InkJoined
  <2> QED BY <1>3, <2>2
<1>5. PICK v : Blank(v) /\ TrimmedLeft(s) \in Seq(Runes) /\ s = v \o TrimmedLeft(s)
  BY TrimLeft
<1>6. Ink(s) = Ink(v) \o Ink(TrimmedLeft(s))
  <2>1. v \in Seq(Runes) /\ TrimmedLeft(s) \in Seq(Runes)
    BY <1>1, <1>5
  <2>2. Ink(v \o TrimmedLeft(s)) = Ink(v) \o Ink(TrimmedLeft(s))
    BY <2>1, InkJoined
  <2> QED BY <1>5, <2>2
<1> QED BY <1>1, <1>2, <1>3, <1>4, <1>5, <1>6

\* What shows of pieces and one more.
AllInks(pieces, n, ink) == ink = [k \in 0..n |-> IF k = 0 THEN <<>> ELSE ink[k - 1] \o Ink(pieces[k])]

LEMMA AllInkExists == ASSUME NEW pieces, NEW n \in Nat PROVE \E g : AllInks(pieces, n, g)
<1> DEFINE T == {m \in Nat : ~\E g : AllInks(pieces, m, g)}
<1>1. SUFFICES ASSUME T # {} PROVE FALSE
  OBVIOUS
<1>2. PICK m \in T : \A k \in T : m <= k
  BY <1>1, LeastExists
<1>3. m \in Nat /\ ~\E g : AllInks(pieces, m, g)
  OBVIOUS
<1>4. m # 0
  <2> DEFINE g == [k \in 0..0 |-> <<>>]
  <2>1. AllInks(pieces, 0, g)
    BY DEF AllInks
  <2> QED BY <1>3, <2>1
<1>5. PICK g : AllInks(pieces, m - 1, g)
  BY <1>2, <1>3, <1>4
<1> DEFINE longer == [k \in 0..m |-> IF k < m THEN g[k] ELSE g[m - 1] \o Ink(pieces[m])]
           again == [k \in 0..m |-> IF k = 0 THEN <<>> ELSE longer[k - 1] \o Ink(pieces[k])]
<1>6. ASSUME NEW k \in 0..m PROVE longer[k] = again[k]
  <2>1. CASE k = m
    BY <1>3, <1>4, <2>1
  <2>2. CASE k # m
    <3>1. k \in 0..m - 1 /\ (k # 0 => k - 1 \in 0..m - 1 /\ k - 1 \in 0..m /\ k - 1 < m)
      BY <1>3, <2>2
    <3>2. g[k] = IF k = 0 THEN <<>> ELSE g[k - 1] \o Ink(pieces[k])
      BY <1>5, <3>1 DEF AllInks
    <3> QED BY <1>3, <2>2, <3>1, <3>2
  <2> QED BY <2>1, <2>2
<1>7. longer = again
  BY <1>6
<1>8. AllInks(pieces, m, longer)
  BY <1>7 DEF AllInks
<1> QED BY <1>3, <1>8

InkOf(pieces) == CHOOSE g : AllInks(pieces, Len(pieces), g)

LEMMA InkByPiece ==
  ASSUME NEW M, NEW pieces \in Seq(M)
  PROVE  /\ InkOfAll(pieces) = InkOf(pieces)[Len(pieces)] /\ InkOf(pieces)[0] = <<>>
         /\ \A k \in 1..Len(pieces) : InkOf(pieces)[k] = InkOf(pieces)[k - 1] \o Ink(pieces[k])
<1> DEFINE n == Len(pieces)
           G == InkOf(pieces)
<1>1. n \in Nat
  OBVIOUS
<1>2. AllInks(pieces, n, G)
  BY <1>1, AllInkExists DEF InkOf
<1>3. InkOfAll(pieces) = G[n]
  BY DEF InkOfAll, InkOf, AllInks
<1> HIDE DEF G, n
<1>4. G[0] = <<>> /\ \A k \in 1..n : G[k] = G[k - 1] \o Ink(pieces[k])
  <2>1. \A k \in 0..n : G[k] = IF k = 0 THEN <<>> ELSE G[k - 1] \o Ink(pieces[k])
    BY <1>2 DEF AllInks
  <2>2. 0 \in 0..n /\ \A k \in 1..n : k \in 0..n /\ k # 0
    BY <1>1
  <2> QED BY <2>1, <2>2
<1> QED BY <1>3, <1>4 DEF G, n

LEMMA OneMorePiece ==
  ASSUME NEW M, NEW pieces \in Seq(M), NEW c \in M
  PROVE  InkOfAll(Append(pieces, c)) = InkOfAll(pieces) \o Ink(c)
<1> DEFINE more == Append(pieces, c)
           n == Len(pieces)
           G == InkOf(pieces)
           H == InkOf(more)
<1>1. /\ more \in Seq(M) /\ Len(more) = n + 1 /\ n \in Nat /\ more[n + 1] = c
      /\ \A i \in 1..n : more[i] = pieces[i]
  BY AppendProperties
<1>2. InkOfAll(pieces) = G[n] /\ G[0] = <<>> /\ \A k \in 1..n : G[k] = G[k - 1] \o Ink(pieces[k])
  BY InkByPiece
<1>3. InkOfAll(more) = H[n + 1] /\ H[0] = <<>> /\ \A k \in 1..n + 1 : H[k] = H[k - 1] \o Ink(more[k])
  <2> HIDE DEF more
  <2> QED BY <1>1, InkByPiece
<1> HIDE DEF G, H, more, n
<1>4. H[n] = G[n]
  <2> DEFINE T == {k \in 0..n : H[k] # G[k]}
  <2>1. SUFFICES ASSUME T # {} PROVE FALSE
    BY <1>1
  <2>2. PICK k \in T : \A j \in T : k <= j
    <3>1. T \in SUBSET Nat
      BY <1>1
    <3> HIDE DEF T
    <3> QED BY <2>1, <3>1, LeastExists
  <2>3. k \in 0..n /\ H[k] # G[k] /\ k # 0
    BY <1>2, <1>3
  <2>4. k \in 1..n /\ k \in 1..n + 1 /\ k - 1 \in 0..n /\ ~(k <= k - 1)
    BY <1>1, <2>3
  <2>5. H[k - 1] = G[k - 1] /\ more[k] = pieces[k]
    BY <1>1, <2>2, <2>4
  <2> QED BY <1>2, <1>3, <2>3, <2>4, <2>5
<1>5. H[n + 1] = H[n] \o Ink(c)
  <2> DEFINE k == n + 1
  <2>1. k \in 1..n + 1 /\ k - 1 = n /\ more[k] = c
    BY <1>1
  <2> HIDE DEF k
  <2>2. H[k] = H[k - 1] \o Ink(more[k])
    BY <1>3, <2>1
  <2> QED BY <2>1, <2>2 DEF k
<1> QED BY <1>2, <1>3, <1>4, <1>5 DEF more
-----------------------------------------------------------------------------
(* Where SplitMessage cuts.                                                *)

SplitType ==
    /\ content \in Seq(Runes) /\ rest \in Seq(Runes) /\ chunks \in Seq(Seq(Runes))
    /\ maxLen \in Nat \ {0} /\ splitting \in BOOLEAN

LEMMA FoundLast ==
  ASSUME NEW kinds, NEW end \in Nat, NEW window \in Nat
  PROVE  LET last == FindLast(kinds, end, window) IN
         /\ last = -1 \/ (last \in 0..end - 1 /\ Is(last, kinds))
         /\ last >= -1 /\ last < end /\ last \in Int
         /\ \A i \in 0..end - 1 : i >= end - window /\ Is(i, kinds) => i <= last
<1> DEFINE from == AtLeast(end - window, 0)
           found == {i \in from..end - 1 : Is(i, kinds)}
           last == FindLast(kinds, end, window)
<1>1. from \in Nat /\ from >= end - window /\ (from = end - window \/ from = 0)
  BY DEF AtLeast
<1> HIDE DEF from
<1>2. CASE found = {}
  <2>1. last = -1
    BY <1>2 DEF FindLast, from
  <2>2. \A i \in 0..end - 1 : i >= end - window => i \in from..end - 1
    BY <1>1
  <2> QED BY <1>2, <2>1, <2>2
<1>3. CASE found # {}
  <2> DEFINE up == {i + 1 : i \in found}
  <2>1. found \subseteq 0..end - 1
    BY <1>1
  <2>2. \E i \in found : \A j \in found : j <= i
    <3>1. up \in SUBSET (1..end) /\ up # {}
      BY <1>3, <2>1
    <3>2. PICK k \in up : \A j \in up : j <= k
      <4> HIDE DEF up
      <4> QED BY <3>1, LastPlaceExists
    <3>3. PICK i \in found : k = i + 1
      BY <3>2
    <3>4. ASSUME NEW j \in found PROVE j <= i
      <4>1. j + 1 \in up /\ j \in Nat /\ i \in Nat
        BY <2>1
      <4>2. j + 1 <= k
        BY <3>2, <4>1
      <4> QED BY <3>3, <4>1, <4>2
    <3> QED BY <3>4
  <2>3. last = Largest(found)
    BY <1>3 DEF FindLast, from
  <2>4. last \in found /\ \A j \in found : j <= last
    BY <2>2, <2>3 DEF Largest
  <2>5. \A i \in 0..end - 1 : i >= end - window /\ Is(i, kinds) => i \in found
    BY <1>1
  <2> HIDE DEF last, found
  <2>6. last \in 0..end - 1 /\ last >= -1 /\ last < end /\ last \in Int
    BY <2>1, <2>4
  <2>7. Is(last, kinds)
    BY <2>4 DEF found
  <2> QED BY <2>4, <2>5, <2>6, <2>7 DEF last
<1> QED BY <1>2, <1>3

\* The limits, and the cut that a text without code blocks gets.
LEMMA LimitsFit ==
  ASSUME SplitType
  PROVE  /\ EffectiveLimit \in 1..maxLen
         /\ maxLen < 5 => EffectiveLimit <= 2
         /\ maxLen >= 10 => EffectiveLimit >= 5 /\ EffectiveLimit <= maxLen - 5
         /\ NaturalEnd \in 1..EffectiveLimit
<1>1. maxLen \in Nat \ {0}
  BY DEF SplitType
<1> DEFINE E == EffectiveLimit
<1>2. /\ E \in 1..maxLen
      /\ maxLen < 5 => E <= 2
      /\ maxLen >= 10 => E >= 5 /\ E <= maxLen - 5
  BY <1>1 DEF EffectiveLimit, CodeBlockBuffer, AtMost, AtLeast
<1>3. E \in Nat /\ E >= 1
  BY <1>1, <1>2
<1> HIDE DEF E
<1> DEFINE newline == FindLast({"newline"}, E, 200)
           space == FindLast({"space"}, E, 100)
<1>4. newline \in Int /\ newline < E /\ space \in Int /\ space < E
  BY <1>3, FoundLast
<1>5. NaturalEnd = IF newline > 0 THEN newline ELSE IF space > 0 THEN space ELSE E
  BY DEF NaturalEnd, E
<1> HIDE DEF newline, space
<1>6. NaturalEnd \in 1..E
  BY <1>3, <1>4, <1>5
<1> QED BY <1>2, <1>6 DEF E

\* One turn of the scan for an open block, and what the scan has after each of its turns.
ScanFrom(s, i, end) ==
    IF i < s.next \/ ~Fence(i, end) THEN s
    ELSE [next |-> i + 3, inside |-> ~s.inside, at |-> IF s.inside THEN s.at ELSE i]
Scans(end, n, g) ==
    g = [k \in 0..n |-> IF k = 0 THEN [next |-> 0, inside |-> FALSE, at |-> -1] ELSE ScanFrom(g[k - 1], k - 1, end)]

LEMMA ScanExists == ASSUME NEW end, NEW n \in Nat PROVE \E g : Scans(end, n, g)
<1> DEFINE T == {m \in Nat : ~\E g : Scans(end, m, g)}
           begin == [next |-> 0, inside |-> FALSE, at |-> -1]
<1>1. SUFFICES ASSUME T # {} PROVE FALSE
  OBVIOUS
<1>2. PICK m \in T : \A k \in T : m <= k
  BY <1>1, LeastExists
<1>3. m \in Nat /\ ~\E g : Scans(end, m, g)
  OBVIOUS
<1>4. m # 0
  <2> DEFINE g == [k \in 0..0 |-> begin]
  <2>1. Scans(end, 0, g)
    BY DEF Scans
  <2> QED BY <1>3, <2>1
<1>5. PICK g : Scans(end, m - 1, g)
  BY <1>2, <1>3, <1>4
<1> DEFINE longer == [k \in 0..m |-> IF k < m THEN g[k] ELSE ScanFrom(g[m - 1], m - 1, end)]
           again == [k \in 0..m |-> IF k = 0 THEN begin ELSE ScanFrom(longer[k - 1], k - 1, end)]
<1>6. ASSUME NEW k \in 0..m PROVE longer[k] = again[k]
  <2>1. CASE k = m
    BY <1>3, <1>4, <2>1
  <2>2. CASE k # m
    <3>1. k \in 0..m - 1 /\ (k # 0 => k - 1 \in 0..m - 1 /\ k - 1 \in 0..m /\ k - 1 < m)
      BY <1>3, <2>2
    <3>2. g[k] = IF k = 0 THEN begin ELSE ScanFrom(g[k - 1], k - 1, end)
      BY <1>5, <3>1 DEF Scans
    <3> QED BY <1>3, <2>2, <3>1, <3>2
  <2> QED BY <2>1, <2>2
<1>7. longer = again
  BY <1>6
<1>8. Scans(end, m, longer)
  BY <1>7 DEF Scans
<1> QED BY <1>3, <1>8

Scanned(end) == CHOOSE g : Scans(end, end, g)

LEMMA ScanByTurn ==
  ASSUME NEW end \in Nat
  PROVE  /\ UnclosedCodeBlock(end) = IF Scanned(end)[end].inside THEN Scanned(end)[end].at ELSE -1
         /\ Scanned(end)[0] = [next |-> 0, inside |-> FALSE, at |-> -1]
         /\ \A k \in 1..end : Scanned(end)[k] = ScanFrom(Scanned(end)[k - 1], k - 1, end)
<1> DEFINE G == Scanned(end)
<1>1. Scans(end, end, G)
  BY ScanExists DEF Scanned
<1>2. UnclosedCodeBlock(end) = IF G[end].inside THEN G[end].at ELSE -1
  BY DEF UnclosedCodeBlock, Scanned, Scans, ScanFrom
<1> HIDE DEF G
<1>3. /\ G[0] = [next |-> 0, inside |-> FALSE, at |-> -1]
      /\ \A k \in 1..end : G[k] = ScanFrom(G[k - 1], k - 1, end)
  <2>1. \A k \in 0..end : G[k] = IF k = 0 THEN [next |-> 0, inside |-> FALSE, at |-> -1] ELSE ScanFrom(G[k - 1], k - 1, end)
    BY <1>1 DEF Scans
  <2>2. 0 \in 0..end /\ \A k \in 1..end : k \in 0..end /\ k # 0
    OBVIOUS
  <2> QED BY <2>1, <2>2
<1> QED BY <1>2, <1>3 DEF G

\* An open block begins with a fence.
LEMMA UnclosedIsFence ==
  ASSUME NEW end \in Nat
  PROVE  \/ UnclosedCodeBlock(end) = -1
         \/ UnclosedCodeBlock(end) \in 0..end - 3 /\ Fence(UnclosedCodeBlock(end), end)
<1> DEFINE G == Scanned(end)
           Good(s) == s.inside => s.at \in 0..end - 3 /\ Fence(s.at, end)
<1>1. /\ UnclosedCodeBlock(end) = IF G[end].inside THEN G[end].at ELSE -1
      /\ G[0] = [next |-> 0, inside |-> FALSE, at |-> -1]
      /\ \A k \in 1..end : G[k] = ScanFrom(G[k - 1], k - 1, end)
  BY ScanByTurn
<1> HIDE DEF G
<1>2. \A k \in 0..end : Good(G[k])
  <2> DEFINE T == {k \in 0..end : ~Good(G[k])}
  <2>1. SUFFICES ASSUME T # {} PROVE FALSE
    OBVIOUS
  <2>2. PICK k \in T : \A j \in T : k <= j
    <3>1. T \in SUBSET Nat
      OBVIOUS
    <3> HIDE DEF T
    <3> QED BY <2>1, <3>1, LeastExists
  <2>3. k \in 0..end /\ ~Good(G[k])
    OBVIOUS
  <2>4. k # 0
    BY <1>1, <2>3
  <2>5. k \in 1..end /\ k - 1 \in 0..end /\ ~(k <= k - 1)
    BY <2>3, <2>4
  <2>6. Good(G[k - 1]) /\ G[k] = ScanFrom(G[k - 1], k - 1, end)
    BY <1>1, <2>2, <2>5
  <2>7. Fence(k - 1, end) => k - 1 \in 0..end - 3
    BY <2>5 DEF Fence
  <2> QED BY <2>3, <2>6, <2>7 DEF ScanFrom
<1>3. Good(G[end])
  BY <1>2
<1> QED BY <1>1, <1>3
-----------------------------------------------------------------------------
(* Every turn of the loop.                                                 *)

SplitInv == SplitType /\ InkOfAll(chunks) \in Seq(Runes) /\ InkKept /\ ChunksFit

LEMMA RunesAssociate ==
  ASSUME NEW a \in Seq(Runes), NEW b \in Seq(Runes), NEW d \in Seq(Runes)
  PROVE  (a \o b) \o d = a \o (b \o d)
BY ConcatAssociative

\* A chunk that fits and shows what the rest no longer shows.
LEMMA OneMoreChunk ==
  ASSUME SplitInv, NEW c \in Seq(Runes), Len(c) <= maxLen, chunks' = Append(chunks, c),
         rest' \in Seq(Runes), splitting' \in BOOLEAN, UNCHANGED <<content, maxLen>>,
         Ink(c) \o Ink(rest') = Ink(rest)
  PROVE  SplitInv'
<1>1. chunks \in Seq(Seq(Runes)) /\ Len(chunks) \in Nat /\ DOMAIN chunks = 1..Len(chunks)
  BY DEF SplitInv, SplitType
<1>2. /\ chunks' \in Seq(Seq(Runes)) /\ Len(chunks') = Len(chunks) + 1 /\ chunks'[Len(chunks) + 1] = c
      /\ \A i \in 1..Len(chunks) : chunks'[i] = chunks[i]
      /\ DOMAIN chunks' = 1..Len(chunks) + 1
  BY <1>1, AppendProperties
<1>3. SplitType'
  BY <1>2 DEF SplitInv, SplitType
<1>4. InkOfAll(chunks') = InkOfAll(chunks) \o Ink(c)
  BY <1>1, OneMorePiece
<1>5. /\ InkOfAll(chunks) \in Seq(Runes) /\ Ink(c) \in Seq(Runes) /\ Ink(rest') \in Seq(Runes)
      /\ InkOfAll(chunks) \o Ink(rest) = Ink(content)
  BY TrimsKeepInk DEF SplitInv, InkKept
<1> DEFINE a == InkOfAll(chunks)
           b == Ink(c)
           d == Ink(rest')
<1>6. (a \o b) \o d = a \o (b \o d) /\ a \o b \in Seq(Runes)
  <2>1. a \in Seq(Runes) /\ b \in Seq(Runes) /\ d \in Seq(Runes)
    BY <1>5
  <2> HIDE DEF a, b, d
  <2>2. a \o b \in Seq(Runes)
    BY <2>1, ConcatProperties
  <2>3. (a \o b) \o d = a \o (b \o d)
    BY <2>1, RunesAssociate
  <2> QED BY <2>2, <2>3
<1>7. InkOfAll(chunks') \o Ink(rest') = Ink(content')
  BY <1>4, <1>5, <1>6
<1>8. ChunksFit'
  <2> SUFFICES ASSUME NEW k \in DOMAIN chunks' PROVE Len(chunks'[k]) <= maxLen
    BY DEF ChunksFit
  <2>1. CASE k = Len(chunks) + 1
    BY <1>2, <2>1
  <2>2. CASE k # Len(chunks) + 1
    <3>1. k \in DOMAIN chunks /\ chunks'[k] = chunks[k]
      BY <1>1, <1>2, <2>2
    <3> QED BY <3>1 DEF SplitInv, ChunksFit
  <2> QED BY <2>1, <2>2
<1> QED BY <1>3, <1>4, <1>6, <1>7, <1>8 DEF SplitInv, InkKept

\* The runes that SplitMessage adds do not show, and the closing fence has a line of its own.
LEMMA AddedRunes ==
  /\ Closing \in Seq(Runes) /\ Len(Closing) = 4 /\ Ink(Closing) = <<>>
  /\ Closing[1].kind = "newline" /\ \A i \in 2..4 : Closing[i].kind = "tick"
  /\ Newline \in Seq(Runes) /\ Len(Newline) = 1 /\ Ink(Newline) = <<>> /\ Newline[1].kind = "newline"
  /\ \A h \in Seq(Runes) : /\ Added(h) \in Seq(Runes) /\ Len(Added(h)) = Len(h) /\ Ink(Added(h)) = <<>>
                           /\ \A i \in 1..Len(h) : Added(h)[i].kind = h[i].kind
<1>1. /\ Newline \in Seq(Runes) /\ Len(Newline) = 1 /\ Newline[1] = Rune("newline", 0)
  BY DEF Newline, Rune, Runes, RuneKinds
<1> DEFINE ticks == [i \in 1..3 |-> Rune("tick", 0)]
<1>2. ticks \in Seq(Runes) /\ Len(ticks) = 3 /\ \A i \in 1..3 : ticks[i] = Rune("tick", 0)
  BY DEF Rune, Runes, RuneKinds
<1>3. Closing = Newline \o ticks
  BY DEF Closing
<1> HIDE DEF ticks
<1>4. /\ Closing \in Seq(Runes) /\ Len(Closing) = 4
      /\ \A i \in 1..4 : Closing[i] = IF i <= 1 THEN Newline[i] ELSE ticks[i - 1]
  <2>1. /\ Closing \in Seq(Runes) /\ Len(Closing) = Len(Newline) + Len(ticks)
        /\ \A i \in 1..Len(Newline) + Len(ticks) :
               Closing[i] = IF i <= Len(Newline) THEN Newline[i] ELSE ticks[i - Len(Newline)]
    BY <1>1, <1>2, <1>3, ConcatProperties
  <2> QED BY <1>1, <1>2, <2>1
<1>5. Closing[1] = Rune("newline", 0) /\ \A i \in 2..4 : Closing[i] = Rune("tick", 0)
  <2>1. \A i \in 2..4 : i \in 1..4 /\ ~(i <= 1) /\ i - 1 \in 1..3
    OBVIOUS
  <2> QED BY <1>1, <1>2, <1>4, <2>1
<1>6. \A i \in 1..4 : i = 1 \/ i \in 2..4
  OBVIOUS
<1>7. Ink(Closing) = <<>>
  <2>1. \A i \in 1..Len(Closing) : ~Shows(Closing[i])
    BY <1>4, <1>5, <1>6 DEF Shows, Rune
  <2> QED BY <1>4, <2>1, NothingShows
<1>8. Ink(Newline) = <<>>
  <2>1. \A i \in 1..Len(Newline) : ~Shows(Newline[i])
    BY <1>1 DEF Shows, Rune
  <2> QED BY <1>1, <2>1, NothingShows
<1>9. ASSUME NEW h \in Seq(Runes)
      PROVE  /\ Added(h) \in Seq(Runes) /\ Len(Added(h)) = Len(h) /\ Ink(Added(h)) = <<>>
             /\ \A i \in 1..Len(h) : Added(h)[i].kind = h[i].kind
  <2>1. DOMAIN h = 1..Len(h) /\ Len(h) \in Nat /\ \A i \in 1..Len(h) : h[i] \in Runes
    OBVIOUS
  <2>2. Added(h) = [i \in 1..Len(h) |-> Rune(h[i].kind, 0)]
    BY <2>1 DEF Added
  <2>3. \A i \in 1..Len(h) : Rune(h[i].kind, 0) \in Runes
    BY <2>1 DEF Rune, Runes
  <2>4. Added(h) \in Seq(Runes) /\ Len(Added(h)) = Len(h) /\ \A i \in 1..Len(h) : Added(h)[i] = Rune(h[i].kind, 0)
    BY <2>1, <2>2, <2>3
  <2>5. \A kind : ~Shows(Rune(kind, 0)) /\ Rune(kind, 0).kind = kind
    BY DEF Shows, Rune
  <2>6. \A i \in 1..Len(Added(h)) : ~Shows(Added(h)[i])
    BY <2>4, <2>5
  <2>7. Ink(Added(h)) = <<>>
    BY <2>4, <2>6, NothingShows
  <2>8. \A i \in 1..Len(h) : Added(h)[i].kind = h[i].kind
    BY <2>4, <2>5
  <2> QED BY <2>4, <2>7, <2>8
<1> QED BY <1>1, <1>4, <1>5, <1>7, <1>8, <1>9 DEF Rune

LEMMA CutAtSound ==
  ASSUME SplitInv, Len(rest) > maxLen, UNCHANGED <<content, maxLen>>,
         NEW end \in Int, end <= maxLen, CutAt(end)
  PROVE  SplitInv'
<1> DEFINE cut == IF end <= 0 THEN EffectiveLimit ELSE end
           p == SubSeq(rest, 1, cut)
           q == SubSeq(rest, cut + 1, Len(rest))
<1>1. SplitType /\ rest \in Seq(Runes) /\ maxLen \in Nat
  BY DEF SplitInv, SplitType
<1>2. cut \in 1..maxLen /\ cut \in 0..Len(rest)
  <2>1. EffectiveLimit \in 1..maxLen
    BY <1>1, LimitsFit
  <2> QED BY <1>1, <2>1
<1>3. chunks' = Append(chunks, p) /\ rest' = TrimmedLeft(q) /\ splitting' \in BOOLEAN
  BY DEF CutAt
<1> HIDE DEF cut
<1>4. p \in Seq(Runes) /\ Len(p) = cut /\ q \in Seq(Runes) /\ p \o q = rest
  BY <1>1, <1>2, CutInTwo
<1> HIDE DEF p, q
<1>5. rest' \in Seq(Runes) /\ Ink(rest') = Ink(q)
  BY <1>3, <1>4, TrimLeft, TrimsKeepInk
<1>6. Ink(p) \o Ink(rest') = Ink(rest)
  <2>1. Ink(p \o q) = Ink(p) \o Ink(q)
    BY <1>4, InkJoined
  <2> QED BY <1>4, <1>5, <2>1
<1>7. Len(p) <= maxLen
  BY <1>1, <1>2, <1>4
<1> QED BY <1>3, <1>4, <1>5, <1>6, <1>7, OneMoreChunk

LEMMA CutInsideSound ==
  ASSUME SplitInv, Len(rest) > maxLen, UNCHANGED <<content, maxLen>>,
         NEW end \in Nat, end <= maxLen - 4, NEW header \in Seq(Runes), CutInside(end, header)
  PROVE  SplitInv'
<1> DEFINE p == SubSeq(rest, 1, end)
           q == SubSeq(rest, end + 1, Len(rest))
           c == TrimmedRight(p) \o Closing
           h == Added(header) \o Newline
           t == h \o q
<1>1. rest \in Seq(Runes) /\ maxLen \in Nat /\ end \in 0..Len(rest)
  BY DEF SplitInv, SplitType
<1>2. chunks' = Append(chunks, c) /\ rest' = TrimmedRight(TrimmedLeft(t)) /\ splitting' \in BOOLEAN
  BY DEF CutInside
<1>3. p \in Seq(Runes) /\ Len(p) = end /\ q \in Seq(Runes) /\ p \o q = rest
  BY <1>1, CutInTwo
<1> HIDE DEF p, q
<1>4. /\ TrimmedRight(p) \in Seq(Runes) /\ Len(TrimmedRight(p)) <= end /\ Len(TrimmedRight(p)) \in Nat
      /\ Ink(TrimmedRight(p)) = Ink(p)
  <2>1. TrimmedRight(p) \in Seq(Runes) /\ Len(TrimmedRight(p)) <= Len(p)
    BY <1>3, TrimRight
  <2>2. Len(TrimmedRight(p)) \in Nat
    BY <2>1, LenProperties
  <2> QED BY <1>3, <2>1, <2>2, TrimsKeepInk
<1>5. Closing \in Seq(Runes) /\ Len(Closing) = 4 /\ Ink(Closing) = <<>>
      /\ Added(header) \in Seq(Runes) /\ Ink(Added(header)) = <<>> /\ Newline \in Seq(Runes) /\ Ink(Newline) = <<>>
  BY AddedRunes
<1>6. \A x \in Seq(Runes) : x \o <<>> = x /\ <<>> \o x = x
  BY ConcatEmptySeq
<1>7. Ink(p) \in Seq(Runes) /\ Ink(q) \in Seq(Runes) /\ <<>> \in Seq(Runes)
  BY <1>3, TrimsKeepInk, EmptySeq
<1>8. c \in Seq(Runes) /\ Len(c) <= maxLen /\ Ink(c) = Ink(p)
  <2>1. c \in Seq(Runes) /\ Len(c) = Len(TrimmedRight(p)) + Len(Closing)
    BY <1>4, <1>5, ConcatProperties
  <2>2. Ink(c) = Ink(p) \o <<>>
    <3>1. Ink(TrimmedRight(p) \o Closing) = Ink(TrimmedRight(p)) \o Ink(Closing)
      BY <1>4, <1>5, InkJoined
    <3> QED BY <1>4, <1>5, <3>1
  <2> QED BY <1>1, <1>4, <1>5, <1>6, <1>7, <2>1, <2>2
<1>9. t \in Seq(Runes) /\ Ink(t) = Ink(q)
  <2>1. h \in Seq(Runes) /\ Ink(h) = <<>> \o <<>>
    BY <1>5, ConcatProperties, InkJoined
  <2>2. t \in Seq(Runes) /\ Ink(t) = Ink(h) \o Ink(q)
    <3> HIDE DEF h
    <3> QED BY <1>3, <2>1, ConcatProperties, InkJoined
  <2> QED BY <1>6, <1>7, <2>1, <2>2
<1> HIDE DEF c, h, t
<1>10. rest' \in Seq(Runes) /\ Ink(rest') = Ink(q)
  <2>1. TrimmedLeft(t) \in Seq(Runes) /\ Ink(TrimmedLeft(t)) = Ink(t)
    BY <1>9, TrimLeft, TrimsKeepInk
  <2>2. TrimmedRight(TrimmedLeft(t)) \in Seq(Runes) /\ Ink(TrimmedRight(TrimmedLeft(t))) = Ink(TrimmedLeft(t))
    BY <2>1, TrimRight, TrimsKeepInk
  <2> QED BY <1>2, <1>9, <2>1, <2>2
<1>11. Ink(c) \o Ink(rest') = Ink(rest)
  <2>1. Ink(p \o q) = Ink(p) \o Ink(q)
    BY <1>3, InkJoined
  <2> QED BY <1>3, <1>8, <1>10, <2>1
<1> QED BY <1>2, <1>8, <1>10, <1>11, OneMoreChunk

\* The block that does not fit: where its first line ends, and the line.
LineEnds(open)  == {i \in open..Len(rest) - 1 : Is(i, {"newline"})}
HeaderOf(open)  == TrimmedRight(IF LineEnds(open) = {} THEN SubSeq(rest, open + 1, open + 3)
                                ELSE SubSeq(rest, open + 1, Smallest(LineEnds(open))))
HeaderEnd(open) == IF LineEnds(open) = {} THEN open + Len(HeaderOf(open)) ELSE Smallest(LineEnds(open))

LEMMA FirstLineEnd ==
  ASSUME SplitType, NEW open \in Nat, LineEnds(open) # {}
  PROVE  /\ Smallest(LineEnds(open)) \in LineEnds(open) /\ Smallest(LineEnds(open)) \in open..Len(rest) - 1
         /\ \A i \in LineEnds(open) : Smallest(LineEnds(open)) <= i
<1> DEFINE ends == LineEnds(open)
<1>1. ends \in SUBSET Nat /\ ends \subseteq open..Len(rest) - 1
  <2>1. open..Len(rest) - 1 \subseteq Nat
    BY DEF SplitType
  <2> QED BY <2>1 DEF LineEnds
<1> HIDE DEF ends
<1>2. \E i \in ends : \A j \in ends : i <= j
  BY <1>1, LeastExists DEF ends
<1>3. Smallest(ends) \in ends /\ \A j \in ends : Smallest(ends) <= j
  BY <1>2 DEF Smallest
<1> QED BY <1>1, <1>3 DEF ends

LEMMA HeaderTyped ==
  ASSUME SplitType, NEW open \in 0..Len(rest) - 3
  PROVE  HeaderOf(open) \in Seq(Runes) /\ HeaderEnd(open) \in Nat /\ HeaderEnd(open) >= open
<1>1. rest \in Seq(Runes) /\ open \in Nat /\ Len(rest) \in Nat /\ \A i \in 1..Len(rest) : rest[i] \in Runes
  BY DEF SplitType
<1>2. \A m \in Nat : m <= Len(rest) => SubSeq(rest, open + 1, m) \in Seq(Runes)
  <2> TAKE m \in Nat
  <2>1. m <= Len(rest) => \A i \in open + 1..m : rest[i] \in Runes
    BY <1>1
  <2> QED BY <1>1, <2>1, SubSeqProperties
<1>3. CASE LineEnds(open) = {}
  <2>1. HeaderOf(open) = TrimmedRight(SubSeq(rest, open + 1, open + 3)) /\ HeaderEnd(open) = open + Len(HeaderOf(open))
    BY <1>3 DEF HeaderOf, HeaderEnd
  <2>2. HeaderOf(open) \in Seq(Runes)
    <3>1. open + 3 \in Nat /\ open + 3 <= Len(rest)
      BY <1>1
    <3>2. SubSeq(rest, open + 1, open + 3) \in Seq(Runes)
      BY <1>2, <3>1
    <3> QED BY <2>1, <3>2, TrimRight
  <2>3. Len(HeaderOf(open)) \in Nat
    BY <2>2
  <2> QED BY <1>1, <2>1, <2>2, <2>3
<1>4. CASE LineEnds(open) # {}
  <2> DEFINE m == Smallest(LineEnds(open))
  <2>1. m \in open..Len(rest) - 1
    BY <1>1, <1>4, FirstLineEnd
  <2>2. HeaderOf(open) = TrimmedRight(SubSeq(rest, open + 1, m)) /\ HeaderEnd(open) = m
    BY <1>4 DEF HeaderOf, HeaderEnd
  <2> HIDE DEF m
  <2>3. m \in Nat /\ m <= Len(rest) /\ m >= open
    BY <1>1, <2>1
  <2>4. SubSeq(rest, open + 1, m) \in Seq(Runes)
    BY <1>2, <2>3
  <2>5. HeaderOf(open) \in Seq(Runes)
    BY <2>2, <2>4, TrimRight
  <2> QED BY <2>2, <2>3, <2>5
<1> QED BY <1>3, <1>4

\* Where a block that does not fit is cut.
LEMMA BlockCuts ==
  ASSUME SplitType, Len(rest) > maxLen, maxLen >= 5, NEW msgEnd \in Nat, NEW open \in 0..Len(rest) - 3,
         CutBlock(open, msgEnd)
  PROVE  \/ \E end \in Nat : /\ CutInside(end, HeaderOf(open)) /\ end <= maxLen - 5
                             /\ end = maxLen - 5 \/ (end > HeaderEnd(open) /\ Is(end, {"newline"}))
         \/ \E before \in 1..open - 1 :
                /\ CutAt(before) /\ Is(before, {"newline", "space"})
                /\ \A i \in 1..open - 1 : i >= open - 200 /\ Is(i, {"newline"}) => i <= before /\ Is(before, {"newline"})
         \/ /\ CutAt(open) /\ open > 20
            /\ \A i \in 1..open - 1 : i >= open - 200 => ~Is(i, {"newline"})
<1> DEFINE better  == FindLast({"newline"}, InnerLimit, 200)
           newline == FindLast({"newline"}, open, 200)
           space   == FindLast({"space"}, open, 100)
           before  == IF newline > 0 THEN newline ELSE space
<1>1. InnerLimit = maxLen - 5 /\ InnerLimit \in Nat
  BY DEF InnerLimit, AtMost, SplitType
<1>2. IF msgEnd > HeaderEnd(open) + 20
      THEN CutInside(IF better > HeaderEnd(open) THEN better ELSE InnerLimit, HeaderOf(open))
      ELSE IF before > 0 THEN CutAt(before)
      ELSE IF open > 20 THEN CutAt(open)
      ELSE CutInside(InnerLimit, HeaderOf(open))
  BY DEF CutBlock, HeaderOf, HeaderEnd, LineEnds
<1>3. /\ better \in Int /\ better < InnerLimit /\ (better = -1 \/ Is(better, {"newline"}))
  BY <1>1, FoundLast
<1>4. /\ newline \in Int /\ newline < open /\ (newline = -1 \/ Is(newline, {"newline"}))
      /\ \A i \in 0..open - 1 : i >= open - 200 /\ Is(i, {"newline"}) => i <= newline
  BY FoundLast
<1>5. space \in Int /\ space < open /\ (space = -1 \/ Is(space, {"space"}))
  BY FoundLast
<1>6. HeaderEnd(open) \in Nat /\ open \in Nat
  BY HeaderTyped
<1>7. \A i : (Is(i, {"newline"}) => Is(i, {"newline", "space"})) /\ (Is(i, {"space"}) => Is(i, {"newline", "space"}))
  BY DEF Is
<1> HIDE DEF better, newline, space
<1>8. CASE msgEnd > HeaderEnd(open) + 20
  <2>1. CASE better > HeaderEnd(open)
    <3>1. better \in Nat /\ better <= maxLen - 5 /\ Is(better, {"newline"})
      BY <1>1, <1>3, <1>6, <2>1
    <3> QED BY <1>2, <1>8, <2>1, <3>1
  <2>2. CASE ~(better > HeaderEnd(open))
    <3>1. CutInside(InnerLimit, HeaderOf(open))
      BY <1>2, <1>8, <2>2
    <3>2. InnerLimit <= maxLen - 5
      BY <1>1
    <3> QED BY <1>1, <3>1, <3>2
  <2> QED BY <2>1, <2>2
<1>9. CASE ~(msgEnd > HeaderEnd(open) + 20)
  <2>1. CASE newline > 0
    <3>1. CutAt(newline) /\ newline \in 1..open - 1 /\ Is(newline, {"newline"})
      BY <1>2, <1>4, <1>6, <1>9, <2>1
    <3>2. \A i \in 1..open - 1 : i >= open - 200 /\ Is(i, {"newline"}) => i <= newline
      BY <1>4, <1>6
    <3> QED BY <1>7, <3>1, <3>2
  <2>2. CASE ~(newline > 0)
    <3>1. \A i \in 1..open - 1 : i >= open - 200 => ~Is(i, {"newline"})
      BY <1>4, <1>6, <2>2
    <3>2. CASE space > 0
      <4>1. CutAt(space) /\ space \in 1..open - 1 /\ Is(space, {"space"})
        BY <1>2, <1>5, <1>6, <1>9, <2>2, <3>2
      <4> QED BY <1>7, <3>1, <4>1
    <3>3. CASE ~(space > 0)
      <4>1. CASE open > 20
        <5>1. CutAt(open)
          BY <1>2, <1>9, <2>2, <3>3, <4>1
        <5> QED BY <3>1, <4>1, <5>1
      <4>2. CASE ~(open > 20)
        <5>1. CutInside(InnerLimit, HeaderOf(open))
          BY <1>2, <1>9, <2>2, <3>3, <4>2
        <5>2. InnerLimit <= maxLen - 5
          BY <1>1
        <5> QED BY <1>1, <5>1, <5>2
      <4> QED BY <4>1, <4>2
    <3> QED BY <3>2, <3>3
  <2> QED BY <2>1, <2>2
<1> QED BY <1>8, <1>9

\* The fence that closes: the first one from a place on.
LEMMA FirstFence ==
  ASSUME SplitType, NEW from \in Nat
  PROVE  LET closing == ClosingCodeBlock(from) IN
         /\ closing \in Int
         /\ \/ closing = -1 /\ \A i \in from..Len(rest) - 1 : ~Fence(i, Len(rest))
            \/ /\ closing - 3 \in from..Len(rest) - 1 /\ Fence(closing - 3, Len(rest))
               /\ \A i \in from..Len(rest) - 1 : Fence(i, Len(rest)) => closing - 3 <= i
<1> DEFINE fences == {i \in from..Len(rest) - 1 : Fence(i, Len(rest))}
<1>1. CASE fences = {}
  BY <1>1 DEF ClosingCodeBlock
<1>2. CASE fences # {}
  <2>1. fences \in SUBSET Nat /\ Len(rest) \in Nat
    BY DEF SplitType
  <2>2. \E i \in fences : \A j \in fences : i <= j
    <3> HIDE DEF fences
    <3> QED BY <1>2, <2>1, LeastExists
  <2> DEFINE m == Smallest(fences)
  <2>3. m \in fences /\ \A j \in fences : m <= j
    BY <2>2 DEF Smallest
  <2>4. ClosingCodeBlock(from) = m + 3
    BY <1>2 DEF ClosingCodeBlock
  <2> HIDE DEF m
  <2>5. m \in Int /\ m + 3 - 3 = m
    BY <2>1, <2>3
  <2> QED BY <2>3, <2>4, <2>5
<1> QED BY <1>1, <1>2

LEMMA StepKeepsText == SplitInv /\ [SplitStep]_splitVars => SplitInv'
<1> SUFFICES ASSUME SplitInv, [SplitStep]_splitVars PROVE SplitInv'
  OBVIOUS
<1>1. CASE UNCHANGED splitVars
  BY <1>1 DEF SplitInv, SplitType, InkKept, ChunksFit, splitVars
<1>2. CASE SplitStep
  <2> DEFINE msgEnd == NaturalEnd
             open == UnclosedCodeBlock(msgEnd)
             closing == ClosingCodeBlock(msgEnd)
  <2>1. SplitType /\ rest \in Seq(Runes) /\ maxLen \in Nat /\ Len(rest) \in Nat /\ UNCHANGED <<content, maxLen>>
    BY <1>2 DEF SplitInv, SplitType, SplitStep
  <2>2. CASE Len(rest) <= maxLen
    <3>1. chunks' = Append(chunks, rest) /\ rest' = <<>> /\ splitting' = FALSE
      BY <1>2, <2>2 DEF SplitStep
    <3>2. Ink(<<>>) = <<>> /\ <<>> \in Seq(Runes) /\ Ink(rest) \in Seq(Runes) /\ \A x \in Seq(Runes) : x \o <<>> = x
      <4>1. <<>> \in Seq(Runes) /\ \A i \in 1..Len(<<>>) : ~Shows(<<>>[i])
        OBVIOUS
      <4>2. Ink(<<>>) = <<>>
        BY <4>1, NothingShows
      <4> QED BY <2>1, <4>1, <4>2, TrimsKeepInk, ConcatEmptySeq
    <3> QED BY <2>1, <2>2, <3>1, <3>2, OneMoreChunk
  <2>3. CASE Len(rest) > maxLen
    <3>1. IF open < 0 THEN CutAt(msgEnd)
          ELSE IF closing > 0 /\ closing <= maxLen THEN CutAt(closing)
          ELSE CutBlock(open, msgEnd)
      BY <1>2, <2>1, <2>3 DEF SplitStep
    <3>2. msgEnd \in Nat /\ msgEnd <= maxLen /\ msgEnd <= EffectiveLimit /\ (maxLen < 5 => msgEnd <= 2)
      BY <2>1, LimitsFit
    <3> HIDE DEF msgEnd
    <3>3. open = -1 \/ open \in 0..msgEnd - 3
      BY <3>2, UnclosedIsFence
    <3>4. closing \in Int
      BY <2>1, <3>2, FirstFence
    <3> HIDE DEF open, closing
    <3>5. CASE open < 0
      BY <2>1, <2>3, <3>1, <3>2, <3>5, CutAtSound
    <3>6. CASE ~(open < 0) /\ closing > 0 /\ closing <= maxLen
      BY <2>1, <2>3, <3>1, <3>4, <3>6, CutAtSound
    <3>7. CASE ~(open < 0) /\ ~(closing > 0 /\ closing <= maxLen)
      <4>1. CutBlock(open, msgEnd)
        BY <3>1, <3>7
      <4>2. open \in 0..Len(rest) - 3 /\ maxLen >= 5 /\ open <= maxLen /\ open \in Int
        BY <2>1, <2>3, <3>2, <3>3, <3>7
      <4>3. ASSUME NEW end \in Nat, CutInside(end, HeaderOf(open)), end <= maxLen - 5 PROVE SplitInv'
        <5>1. HeaderOf(open) \in Seq(Runes) /\ end <= maxLen - 4
          BY <2>1, <4>2, <4>3, HeaderTyped
        <5> QED BY <2>1, <2>3, <4>3, <5>1, CutInsideSound
      <4>4. ASSUME NEW end \in Int, CutAt(end), end <= open PROVE SplitInv'
        <5>1. end <= maxLen
          BY <2>1, <4>2, <4>4
        <5> QED BY <2>1, <2>3, <4>4, <5>1, CutAtSound
      <4>5. CASE \E end \in Nat : CutInside(end, HeaderOf(open)) /\ end <= maxLen - 5
        BY <4>3, <4>5
      <4>6. CASE \E before \in 1..open - 1 : CutAt(before)
        <5>1. PICK before \in 1..open - 1 : CutAt(before)
          BY <4>6
        <5>2. before \in Int /\ before <= open
          BY <4>2, <5>1
        <5> QED BY <4>4, <5>1, <5>2
      <4>7. CASE CutAt(open)
        BY <4>2, <4>4, <4>7
      <4> QED BY <2>1, <2>3, <3>2, <4>1, <4>2, <4>5, <4>6, <4>7, BlockCuts
    <3> QED BY <3>5, <3>6, <3>7
  <2> QED BY <2>1, <2>2, <2>3
<1> QED BY <1>1, <1>2

LEMMA BeginsWhole == SplitInit => SplitInv
<1> SUFFICES ASSUME SplitInit PROVE SplitInv
  OBVIOUS
<1>1. PICK text \in Messages : content = [i \in 1..Len(text) |-> Rune(text[i], i)]
  BY DEF SplitInit
<1>2. text \in Seq(RuneKinds) /\ Len(text) \in Nat /\ \A i \in 1..Len(text) : text[i] \in RuneKinds
  BY SplitAssumption
<1>3. content \in Seq(Runes)
  <2>1. \A i \in 1..Len(text) : Rune(text[i], i) \in Runes
    BY <1>2 DEF Rune, Runes
  <2> QED BY <1>1, <1>2, <2>1
<1>4. rest = content /\ chunks = <<>> /\ splitting = TRUE /\ maxLen \in Nat \ {0}
  BY SplitAssumption DEF SplitInit
<1>5. chunks \in Seq(Seq(Runes)) /\ Len(chunks) = 0 /\ DOMAIN chunks = {}
  BY <1>4
<1>6. InkOfAll(chunks) = <<>>
  BY <1>5, InkByPiece
<1>7. Ink(content) \in Seq(Runes) /\ <<>> \o Ink(content) = Ink(content) /\ <<>> \in Seq(Runes)
  BY <1>3, TrimsKeepInk, ConcatEmptySeq, EmptySeq
<1> QED BY <1>3, <1>4, <1>5, <1>6, <1>7 DEF SplitInv, SplitType, InkKept, ChunksFit

\* Whatever the text and the limit, every visible rune of it goes out exactly once and in
\* its place, and no chunk is longer than the platform takes (SplitMessage).
THEOREM SplitKeepsTheText == SplitSpec => [](InkKept /\ ChunksFit)
<1>1. SplitSpec => []SplitInv
  BY BeginsWhole, StepKeepsText, PTL DEF SplitSpec
<1>2. SplitInv => InkKept /\ ChunksFit
  BY DEF SplitInv
<1> QED BY <1>1, <1>2, PTL
-----------------------------------------------------------------------------
(* The fences.                                                             *)

LEMMA Parity ==
  ASSUME NEW a \in Nat, NEW b \in Nat
  PROVE  ((a + b) % 2 = 0) <=> ((a % 2 = 0) <=> (b % 2 = 0))
OBVIOUS

LEMMA FencesFinite ==
  ASSUME NEW s \in Seq(Runes)
  PROVE  Fences(s) \subseteq 1..Len(s) /\ IsFiniteSet(Fences(s)) /\ Cardinality(Fences(s)) \in Nat
<1>1. Len(s) \in Nat
  OBVIOUS
<1>2. Fences(s) \subseteq 1..Len(s)
  BY <1>1 DEF Fences
<1>3. IsFiniteSet(1..Len(s))
  BY <1>1, FS_Interval
<1> QED BY <1>2, <1>3, FS_Subset, FS_CardinalityType

\* A fence is three ticks.
LEMMA FenceIs ==
  ASSUME NEW s \in Seq(Runes), NEW i \in Int
  PROVE  i \in Fences(s) <=> /\ i >= 1 /\ i + 2 <= Len(s)
                             /\ s[i].kind = "tick" /\ s[i + 1].kind = "tick" /\ s[i + 2].kind = "tick"
<1>1. Len(s) \in Nat /\ 0..2 = {0, 1, 2} /\ i + 0 = i
  OBVIOUS
<1>2. i \in Fences(s) <=> i \in 1..Len(s) - 2 /\ \A d \in {0, 1, 2} : s[i + d].kind = "tick"
  BY <1>1 DEF Fences
<1>3. (\A d \in {0, 1, 2} : s[i + d].kind = "tick")
      <=> s[i].kind = "tick" /\ s[i + 1].kind = "tick" /\ s[i + 2].kind = "tick"
  BY <1>1
<1> QED BY <1>1, <1>2, <1>3

\* Moving a set of numbers keeps how many they are.
LEMMA MovedCount ==
  ASSUME NEW S, IsFiniteSet(S), S \subseteq Int, NEW m \in Int
  PROVE  IsFiniteSet({i + m : i \in S}) /\ Cardinality({i + m : i \in S}) = Cardinality(S)
<1> DEFINE T == {i + m : i \in S}
           f == [i \in S |-> i + m]
<1>1. f \in Bijection(S, T)
  <2>1. f \in [S -> T]
    OBVIOUS
  <2>2. \A a, b \in S : f[a] = f[b] => a = b
    OBVIOUS
  <2>3. \A t \in T : \E a \in S : f[a] = t
    OBVIOUS
  <2> HIDE DEF f, T
  <2> QED BY <2>1, <2>2, <2>3 DEF Bijection, Injection, Surjection, IsInjective
<1>2. ExistsBijection(S, T)
  BY <1>1 DEF ExistsBijection
<1> HIDE DEF T
<1> QED BY <1>2, FS_Bijection DEF T

\* No fence reaches over a place.
Apart(s, k) == \A i \in Fences(s) : i + 2 <= k \/ i > k

\* When no fence reaches over the seam, each part has its own.
LEMMA ClosedJoined ==
  ASSUME NEW p \in Seq(Runes), NEW q \in Seq(Runes), Apart(p \o q, Len(p))
  PROVE  Closed(p \o q) <=> (Closed(p) <=> Closed(q))
<1> DEFINE s == p \o q
           m == Len(p)
           n == Len(q)
           P == Fences(p)
           Q == Fences(q)
           moved == {i + m : i \in Q}
<1>1. /\ s \in Seq(Runes) /\ Len(s) = m + n /\ m \in Nat /\ n \in Nat
      /\ \A i \in 1..m + n : s[i] = IF i <= m THEN p[i] ELSE q[i - m]
  BY ConcatProperties
<1>2. \A i \in Fences(s) : i + 2 <= m \/ i > m
  BY DEF Apart
<1>3. P \subseteq 1..m /\ IsFiniteSet(P) /\ Q \subseteq 1..n /\ IsFiniteSet(Q) /\ Cardinality(P) \in Nat /\ Cardinality(Q) \in Nat
  BY FencesFinite
<1> HIDE DEF s, m, n
<1>4. \A i \in Int : i + 2 <= m => (i \in Fences(s) <=> i \in P)
  <2> SUFFICES ASSUME NEW i \in Int, i + 2 <= m PROVE i \in Fences(s) <=> i \in P
    OBVIOUS
  <2>1. i \in Fences(s) <=> i >= 1 /\ i + 2 <= m + n /\ s[i].kind = "tick" /\ s[i + 1].kind = "tick" /\ s[i + 2].kind = "tick"
    BY <1>1, FenceIs
  <2>2. i \in P <=> i >= 1 /\ i + 2 <= m /\ p[i].kind = "tick" /\ p[i + 1].kind = "tick" /\ p[i + 2].kind = "tick"
    BY FenceIs DEF m
  <2>3. i >= 1 => s[i] = p[i] /\ s[i + 1] = p[i + 1] /\ s[i + 2] = p[i + 2]
    BY <1>1
  <2> QED BY <1>1, <2>1, <2>2, <2>3
<1>5. \A i \in Int : i > m => (i \in Fences(s) <=> i - m \in Q)
  <2> SUFFICES ASSUME NEW i \in Int, i > m PROVE i \in Fences(s) <=> i - m \in Q
    OBVIOUS
  <2> DEFINE j == i - m
  <2>1. i \in Fences(s) <=> i >= 1 /\ i + 2 <= m + n /\ s[i].kind = "tick" /\ s[i + 1].kind = "tick" /\ s[i + 2].kind = "tick"
    BY <1>1, FenceIs
  <2>2. j \in Int /\ j >= 1 /\ (i + 2 <= m + n <=> j + 2 <= n)
    BY <1>1
  <2>3. i + 2 <= m + n => s[i] = q[j] /\ s[i + 1] = q[j + 1] /\ s[i + 2] = q[j + 2]
    <3> SUFFICES ASSUME i + 2 <= m + n PROVE s[i] = q[j] /\ s[i + 1] = q[j + 1] /\ s[i + 2] = q[j + 2]
      OBVIOUS
    <3>1. /\ i \in 1..m + n /\ ~(i <= m) /\ i + 1 \in 1..m + n /\ ~(i + 1 <= m) /\ i + 2 \in 1..m + n /\ ~(i + 2 <= m)
          /\ i + 1 - m = j + 1 /\ i + 2 - m = j + 2
      BY <1>1
    <3>2. s[i] = q[i - m] /\ s[i + 1] = q[i + 1 - m] /\ s[i + 2] = q[i + 2 - m]
      BY <1>1, <3>1
    <3> QED BY <3>1, <3>2
  <2> HIDE DEF j
  <2>4. j \in Q <=> j >= 1 /\ j + 2 <= n /\ q[j].kind = "tick" /\ q[j + 1].kind = "tick" /\ q[j + 2].kind = "tick"
    BY <2>2, FenceIs DEF n
  <2>5. ASSUME i \in Fences(s) PROVE j \in Q
    <3>1. i + 2 <= m + n /\ s[i].kind = "tick" /\ s[i + 1].kind = "tick" /\ s[i + 2].kind = "tick"
      BY <2>1, <2>5
    <3> QED BY <2>2, <2>3, <2>4, <3>1
  <2>6. ASSUME j \in Q PROVE i \in Fences(s)
    <3>1. i + 2 <= m + n /\ q[j].kind = "tick" /\ q[j + 1].kind = "tick" /\ q[j + 2].kind = "tick"
      BY <2>2, <2>4, <2>6
    <3>2. i >= 1
      BY <1>1
    <3> QED BY <2>1, <2>3, <3>1, <3>2
  <2> QED BY <2>5, <2>6 DEF j
<1>6. Fences(s) = P \cup moved
  <2>1. ASSUME NEW i \in Fences(s) PROVE i \in P \cup moved
    <3>1. i \in Int
      BY <1>1, FencesFinite
    <3>2. CASE i + 2 <= m
      BY <1>4, <3>1, <3>2
    <3>3. CASE i > m
      <4>1. i - m \in Q /\ i = (i - m) + m
        BY <1>1, <1>5, <3>1, <3>3
      <4> QED BY <4>1
    <3> QED BY <1>2, <3>2, <3>3
  <2>2. ASSUME NEW i \in P PROVE i \in Fences(s)
    <3>1. i \in Int /\ i + 2 <= m
      BY FenceIs, <1>3 DEF m
    <3> QED BY <1>4, <3>1
  <2>3. ASSUME NEW j \in Q PROVE j + m \in Fences(s)
    <3> DEFINE i == j + m
    <3>1. i \in Int /\ i > m /\ i - m = j
      BY <1>1, <1>3
    <3> HIDE DEF i
    <3>2. i \in Fences(s) <=> i - m \in Q
      BY <1>5, <3>1
    <3>3. i \in Fences(s)
      BY <3>1, <3>2
    <3> QED BY <3>3 DEF i
  <2> QED BY <2>1, <2>2, <2>3
<1>7. IsFiniteSet(moved) /\ Cardinality(moved) = Cardinality(Q)
  <2>1. Q \subseteq Int /\ m \in Int
    BY <1>1, <1>3
  <2> HIDE DEF Q
  <2> QED BY <1>3, <2>1, MovedCount
<1>8. P \cap moved = {}
  <2>1. \A i \in P : i <= m
    BY <1>1, <1>3
  <2>2. \A i \in moved : ~(i <= m)
    BY <1>1, <1>3
  <2> QED BY <2>1, <2>2
<1>9. Cardinality(Fences(s)) = Cardinality(P) + Cardinality(Q)
  <2> HIDE DEF P, Q, moved
  <2>1. Cardinality(P \cup moved) = Cardinality(P) + Cardinality(moved) - Cardinality(P \cap moved)
    BY <1>3, <1>7, FS_Union
  <2>2. Cardinality(P \cap moved) = 0
    BY <1>8, FS_EmptySet
  <2> QED BY <1>3, <1>6, <1>7, <2>1, <2>2
<1> HIDE DEF P, Q
<1>10. (Cardinality(Fences(s)) % 2 = 0) <=> ((Cardinality(P) % 2 = 0) <=> (Cardinality(Q) % 2 = 0))
  BY <1>3, <1>9, Parity
<1> QED BY <1>10 DEF Closed, s, P, Q

\* Sequences of the same kinds have the same fences.
LEMMA SameFences ==
  ASSUME NEW s \in Seq(Runes), NEW t \in Seq(Runes), Len(s) = Len(t), \A i \in 1..Len(s) : s[i].kind = t[i].kind
  PROVE  Fences(s) = Fences(t)
<1>1. Len(s) \in Nat
  OBVIOUS
<1>2. ASSUME NEW i \in Int PROVE i \in Fences(s) <=> i \in Fences(t)
  <2>1. i \in Fences(s) <=> i >= 1 /\ i + 2 <= Len(s) /\ s[i].kind = "tick" /\ s[i + 1].kind = "tick" /\ s[i + 2].kind = "tick"
    BY FenceIs
  <2>2. i \in Fences(t) <=> i >= 1 /\ i + 2 <= Len(s) /\ t[i].kind = "tick" /\ t[i + 1].kind = "tick" /\ t[i + 2].kind = "tick"
    BY FenceIs
  <2>3. i >= 1 /\ i + 2 <= Len(s) => i \in 1..Len(s) /\ i + 1 \in 1..Len(s) /\ i + 2 \in 1..Len(s)
    BY <1>1
  <2> QED BY <2>1, <2>2, <2>3
<1>3. (\A i \in Fences(s) : i \in Int) /\ \A i \in Fences(t) : i \in Int
  BY FencesFinite
<1> QED BY <1>2, <1>3

\* White space has no fence, and none reaches into it.
LEMMA BlankHasNone == \A w : Blank(w) => w \in Seq(Runes) /\ Fences(w) = {} /\ Closed(w)
<1> SUFFICES ASSUME NEW w, Blank(w) PROVE w \in Seq(Runes) /\ Fences(w) = {} /\ Closed(w)
  OBVIOUS
<1>1. w \in Seq(Runes) /\ Len(w) \in Nat /\ \A i \in 1..Len(w) : w[i].kind # "tick"
  BY DEF Blank, White
<1>2. ASSUME NEW i \in Fences(w) PROVE FALSE
  <2>1. i \in 1..Len(w)
    BY <1>1, FencesFinite
  <2>2. w[i].kind = "tick"
    BY <1>1, <2>1, FenceIs
  <2> QED BY <1>1, <2>1, <2>2
<1>3. Fences(w) = {} /\ Cardinality({}) = 0
  BY <1>2, FS_EmptySet
<1> QED BY <1>1, <1>3 DEF Closed

LEMMA SeamApart ==
  ASSUME NEW p \in Seq(Runes), NEW q \in Seq(Runes),
         \/ Len(p) = 0 \/ Len(q) = 0
         \/ Len(p) > 0 /\ p[Len(p)].kind # "tick"
         \/ Len(q) > 0 /\ q[1].kind # "tick"
  PROVE  Apart(p \o q, Len(p))
<1> DEFINE s == p \o q
           m == Len(p)
           n == Len(q)
<1>1. /\ s \in Seq(Runes) /\ Len(s) = m + n /\ m \in Nat /\ n \in Nat
      /\ \A i \in 1..m + n : s[i] = IF i <= m THEN p[i] ELSE q[i - m]
  BY ConcatProperties
<1>2. m = 0 \/ n = 0 \/ (m > 0 /\ p[m].kind # "tick") \/ (n > 0 /\ q[1].kind # "tick")
  OBVIOUS
<1> HIDE DEF s, m, n
<1>3. SUFFICES ASSUME NEW i \in Fences(s), ~(i + 2 <= m), ~(i > m) PROVE FALSE
  BY DEF Apart, s, m
<1>4. i \in Int
  BY <1>1, FencesFinite
<1>5. i >= 1 /\ i + 2 <= m + n /\ s[i].kind = "tick" /\ s[i + 1].kind = "tick" /\ s[i + 2].kind = "tick"
  BY <1>1, <1>4, FenceIs
<1>6. (i = m \/ i + 1 = m) /\ m \in 1..m + n /\ m + 1 \in 1..m + n
  BY <1>1, <1>3, <1>4, <1>5
<1>7. s[m] = p[m] /\ s[m + 1] = q[1]
  <2>1. ~(m + 1 <= m) /\ m + 1 - m = 1 /\ m <= m
    BY <1>1
  <2> QED BY <1>1, <1>6, <2>1
<1>8. s[m].kind = "tick" /\ s[m + 1].kind = "tick"
  BY <1>1, <1>4, <1>5, <1>6
<1>9. m > 0 /\ n > 0
  BY <1>1, <1>3, <1>4, <1>5
<1> QED BY <1>1, <1>2, <1>7, <1>8, <1>9

\* What precedes and what follows a place keep the form.
LEMMA LinedParts ==
  ASSUME NEW p \in Seq(Runes), NEW q \in Seq(Runes), Lined(p \o q)
  PROVE  Lined(p) /\ Lined(q)
<1> DEFINE s == p \o q
           m == Len(p)
           n == Len(q)
<1>1. /\ s \in Seq(Runes) /\ Len(s) = m + n /\ m \in Nat /\ n \in Nat
      /\ \A i \in 1..m + n : s[i] = IF i <= m THEN p[i] ELSE q[i - m]
  BY ConcatProperties
<1>2. \A i \in Fences(s) : i = 1 \/ s[i - 1].kind = "newline"
  BY DEF Lined
<1> HIDE DEF s, m, n
<1>3. ASSUME NEW i \in Fences(p) PROVE i = 1 \/ p[i - 1].kind = "newline"
  <2>1. i \in Int
    BY FencesFinite
  <2>2. i >= 1 /\ i + 2 <= m /\ p[i].kind = "tick" /\ p[i + 1].kind = "tick" /\ p[i + 2].kind = "tick"
    BY <2>1, FenceIs DEF m
  <2>3. s[i] = p[i] /\ s[i + 1] = p[i + 1] /\ s[i + 2] = p[i + 2] /\ (i # 1 => s[i - 1] = p[i - 1])
    BY <1>1, <2>1, <2>2
  <2>4. i + 2 <= Len(s) /\ s[i].kind = "tick" /\ s[i + 1].kind = "tick" /\ s[i + 2].kind = "tick"
    BY <1>1, <2>1, <2>2, <2>3
  <2>5. i \in Fences(s)
    BY <1>1, <2>1, <2>2, <2>4, FenceIs
  <2> QED BY <1>2, <2>3, <2>5
<1>4. ASSUME NEW j \in Fences(q) PROVE j = 1 \/ q[j - 1].kind = "newline"
  <2> DEFINE i == j + m
  <2>1. j \in Int
    BY FencesFinite
  <2>2. j >= 1 /\ j + 2 <= n /\ q[j].kind = "tick" /\ q[j + 1].kind = "tick" /\ q[j + 2].kind = "tick"
    BY <2>1, FenceIs DEF n
  <2>3. /\ i \in Int /\ i >= 1 /\ i + 2 <= m + n /\ i - m = j /\ i + 1 - m = j + 1 /\ i + 2 - m = j + 2 /\ i - 1 - m = j - 1
        /\ i \in 1..m + n /\ i + 1 \in 1..m + n /\ i + 2 \in 1..m + n /\ ~(i <= m) /\ ~(i + 1 <= m) /\ ~(i + 2 <= m)
        /\ (j # 1 => i - 1 \in 1..m + n /\ ~(i - 1 <= m) /\ i # 1)
    BY <1>1, <2>1, <2>2
  <2> HIDE DEF i
  <2>4. \A x \in 1..n : s[x + m] = q[x]
    <3> TAKE x \in 1..n
    <3>1. x + m \in 1..m + n /\ ~(x + m <= m) /\ x + m - m = x
      BY <1>1
    <3> QED BY <1>1, <3>1
  <2>5. s[i] = q[j] /\ s[i + 1] = q[j + 1] /\ s[i + 2] = q[j + 2]
    <3>1. j \in 1..n /\ j + 1 \in 1..n /\ j + 2 \in 1..n
      BY <1>1, <2>1, <2>2
    <3>2. s[j + m] = q[j] /\ s[(j + 1) + m] = q[j + 1] /\ s[(j + 2) + m] = q[j + 2]
      BY <2>4, <3>1
    <3>3. i = j + m /\ i + 1 = (j + 1) + m /\ i + 2 = (j + 2) + m
      BY <1>1, <2>1 DEF i
    <3> QED BY <3>2, <3>3
  <2>6. j # 1 => s[i - 1] = q[j - 1]
    <3> HAVE j # 1
    <3>1. j - 1 \in 1..n
      BY <1>1, <2>1, <2>2
    <3>2. s[(j - 1) + m] = q[j - 1]
      BY <2>4, <3>1
    <3>3. i - 1 = (j - 1) + m
      BY <1>1, <2>1 DEF i
    <3> QED BY <3>2, <3>3
  <2>7. i + 2 <= Len(s) /\ s[i].kind = "tick" /\ s[i + 1].kind = "tick" /\ s[i + 2].kind = "tick"
    BY <1>1, <2>2, <2>3, <2>5
  <2>8. i \in Fences(s)
    BY <1>1, <2>3, <2>7, FenceIs
  <2> QED BY <1>2, <2>3, <2>6, <2>8
<1>5. Lined(p) /\ Lined(q)
  BY <1>3, <1>4 DEF Lined
<1> QED BY <1>5

\* Trimming keeps the fences.
LEMMA TrimsKeepFences ==
  ASSUME NEW s \in Seq(Runes)
  PROVE  /\ (Closed(TrimmedRight(s)) <=> Closed(s)) /\ (Closed(TrimmedLeft(s)) <=> Closed(s))
         /\ Lined(s) => Lined(TrimmedRight(s)) /\ Lined(TrimmedLeft(s))
<1>1. PICK w : Blank(w) /\ TrimmedRight(s) \in Seq(Runes) /\ s = TrimmedRight(s) \o w
  BY TrimRight
<1>2. PICK v : Blank(v) /\ TrimmedLeft(s) \in Seq(Runes) /\ s = v \o TrimmedLeft(s)
  BY TrimLeft
<1> DEFINE a == TrimmedRight(s)
           b == TrimmedLeft(s)
<1> HIDE DEF a, b
<1>3. w \in Seq(Runes) /\ Closed(w) /\ v \in Seq(Runes) /\ Closed(v)
  BY <1>1, <1>2, BlankHasNone
<1>4. Len(w) \in Nat /\ Len(v) \in Nat /\ (Len(w) > 0 => w[1].kind # "tick") /\ (Len(v) > 0 => v[Len(v)].kind # "tick")
  <2>1. \A u : Blank(u) => /\ Len(u) \in Nat /\ (Len(u) > 0 => u[1].kind # "tick")
                           /\ (Len(u) > 0 => u[Len(u)].kind # "tick")
    <3> TAKE u
    <3> HAVE Blank(u)
    <3>1. u \in Seq(Runes) /\ Len(u) \in Nat /\ \A i \in 1..Len(u) : u[i].kind \in White
      BY DEF Blank
    <3>2. Len(u) > 0 => 1 \in 1..Len(u) /\ Len(u) \in 1..Len(u)
      BY <3>1
    <3>3. "tick" \notin White
      BY DEF White
    <3> QED BY <3>1, <3>2, <3>3
  <2> QED BY <1>1, <1>2, <2>1
<1>5. a \in Seq(Runes) /\ s = a \o w /\ b \in Seq(Runes) /\ s = v \o b
  BY <1>1, <1>2 DEF a, b
<1>6. Apart(a \o w, Len(a)) /\ Apart(v \o b, Len(v))
  <2>1. Len(w) = 0 \/ (Len(w) > 0 /\ w[1].kind # "tick")
    BY <1>4
  <2>2. Len(v) = 0 \/ (Len(v) > 0 /\ v[Len(v)].kind # "tick")
    BY <1>4
  <2>3. Apart(a \o w, Len(a))
    BY <1>3, <1>5, <2>1, SeamApart
  <2>4. Apart(v \o b, Len(v))
    BY <1>3, <1>5, <2>2, SeamApart
  <2> QED BY <2>3, <2>4
<1>7. Closed(s) <=> (Closed(a) <=> Closed(w))
  <2>1. Closed(a \o w) <=> (Closed(a) <=> Closed(w))
    BY <1>3, <1>5, <1>6, ClosedJoined
  <2> QED BY <1>5, <2>1
<1>8. Closed(s) <=> (Closed(v) <=> Closed(b))
  <2>1. Closed(v \o b) <=> (Closed(v) <=> Closed(b))
    BY <1>3, <1>5, <1>6, ClosedJoined
  <2> QED BY <1>5, <2>1
<1>9. Lined(s) => Lined(a) /\ Lined(b)
  <2>1. Lined(a \o w) => Lined(a)
    BY <1>3, <1>5, LinedParts
  <2>2. Lined(v \o b) => Lined(b)
    BY <1>3, <1>5, LinedParts
  <2> QED BY <1>5, <2>1, <2>2
<1> QED BY <1>3, <1>7, <1>8, <1>9 DEF a, b
-----------------------------------------------------------------------------
(* The fences that a cut leaves on each side.                              *)

\* The fences of what precedes a place are those that end before it.
LEMMA FencesBefore ==
  ASSUME NEW s \in Seq(Runes), NEW k \in 0..Len(s)
  PROVE  Fences(SubSeq(s, 1, k)) = {i \in Fences(s) : i + 2 <= k}
<1> DEFINE p == SubSeq(s, 1, k)
<1>1. p \in Seq(Runes) /\ Len(p) = k /\ k \in Nat /\ k <= Len(s) /\ Len(s) \in Nat /\ \A i \in 1..k : p[i] = s[i]
  BY CutInTwo
<1> HIDE DEF p
<1>2. ASSUME NEW i \in Int PROVE i \in Fences(p) <=> i \in Fences(s) /\ i + 2 <= k
  <2>1. i \in Fences(p) <=> i >= 1 /\ i + 2 <= k /\ p[i].kind = "tick" /\ p[i + 1].kind = "tick" /\ p[i + 2].kind = "tick"
    BY <1>1, FenceIs
  <2>2. i \in Fences(s) <=> i >= 1 /\ i + 2 <= Len(s) /\ s[i].kind = "tick" /\ s[i + 1].kind = "tick" /\ s[i + 2].kind = "tick"
    BY FenceIs
  <2>3. i >= 1 /\ i + 2 <= k => p[i] = s[i] /\ p[i + 1] = s[i + 1] /\ p[i + 2] = s[i + 2]
    BY <1>1
  <2> QED BY <1>1, <2>1, <2>2, <2>3
<1>3. (\A i \in Fences(p) : i \in Int) /\ \A i \in Fences(s) : i \in Int
  BY <1>1, FencesFinite
<1>4. Fences(p) = {i \in Fences(s) : i + 2 <= k}
  BY <1>2, <1>3
<1> QED BY <1>4 DEF p

\* Where no fence is cut, the two sides share the fences.
LEMMA CutClosed ==
  ASSUME NEW s \in Seq(Runes), NEW k \in 0..Len(s), Apart(s, k)
  PROVE  /\ Closed(s) <=> (Closed(SubSeq(s, 1, k)) <=> Closed(SubSeq(s, k + 1, Len(s))))
         /\ Lined(s) => Lined(SubSeq(s, k + 1, Len(s)))
<1> DEFINE p == SubSeq(s, 1, k)
           q == SubSeq(s, k + 1, Len(s))
<1>1. p \in Seq(Runes) /\ Len(p) = k /\ q \in Seq(Runes) /\ p \o q = s
  BY CutInTwo
<1> HIDE DEF p, q
<1>2. Apart(p \o q, Len(p))
  BY <1>1
<1>3. Closed(p \o q) <=> (Closed(p) <=> Closed(q))
  BY <1>1, <1>2, ClosedJoined
<1>4. Lined(p \o q) => Lined(q)
  BY <1>1, LinedParts
<1>5. (Closed(s) <=> (Closed(p) <=> Closed(q))) /\ (Lined(s) => Lined(q))
  BY <1>1, <1>3, <1>4
<1> QED BY <1>5 DEF p, q

\* One fence more, and what was closed is open.
LEMMA OneMoreFence ==
  ASSUME NEW s \in Seq(Runes), NEW t \in Seq(Runes), NEW x, x \notin Fences(s), Fences(t) = Fences(s) \cup {x}
  PROVE  Closed(t) <=> ~Closed(s)
<1> DEFINE n == Cardinality(Fences(s))
<1>1. IsFiniteSet(Fences(s)) /\ n \in Nat
  BY FencesFinite
<1>2. Cardinality(Fences(t)) = n + 1
  BY <1>1, FS_AddElement
<1> HIDE DEF n
<1>3. ((n + 1) % 2 = 0) <=> ~(n % 2 = 0)
  BY <1>1
<1> QED BY <1>2, <1>3 DEF Closed, n

\* In a text whose fences begin lines they do not touch each other.
LEMMA FencesDoNotTouch ==
  ASSUME NEW s \in Seq(Runes), Lined(s), NEW i \in Fences(s), NEW j \in Fences(s), i < j
  PROVE  i + 3 < j
<1>1. i \in Int /\ j \in Int /\ Len(s) \in Nat
  BY FencesFinite
<1>2. i >= 1 /\ i + 2 <= Len(s) /\ s[i].kind = "tick" /\ s[i + 1].kind = "tick" /\ s[i + 2].kind = "tick"
  BY <1>1, FenceIs
<1>3. j # 1 /\ s[j - 1].kind = "newline"
  <2>1. j # 1
    BY <1>1, <1>2
  <2> QED BY <2>1 DEF Lined
<1>4. j - 1 # i /\ j - 1 # i + 1 /\ j - 1 # i + 2
  BY <1>2, <1>3
<1> QED BY <1>1, <1>4

\* A fence of the rest, as the scans see it.
LEMMA FenceSeen ==
  ASSUME SplitType, NEW end \in 0..Len(rest), NEW i \in Nat
  PROVE  Fence(i, end) <=> i + 1 \in Fences(rest) /\ i + 3 <= end
<1>1. rest \in Seq(Runes) /\ Len(rest) \in Nat /\ end \in Nat
  BY DEF SplitType
<1>2. i + 1 \in Fences(rest) <=> /\ i + 1 >= 1 /\ i + 1 + 2 <= Len(rest) /\ rest[i + 1].kind = "tick"
                                 /\ rest[i + 1 + 1].kind = "tick" /\ rest[i + 1 + 2].kind = "tick"
  BY <1>1, FenceIs
<1>3. Fence(i, end) <=> i + 2 < end /\ \A d \in {0, 1, 2} : rest[i + d + 1].kind = "tick"
  <2>1. 0..2 = {0, 1, 2}
    OBVIOUS
  <2> QED BY <2>1 DEF Fence, Is
<1>4. (\A d \in {0, 1, 2} : rest[i + d + 1].kind = "tick")
      <=> rest[i + 0 + 1].kind = "tick" /\ rest[i + 1 + 1].kind = "tick" /\ rest[i + 2 + 1].kind = "tick"
  OBVIOUS
<1>5. i + 0 + 1 = i + 1 /\ i + 2 + 1 = i + 1 + 2
  OBVIOUS
<1> QED BY <1>1, <1>2, <1>3, <1>4, <1>5

\* The scan finds the last fence, and that it opens a block, just when there is an odd number of them.
LEMMA ScanCounts ==
  ASSUME SplitType, Lined(rest), NEW end \in 0..Len(rest)
  PROVE  /\ UnclosedCodeBlock(end) < 0 => Closed(SubSeq(rest, 1, end))
         /\ UnclosedCodeBlock(end) >= 0 =>
                /\ ~Closed(SubSeq(rest, 1, end))
                /\ \A i \in Fences(rest) : i + 2 <= end => i <= UnclosedCodeBlock(end) + 1
<1> DEFINE G == Scanned(end)
           F == {i \in Fences(rest) : i + 2 <= end}
           Upto(k) == {i \in F : i <= k}
           Counted(k) == G[k].inside <=> Cardinality(Upto(k)) % 2 # 0
           Latest(k) == G[k].inside => G[k].at \in Nat /\ \A i \in Upto(k) : i <= G[k].at + 1
           Past(k) == G[k].next = 0 \/ \E j \in Upto(k) : G[k].next = j + 2
           Good(k) == G[k].inside \in BOOLEAN /\ Counted(k) /\ Latest(k) /\ Past(k)
<1>1. end \in Nat /\ rest \in Seq(Runes) /\ Len(rest) \in Nat
  BY DEF SplitType
<1>2. /\ UnclosedCodeBlock(end) = IF G[end].inside THEN G[end].at ELSE -1
      /\ G[0] = [next |-> 0, inside |-> FALSE, at |-> -1]
      /\ \A k \in 1..end : G[k] = ScanFrom(G[k - 1], k - 1, end)
  BY <1>1, ScanByTurn
<1> HIDE DEF G
<1>3. IsFiniteSet(F) /\ (\A i \in F : i \in Nat /\ i >= 1) /\ \A k : IsFiniteSet(Upto(k)) /\ Cardinality(Upto(k)) \in Nat
  <2>1. IsFiniteSet(Fences(rest)) /\ Fences(rest) \subseteq 1..Len(rest)
    BY <1>1, FencesFinite
  <2>2. IsFiniteSet(F) /\ F \subseteq 1..Len(rest)
    <3>1. F \in SUBSET Fences(rest)
      OBVIOUS
    <3> HIDE DEF F
    <3> QED BY <2>1, <3>1, FS_Subset
  <2>3. \A k : Upto(k) \in SUBSET F
    OBVIOUS
  <2>4. \A k : IsFiniteSet(Upto(k)) /\ Cardinality(Upto(k)) \in Nat
    <3> HIDE DEF Upto, F
    <3> QED BY <2>2, <2>3, FS_Subset, FS_CardinalityType
  <2>5. \A i \in F : i \in Nat /\ i >= 1
    <3> HIDE DEF F
    <3> QED BY <1>1, <2>2
  <2> QED BY <2>2, <2>4, <2>5
<1>4. \A k \in 1..end : Fence(k - 1, end) <=> k \in F
  <2> TAKE k \in 1..end
  <2>1. k - 1 \in Nat /\ k - 1 + 1 = k /\ (k - 1 + 3 <= end <=> k + 2 <= end)
    OBVIOUS
  <2> QED BY <2>1, FenceSeen
<1>5. \A i, j \in F : i < j => i + 3 < j
  BY <1>1, FencesDoNotTouch
<1> HIDE DEF F
<1>6. \A k \in 0..end : Good(k)
  <2> DEFINE T == {k \in 0..end : ~Good(k)}
  <2>1. SUFFICES ASSUME T # {} PROVE FALSE
    OBVIOUS
  <2>2. PICK k \in T : \A j \in T : k <= j
    <3>1. T \in SUBSET Nat
      OBVIOUS
    <3> HIDE DEF T
    <3> QED BY <2>1, <3>1, LeastExists
  <2>3. k \in 0..end /\ ~Good(k)
    OBVIOUS
  <2>4. k # 0
    <3>1. Upto(0) = {} /\ Cardinality({}) = 0
      BY <1>3, FS_EmptySet
    <3>2. ~G[0].inside /\ G[0].next = 0 /\ G[0].inside \in BOOLEAN
      BY <1>2
    <3>3. Cardinality(Upto(0)) % 2 = 0
      <4> HIDE DEF Upto
      <4>1. Cardinality(Upto(0)) = 0
        BY <3>1
      <4>2. 0 % 2 = 0
        OBVIOUS
      <4> QED BY <4>1, <4>2
    <3>4. Good(0)
      <4> HIDE DEF Upto
      <4> QED BY <3>2, <3>3
    <3> HIDE DEF Good
    <3> QED BY <2>3, <3>4
  <2>5. k \in 1..end /\ k - 1 \in 0..end /\ ~(k <= k - 1)
    BY <2>3, <2>4
  <2>6. Good(k - 1) /\ G[k] = ScanFrom(G[k - 1], k - 1, end)
    BY <1>2, <2>2, <2>5
  <2>7. CASE k \in F
    <3>1. ~(k - 1 < G[k - 1].next)
      <4>1. CASE G[k - 1].next = 0
        BY <2>5, <4>1
      <4>2. CASE \E j \in Upto(k - 1) : G[k - 1].next = j + 2
        <5>1. PICK j \in Upto(k - 1) : G[k - 1].next = j + 2
          BY <4>2
        <5>2. j \in F /\ j \in Nat /\ j < k
          BY <1>3, <2>5, <5>1
        <5>3. j + 3 < k
          BY <1>5, <2>7, <5>2
        <5> QED BY <2>5, <5>1, <5>2, <5>3
      <4> QED BY <2>6, <4>1, <4>2
    <3>2. G[k] = [next |-> k - 1 + 3, inside |-> ~G[k - 1].inside, at |-> IF G[k - 1].inside THEN G[k - 1].at ELSE k - 1]
      BY <1>4, <2>5, <2>6, <2>7, <3>1 DEF ScanFrom
    <3>3. Upto(k) = Upto(k - 1) \cup {k} /\ k \notin Upto(k - 1)
      <4>1. \A i \in F : i <= k <=> i <= k - 1 \/ i = k
        BY <1>3, <2>5
      <4>2. ~(k <= k - 1)
        BY <2>5
      <4> QED BY <2>7, <4>1, <4>2
    <3>4. Cardinality(Upto(k)) = Cardinality(Upto(k - 1)) + 1
      <4> HIDE DEF Upto
      <4> QED BY <1>3, <3>3, FS_AddElement
    <3>5. Cardinality(Upto(k)) % 2 # 0 <=> ~(Cardinality(Upto(k - 1)) % 2 # 0)
      <4> DEFINE n == Cardinality(Upto(k - 1))
      <4>1. n \in Nat
        BY <1>3
      <4> HIDE DEF n
      <4>2. (n + 1) % 2 # 0 <=> ~(n % 2 # 0)
        BY <4>1
      <4> QED BY <3>4, <4>2 DEF n
    <3>6. Counted(k) /\ G[k].inside \in BOOLEAN
      <4>1. G[k].inside = ~G[k - 1].inside /\ G[k - 1].inside \in BOOLEAN /\ Counted(k - 1)
        BY <2>6, <3>2
      <4> QED BY <3>5, <4>1
    <3>7. Latest(k)
      <4>1. CASE G[k - 1].inside
        <5>1. G[k].inside = ~G[k - 1].inside
          BY <3>2
        <5> QED BY <4>1, <5>1
      <4>2. CASE ~G[k - 1].inside
        <5>1. G[k].at = k - 1
          BY <3>2, <4>2
        <5>2. k - 1 \in Nat /\ \A i \in Upto(k) : i <= k - 1 + 1
          BY <1>3, <2>5
        <5> QED BY <5>1, <5>2
      <4> QED BY <4>1, <4>2
    <3>8. Past(k)
      <4>1. G[k].next = k + 2 /\ k \in Upto(k)
        BY <2>5, <2>7, <3>2, <3>3
      <4> QED BY <4>1
    <3> QED BY <2>3, <3>6, <3>7, <3>8
  <2>8. CASE k \notin F
    <3>1. G[k] = G[k - 1]
      BY <1>4, <2>5, <2>6, <2>8 DEF ScanFrom
    <3>2. Upto(k) = Upto(k - 1)
      BY <1>3, <2>5, <2>8
    <3>3. Good(k)
      <4> HIDE DEF Upto
      <4> QED BY <2>6, <3>1, <3>2
    <3> QED BY <2>3, <3>3
  <2> QED BY <2>7, <2>8
<1>7. Good(end)
  <2> HIDE DEF Good
  <2> QED BY <1>1, <1>6
<1>8. Upto(end) = F
  BY <1>1, <1>3 DEF F
<1>9. Fences(SubSeq(rest, 1, end)) = F
  BY <1>1, FencesBefore DEF F
<1>10. Closed(SubSeq(rest, 1, end)) <=> ~G[end].inside
  BY <1>7, <1>8, <1>9 DEF Closed
<1>11. CASE G[end].inside
  <2>1. UnclosedCodeBlock(end) = G[end].at /\ G[end].at \in Nat /\ \A i \in F : i <= G[end].at + 1
    BY <1>2, <1>7, <1>8, <1>11
  <2> QED BY <1>10, <1>11, <2>1 DEF F
<1>12. CASE ~G[end].inside
  <2>1. UnclosedCodeBlock(end) = -1
    BY <1>2, <1>12
  <2> QED BY <1>10, <1>12, <2>1
<1> QED BY <1>11, <1>12
-----------------------------------------------------------------------------
(* The code blocks of the chunks.                                          *)

\* Once the text is closed, what is left of it is, and every chunk.
BlocksInv ==
    /\ maxLen >= 10 /\ Lined(rest)
    /\ Closed(content) => Closed(rest) /\ \A k \in DOMAIN chunks : Closed(chunks[k])

LEMMA OneMoreClosed ==
  ASSUME SplitType, BlocksInv, NEW c \in Seq(Runes), chunks' = Append(chunks, c), UNCHANGED <<content, maxLen>>,
         Lined(rest'), Closed(content) => Closed(c) /\ Closed(rest')
  PROVE  BlocksInv'
<1>1. chunks \in Seq(Seq(Runes)) /\ Len(chunks) \in Nat /\ DOMAIN chunks = 1..Len(chunks)
  BY DEF SplitType
<1>2. /\ Len(chunks') = Len(chunks) + 1 /\ chunks'[Len(chunks) + 1] = c
      /\ \A i \in 1..Len(chunks) : chunks'[i] = chunks[i]
      /\ DOMAIN chunks' = 1..Len(chunks) + 1
  BY <1>1, AppendProperties
<1>3. ASSUME Closed(content), NEW k \in DOMAIN chunks' PROVE Closed(chunks'[k])
  <2>1. CASE k = Len(chunks) + 1
    <3>1. chunks'[k] = c /\ Closed(c)
      BY <1>2, <1>3, <2>1
    <3> QED BY <3>1
  <2>2. CASE k # Len(chunks) + 1
    <3>1. k \in DOMAIN chunks /\ chunks'[k] = chunks[k]
      BY <1>1, <1>2, <2>2
    <3>2. Closed(chunks[k])
      BY <1>3, <3>1 DEF BlocksInv
    <3> QED BY <3>1, <3>2
  <2> QED BY <2>1, <2>2
<1>4. content' = content /\ maxLen' = maxLen
  OBVIOUS
<1>5. Closed(content)' <=> Closed(content)
  BY <1>4 DEF Closed, Fences
<1> QED BY <1>3, <1>4, <1>5 DEF BlocksInv, Closed, Fences, Lined

\* A cut between two blocks.
LEMMA CutAtClosed ==
  ASSUME SplitType, BlocksInv, Len(rest) > maxLen, UNCHANGED <<content, maxLen>>,
         NEW end \in 1..Len(rest), CutAt(end), Apart(rest, end), Closed(SubSeq(rest, 1, end))
  PROVE  BlocksInv'
<1> DEFINE p == SubSeq(rest, 1, end)
           q == SubSeq(rest, end + 1, Len(rest))
<1>1. rest \in Seq(Runes) /\ end \in 0..Len(rest) /\ ~(end <= 0)
  BY DEF SplitType
<1>2. chunks' = Append(chunks, p) /\ rest' = TrimmedLeft(q)
  BY <1>1 DEF CutAt
<1>3. p \in Seq(Runes) /\ q \in Seq(Runes)
  BY <1>1, CutInTwo
<1>4. (Closed(rest) <=> (Closed(p) <=> Closed(q))) /\ (Lined(rest) => Lined(q))
  BY <1>1, CutClosed
<1>5. Closed(p)
  OBVIOUS
<1> HIDE DEF p, q
<1>6. (Closed(TrimmedLeft(q)) <=> Closed(q)) /\ (Lined(q) => Lined(TrimmedLeft(q)))
  BY <1>3, TrimsKeepFences
<1>7. Lined(TrimmedLeft(q)) /\ (Closed(content) => Closed(TrimmedLeft(q)))
  BY <1>4, <1>5, <1>6 DEF BlocksInv
<1>8. Lined(rest') /\ (Closed(content) => Closed(p) /\ Closed(rest'))
  BY <1>2, <1>5, <1>7
<1> QED BY <1>2, <1>3, <1>8, OneMoreClosed

\* The header begins with the fence of its block, the only one of its line.
LEMMA HeaderFence ==
  ASSUME SplitType, Lined(rest), NEW open \in 0..Len(rest) - 3, open + 1 \in Fences(rest)
  PROVE  /\ HeaderOf(open) \in Seq(Runes) /\ Fences(HeaderOf(open)) = {1} /\ ~Closed(HeaderOf(open))
         /\ HeaderEnd(open) >= open + 3
<1> DEFINE m == IF LineEnds(open) = {} THEN open + 3 ELSE Smallest(LineEnds(open))
           s == SubSeq(rest, open + 1, m)
<1>1. rest \in Seq(Runes) /\ open \in Nat /\ Len(rest) \in Nat /\ \A i \in 1..Len(rest) : rest[i] \in Runes
  BY DEF SplitType
<1>2. /\ open + 3 <= Len(rest)
      /\ rest[open + 1].kind = "tick" /\ rest[open + 2].kind = "tick" /\ rest[open + 3].kind = "tick"
  <2>1. open + 1 \in Int /\ open + 1 + 1 = open + 2 /\ open + 1 + 2 = open + 3
    BY <1>1
  <2> QED BY <1>1, <2>1, FenceIs
<1>3. /\ m \in open + 3..Len(rest)
      /\ \A i \in open + 1..m : rest[i].kind # "newline"
  <2>1. CASE LineEnds(open) = {}
    <3>1. m = open + 3
      BY <2>1
    <3>2. \A i \in open + 1..m : i = open + 1 \/ i = open + 2 \/ i = open + 3
      BY <1>1, <3>1
    <3> QED BY <1>1, <1>2, <3>1, <3>2
  <2>2. CASE LineEnds(open) # {}
    <3> DEFINE f == Smallest(LineEnds(open))
    <3>1. m = f /\ f \in LineEnds(open) /\ f \in open..Len(rest) - 1 /\ \A i \in LineEnds(open) : f <= i
      BY <1>1, <2>2, FirstLineEnd
    <3> HIDE DEF f, m
    <3>2. rest[f + 1].kind = "newline"
      BY <3>1 DEF LineEnds, Is
    <3>3. f # open /\ f # open + 1 /\ f # open + 2
      <4>1. open + 1 + 1 = open + 2 /\ open + 2 + 1 = open + 3
        BY <1>1
      <4> QED BY <1>2, <3>2, <4>1
    <3>4. f \in open + 3..Len(rest)
      BY <1>1, <3>1, <3>3
    <3>5. ASSUME NEW i \in open + 1..f PROVE rest[i].kind # "newline"
      <4>1. i - 1 \in open..Len(rest) - 1 /\ ~(f <= i - 1) /\ i - 1 + 1 = i
        BY <1>1, <3>1
      <4>2. i - 1 \notin LineEnds(open)
        BY <3>1, <4>1
      <4> QED BY <4>1, <4>2 DEF LineEnds, Is
    <3> QED BY <3>1, <3>4, <3>5
  <2> QED BY <2>1, <2>2
<1>4. HeaderOf(open) = TrimmedRight(s)
  BY DEF HeaderOf
<1> HIDE DEF m
<1>5. s \in Seq(Runes) /\ Len(s) = m - open /\ \A i \in 1..m - open : s[i] = rest[open + i]
  <2>1. \A i \in open + 1..m : rest[i] \in Runes
    BY <1>1, <1>3
  <2>2. open + 1 <= m /\ m - (open + 1) + 1 = m - open
    BY <1>1, <1>3
  <2>3. /\ s \in Seq(Runes) /\ Len(s) = IF open + 1 <= m THEN m - (open + 1) + 1 ELSE 0
        /\ \A i \in 1..m - (open + 1) + 1 : s[i] = rest[open + 1 + i - 1]
    BY <1>1, <1>3, <2>1, SubSeqProperties
  <2> HIDE DEF s
  <2>4. \A i \in 1..m - open : open + 1 + i - 1 = open + i
    BY <1>1, <1>3
  <2> QED BY <2>2, <2>3, <2>4
<1> HIDE DEF s
<1>6. Fences(s) = {1}
  <2>1. 1 \in Fences(s)
    <3>1. 1 \in 1..m - open /\ 1 + 1 \in 1..m - open /\ 1 + 2 \in 1..m - open /\ 1 + 2 <= Len(s)
      BY <1>1, <1>3, <1>5
    <3>2. s[1].kind = "tick" /\ s[1 + 1].kind = "tick" /\ s[1 + 2].kind = "tick"
      BY <1>2, <1>5, <3>1
    <3> QED BY <1>5, <3>1, <3>2, FenceIs
  <2>2. ASSUME NEW i \in Fences(s) PROVE i = 1
    <3>1. i \in Int
      BY <1>5, FencesFinite
    <3>2. i >= 1 /\ i + 2 <= Len(s) /\ s[i].kind = "tick" /\ s[i + 1].kind = "tick" /\ s[i + 2].kind = "tick"
      BY <1>5, <3>1, FenceIs
    <3> DEFINE j == open + i
    <3>3. i \in 1..m - open /\ i + 1 \in 1..m - open /\ i + 2 \in 1..m - open /\ j \in Int /\ j + 2 <= Len(rest) /\ j >= 1
          /\ open + (i + 1) = j + 1 /\ open + (i + 2) = j + 2
      BY <1>1, <1>3, <1>5, <3>1, <3>2
    <3>4. rest[j].kind = "tick" /\ rest[j + 1].kind = "tick" /\ rest[j + 2].kind = "tick"
      BY <1>5, <3>2, <3>3
    <3>5. j \in Fences(rest)
      <4> HIDE DEF j
      <4> QED BY <1>1, <3>3, <3>4, FenceIs
    <3>6. j = 1 \/ rest[j - 1].kind = "newline"
      BY <3>5 DEF Lined
    <3>7. i # 1 => j # 1 /\ j - 1 \in open + 1..m
      BY <1>1, <1>3, <3>1, <3>3
    <3> QED BY <1>3, <3>6, <3>7
  <2> QED BY <2>1, <2>2
<1>7. PICK w : Blank(w) /\ TrimmedRight(s) \in Seq(Runes) /\ s = TrimmedRight(s) \o w
  BY <1>5, TrimRight
<1> DEFINE h == TrimmedRight(s)
           k == Len(h)
<1>8. h \in Seq(Runes) /\ k \in Nat /\ w \in Seq(Runes) /\ s = h \o w
  BY <1>7 DEF Blank
<1> HIDE DEF h
<1>9. k >= 3 /\ \A i \in 1..k : h[i] = s[i]
  <2>1. /\ Len(h \o w) = k + Len(w) /\ Len(w) \in Nat
        /\ \A i \in 1..k + Len(w) : (h \o w)[i] = IF i <= k THEN h[i] ELSE w[i - k]
    BY <1>8, ConcatProperties
  <2>2. \A i \in 1..k : h[i] = s[i]
    BY <1>8, <2>1
  <2>3. ASSUME k < 3 PROVE FALSE
    <3>1. 1 \in Fences(s) /\ 1 + 2 = 3
      BY <1>6
    <3>2. 3 <= Len(s) /\ s[3].kind = "tick"
      BY <1>5, <3>1, FenceIs
    <3>3. 3 \in 1..k + Len(w) /\ ~(3 <= k) /\ 3 - k \in 1..Len(w)
      BY <1>8, <2>1, <2>3, <3>2
    <3>4. s[3] = w[3 - k]
      BY <1>8, <2>1, <3>3
    <3>5. w[3 - k].kind \in White
      BY <1>7, <3>3 DEF Blank
    <3> QED BY <3>2, <3>4, <3>5 DEF White
  <2> QED BY <1>8, <2>2, <2>3
<1>10. Fences(h) = {1}
  <2>1. k \in 0..Len(s) /\ SubSeq(s, 1, k) = h
    <3>1. Len(s) = k + Len(w) /\ Len(w) \in Nat /\ Len(s) \in Nat
      BY <1>8, ConcatProperties
    <3>2. k \in 0..Len(s)
      BY <1>8, <3>1
    <3>3. SubSeq(s, 1, k) \in Seq(Runes) /\ Len(SubSeq(s, 1, k)) = k /\ \A i \in 1..k : SubSeq(s, 1, k)[i] = s[i]
      BY <1>5, <3>2, CutInTwo
    <3>4. SubSeq(s, 1, k) = h
      BY <1>8, <1>9, <3>3, SeqEqual
    <3> QED BY <3>2, <3>4
  <2>2. Fences(SubSeq(s, 1, k)) = {i \in Fences(s) : i + 2 <= k}
    BY <1>5, <2>1, FencesBefore
  <2>3. Fences(h) = {i \in {1} : i + 2 <= k}
    BY <1>6, <2>1, <2>2
  <2> QED BY <1>9, <2>3
<1>11. ~Closed(h)
  <2>1. Blank(<<>>)
    BY DEF Blank
  <2>2. <<>> \in Seq(Runes) /\ Fences(<<>>) = {} /\ Closed(<<>>)
    BY <2>1, BlankHasNone
  <2>3. 1 \notin Fences(<<>>) /\ Fences(h) = Fences(<<>>) \cup {1}
    BY <1>10, <2>2
  <2> QED BY <1>8, <2>2, <2>3, OneMoreFence
<1>12. HeaderEnd(open) >= open + 3
  <2>1. CASE LineEnds(open) = {}
    <3>1. HeaderEnd(open) = open + k
      BY <1>4, <2>1 DEF HeaderEnd, h
    <3> QED BY <1>1, <1>8, <1>9, <3>1
  <2>2. CASE LineEnds(open) # {}
    <3>1. HeaderEnd(open) = m
      BY <2>2 DEF HeaderEnd, m
    <3> QED BY <1>3, <3>1
  <2> QED BY <2>1, <2>2
<1> QED BY <1>4, <1>8, <1>10, <1>11, <1>12 DEF h

LEMMA RunesJoin ==
  ASSUME NEW p \in Seq(Runes), NEW q \in Seq(Runes)
  PROVE  /\ p \o q \in Seq(Runes) /\ Len(p \o q) = Len(p) + Len(q) /\ Len(p) \in Nat /\ Len(q) \in Nat
         /\ \A i \in 1..Len(p) + Len(q) : (p \o q)[i] = IF i <= Len(p) THEN p[i] ELSE q[i - Len(p)]
BY ConcatProperties

\* A cut inside a block: this chunk gets a fence, and the rest begins with one.
LEMMA CutInsideClosed ==
  ASSUME SplitType, BlocksInv, Len(rest) > maxLen, UNCHANGED <<content, maxLen>>,
         NEW open \in 0..Len(rest) - 3, open + 1 \in Fences(rest),
         NEW end \in 0..Len(rest), CutInside(end, HeaderOf(open)), Apart(rest, end), ~Closed(SubSeq(rest, 1, end))
  PROVE  BlocksInv'
<1> DEFINE p == SubSeq(rest, 1, end)
           q == SubSeq(rest, end + 1, Len(rest))
           header == HeaderOf(open)
           a == Added(header)
           b == TrimmedRight(p)
           c == b \o Closing
           h == a \o Newline
           t == h \o q
<1>1. rest \in Seq(Runes) /\ Lined(rest)
  BY DEF SplitType, BlocksInv
<1>2. chunks' = Append(chunks, c) /\ rest' = TrimmedRight(TrimmedLeft(t))
  BY DEF CutInside
<1>3. p \in Seq(Runes) /\ q \in Seq(Runes) /\ Len(p) = end
  BY <1>1, CutInTwo
<1>4. (Closed(rest) <=> (Closed(p) <=> Closed(q))) /\ Lined(q) /\ ~Closed(p)
  BY <1>1, CutClosed
<1> HIDE DEF p, q
<1>5. b \in Seq(Runes) /\ ~Closed(b)
  BY <1>3, <1>4, TrimRight, TrimsKeepFences
<1>6. header \in Seq(Runes) /\ Fences(header) = {1} /\ ~Closed(header)
  BY <1>1, HeaderFence
<1> HIDE DEF b, header
<1>7. /\ Closing \in Seq(Runes) /\ Len(Closing) = 4 /\ Closing[1].kind = "newline" /\ \A i \in 2..4 : Closing[i].kind = "tick"
      /\ Newline \in Seq(Runes) /\ Len(Newline) = 1 /\ Newline[1].kind = "newline"
      /\ a \in Seq(Runes) /\ Len(a) = Len(header) /\ \A i \in 1..Len(header) : a[i].kind = header[i].kind
  BY <1>6, AddedRunes
<1>8. Fences(a) = {1} /\ ~Closed(a)
  <2>1. Fences(header) = Fences(a)
    BY <1>6, <1>7, SameFences
  <2> QED BY <1>6, <2>1 DEF Closed
<1> HIDE DEF a
<1>9. c \in Seq(Runes) /\ Closed(c)
  <2>1. ~Closed(Closing)
    <3>1. Blank(<<>>)
      BY DEF Blank
    <3>2. <<>> \in Seq(Runes) /\ Fences(<<>>) = {} /\ Closed(<<>>)
      BY <3>1, BlankHasNone
    <3>3. Fences(Closing) = {2}
      <4>1. 2 \in Fences(Closing)
        <5>1. 2 \in Int /\ 2 >= 1 /\ 2 + 2 <= Len(Closing) /\ 2 \in 2..4 /\ 2 + 1 \in 2..4 /\ 2 + 2 \in 2..4
          BY <1>7
        <5> QED BY <1>7, <5>1, FenceIs
      <4>2. ASSUME NEW i \in Fences(Closing) PROVE i = 2
        <5>1. i \in Int
          BY <1>7, FencesFinite
        <5>2. i >= 1 /\ i + 2 <= Len(Closing) /\ Closing[i].kind = "tick"
          BY <1>7, <5>1, FenceIs
        <5>3. i # 1
          BY <1>7, <5>2
        <5> QED BY <1>7, <5>1, <5>2, <5>3
      <4> QED BY <4>1, <4>2
    <3>4. 2 \notin Fences(<<>>) /\ Fences(Closing) = Fences(<<>>) \cup {2}
      BY <3>2, <3>3
    <3> QED BY <1>7, <3>2, <3>4, OneMoreFence
  <2>2. Apart(b \o Closing, Len(b))
    <3>1. Len(Closing) > 0 /\ Closing[1].kind # "tick"
      BY <1>7
    <3> QED BY <1>5, <1>7, <3>1, SeamApart
  <2>3. Closed(b \o Closing) <=> (Closed(b) <=> Closed(Closing))
    BY <1>5, <1>7, <2>2, ClosedJoined
  <2>4. b \o Closing \in Seq(Runes)
    BY <1>5, <1>7, ConcatProperties
  <2> QED BY <1>5, <2>1, <2>3, <2>4
<1>10. h \in Seq(Runes) /\ Len(h) = Len(a) + 1 /\ h[Len(h)].kind = "newline" /\ Len(a) \in Nat
       /\ \A i \in 1..Len(a) : h[i] = a[i]
  <2>1. /\ h \in Seq(Runes) /\ Len(h) = Len(a) + Len(Newline) /\ Len(a) \in Nat
        /\ \A i \in 1..Len(a) + Len(Newline) : h[i] = IF i <= Len(a) THEN a[i] ELSE Newline[i - Len(a)]
    BY <1>7, RunesJoin
  <2> HIDE DEF h
  <2>2. Len(h) = Len(a) + 1 /\ Len(h) \in 1..Len(a) + Len(Newline) /\ ~(Len(h) <= Len(a)) /\ Len(h) - Len(a) = 1
    BY <1>7, <2>1
  <2>3. h[Len(h)] = Newline[1]
    BY <2>1, <2>2
  <2>4. \A i \in 1..Len(a) : h[i] = a[i]
    BY <1>7, <2>1
  <2> QED BY <1>7, <2>1, <2>2, <2>3, <2>4
<1>11. ~Closed(h) /\ \A i \in Fences(h) : i = 1
  <2>1. Apart(a \o Newline, Len(a))
    <3>1. Len(Newline) > 0 /\ Newline[1].kind # "tick"
      BY <1>7
    <3> QED BY <1>7, <3>1, SeamApart
  <2>2. Blank(Newline)
    <3>1. \A i \in 1..Len(Newline) : i = 1
      BY <1>7
    <3> QED BY <1>7, <3>1 DEF Blank, White
  <2>3. Closed(Newline)
    BY <2>2, BlankHasNone
  <2>4. Closed(a \o Newline) <=> (Closed(a) <=> Closed(Newline))
    BY <1>7, <2>1, ClosedJoined
  <2> HIDE DEF h
  <2>5. ASSUME NEW i \in Fences(h) PROVE i = 1
    <3>1. i \in Int
      BY <1>10, FencesFinite
    <3>2. i >= 1 /\ i + 2 <= Len(h) /\ h[i].kind = "tick" /\ h[i + 1].kind = "tick" /\ h[i + 2].kind = "tick"
      BY <1>10, <3>1, FenceIs
    <3>3. i + 2 # Len(h)
      BY <1>10, <3>2
    <3>4. i \in 1..Len(a) /\ i + 1 \in 1..Len(a) /\ i + 2 \in 1..Len(a) /\ i + 2 <= Len(a)
      BY <1>10, <3>1, <3>2, <3>3
    <3>5. a[i].kind = "tick" /\ a[i + 1].kind = "tick" /\ a[i + 2].kind = "tick"
      BY <1>10, <3>2, <3>4
    <3>6. i \in Fences(a)
      BY <1>7, <3>1, <3>2, <3>4, <3>5, FenceIs
    <3> QED BY <1>8, <3>6
  <2> QED BY <1>8, <2>3, <2>4, <2>5 DEF h
<1> HIDE DEF h, c
<1>12. t \in Seq(Runes) /\ (Closed(t) <=> ~Closed(q)) /\ Lined(t)
  <2>1. Apart(h \o q, Len(h))
    <3>1. Len(h) > 0 /\ h[Len(h)].kind # "tick"
      BY <1>10
    <3> QED BY <1>3, <1>10, <3>1, SeamApart
  <2>2. Closed(h \o q) <=> (Closed(h) <=> Closed(q))
    BY <1>3, <1>10, <2>1, ClosedJoined
  <2>3. /\ t \in Seq(Runes) /\ Len(t) = Len(h) + Len(q) /\ Len(h) \in Nat /\ Len(q) \in Nat
        /\ \A i \in 1..Len(h) + Len(q) : t[i] = IF i <= Len(h) THEN h[i] ELSE q[i - Len(h)]
    BY <1>3, <1>10, RunesJoin
  <2>4. \A i \in Fences(t) : i + 2 <= Len(h) \/ i > Len(h)
    BY <2>1 DEF Apart
  <2> HIDE DEF t
  <2>5. ASSUME NEW i \in Fences(t) PROVE i = 1 \/ t[i - 1].kind = "newline"
    <3>1. i \in Int
      BY <2>3, FencesFinite
    <3>2. i >= 1 /\ i + 2 <= Len(t) /\ t[i].kind = "tick" /\ t[i + 1].kind = "tick" /\ t[i + 2].kind = "tick"
      BY <2>3, <3>1, FenceIs
    <3>3. CASE i + 2 <= Len(h)
      <4>1. t[i] = h[i] /\ t[i + 1] = h[i + 1] /\ t[i + 2] = h[i + 2]
        BY <2>3, <3>1, <3>2, <3>3
      <4>2. i \in Fences(h)
        BY <1>10, <3>1, <3>2, <3>3, <4>1, FenceIs
      <4> QED BY <1>11, <4>2
    <3>4. CASE i > Len(h)
      <4> DEFINE j == i - Len(h)
                 m == Len(h)
                 n == Len(q)
      <4>1. j \in Int /\ j >= 1 /\ j + 2 <= n /\ i = j + m /\ m \in Nat /\ n \in Nat /\ Len(t) = m + n
        BY <2>3, <3>1, <3>2, <3>4
      <4>2. \A x \in 1..n : t[x + m] = q[x]
        <5> TAKE x \in 1..n
        <5>1. x + m \in 1..m + n /\ ~(x + m <= m) /\ x + m - m = x
          BY <2>3
        <5> QED BY <2>3, <5>1
      <4> HIDE DEF j, m, n
      <4>3. j \in 1..n /\ j + 1 \in 1..n /\ j + 2 \in 1..n
        BY <4>1
      <4>4. t[j + m] = q[j] /\ t[(j + 1) + m] = q[j + 1] /\ t[(j + 2) + m] = q[j + 2]
        BY <4>2, <4>3
      <4>5. i = j + m /\ i + 1 = (j + 1) + m /\ i + 2 = (j + 2) + m
        BY <4>1
      <4>6. q[j].kind = "tick" /\ q[j + 1].kind = "tick" /\ q[j + 2].kind = "tick"
        BY <3>2, <4>4, <4>5
      <4>7. j \in Fences(q)
        BY <1>3, <4>1, <4>6, FenceIs DEF n
      <4>8. CASE j = 1
        <5>1. i - 1 = m /\ m \in 1..m + n /\ m <= m
          BY <1>10, <4>1, <4>8 DEF m
        <5>2. t[i - 1] = h[m]
          BY <2>3, <5>1 DEF m, n
        <5> QED BY <1>10, <5>2 DEF m
      <4>9. CASE j # 1
        <5>1. q[j - 1].kind = "newline"
          BY <1>4, <4>7, <4>9 DEF Lined
        <5>2. j - 1 \in 1..n /\ i - 1 = (j - 1) + m
          BY <4>1, <4>9
        <5>3. t[(j - 1) + m] = q[j - 1]
          BY <4>2, <5>2
        <5> QED BY <5>1, <5>2, <5>3
      <4> QED BY <4>8, <4>9
    <3> QED BY <2>4, <3>3, <3>4
  <2>6. Lined(t)
    BY <2>5 DEF Lined
  <2> QED BY <1>11, <2>2, <2>3, <2>6 DEF t
<1> HIDE DEF t
<1>13. Lined(rest') /\ (Closed(rest') <=> Closed(t))
  <2> DEFINE l == TrimmedLeft(t)
  <2>1. l \in Seq(Runes) /\ (Closed(l) <=> Closed(t)) /\ Lined(l)
    BY <1>12, TrimLeft, TrimsKeepFences
  <2> HIDE DEF l
  <2>2. (Closed(TrimmedRight(l)) <=> Closed(l)) /\ Lined(TrimmedRight(l))
    BY <2>1, TrimsKeepFences
  <2>3. rest' = TrimmedRight(l)
    BY <1>2 DEF l
  <2> QED BY <2>1, <2>2, <2>3
<1>14. Closed(content) => Closed(c) /\ Closed(rest')
  <2>1. Closed(content) => Closed(rest)
    BY DEF BlocksInv
  <2> QED BY <1>4, <1>9, <1>12, <1>13, <2>1
<1> QED BY <1>2, <1>9, <1>13, <1>14, OneMoreClosed

\* No fence reaches over white space.
LEMMA WhiteApart ==
  ASSUME SplitType, NEW k \in 0..Len(rest) - 1, Is(k, {"newline", "space"})
  PROVE  Apart(rest, k)
<1>1. rest \in Seq(Runes) /\ k \in Nat /\ rest[k + 1].kind # "tick"
  BY DEF SplitType, Is
<1>2. SUFFICES ASSUME NEW i \in Fences(rest), ~(i + 2 <= k), ~(i > k) PROVE FALSE
  BY DEF Apart
<1>3. i \in Int
  BY <1>1, FencesFinite
<1>4. rest[i + 1].kind = "tick" /\ rest[i + 2].kind = "tick"
  BY <1>1, <1>3, FenceIs
<1>5. k = i \/ k + 1 = i + 2
  BY <1>1, <1>2, <1>3
<1> QED BY <1>1, <1>4, <1>5

\* A text without code blocks is cut at white space, or at the limit, which no fence
\* reaches over: it would begin a line, and the cut would be at that line.
LEMMA NaturalApart ==
  ASSUME SplitType, BlocksInv, Len(rest) > maxLen
  PROVE  Apart(rest, NaturalEnd)
<1> DEFINE E == EffectiveLimit
           newline == FindLast({"newline"}, E, 200)
           space == FindLast({"space"}, E, 100)
           msgEnd == NaturalEnd
<1>1. rest \in Seq(Runes) /\ Len(rest) \in Nat /\ maxLen \in Nat /\ maxLen >= 10
  BY DEF SplitType, BlocksInv
<1>2. E \in Nat /\ E >= 5 /\ E <= maxLen - 5 /\ msgEnd \in 1..E
  BY <1>1, LimitsFit
<1>3. msgEnd = IF newline > 0 THEN newline ELSE IF space > 0 THEN space ELSE E
  BY DEF NaturalEnd
<1> HIDE DEF E, msgEnd
<1>4. /\ newline \in Int /\ newline < E /\ (newline = -1 \/ Is(newline, {"newline"}))
      /\ \A i \in 0..E - 1 : i >= E - 200 /\ Is(i, {"newline"}) => i <= newline
  BY <1>2, FoundLast
<1>5. space \in Int /\ space < E /\ (space = -1 \/ Is(space, {"space"}))
  BY <1>2, FoundLast
<1> HIDE DEF newline, space
<1>6. \A i : (Is(i, {"newline"}) => Is(i, {"newline", "space"})) /\ (Is(i, {"space"}) => Is(i, {"newline", "space"}))
  BY DEF Is
<1>7. CASE newline > 0
  <2>1. msgEnd = newline /\ newline \in 0..Len(rest) - 1 /\ Is(newline, {"newline", "space"})
    BY <1>1, <1>2, <1>3, <1>4, <1>6, <1>7
  <2> QED BY <2>1, WhiteApart DEF msgEnd
<1>8. CASE ~(newline > 0) /\ space > 0
  <2>1. msgEnd = space /\ space \in 0..Len(rest) - 1 /\ Is(space, {"newline", "space"})
    BY <1>1, <1>2, <1>3, <1>5, <1>6, <1>8
  <2> QED BY <2>1, WhiteApart DEF msgEnd
<1>9. CASE ~(newline > 0) /\ ~(space > 0)
  <2>1. msgEnd = E
    BY <1>3, <1>9
  <2>2. ASSUME NEW i \in Fences(rest), ~(i + 2 <= E), ~(i > E) PROVE FALSE
    <3>1. i \in Int
      BY <1>1, FencesFinite
    <3>2. i >= 4 /\ i # 1
      BY <1>2, <2>2, <3>1
    <3>3. rest[i - 1].kind = "newline"
      BY <2>2, <3>2 DEF BlocksInv, Lined
    <3>4. i - 2 + 1 = i - 1 /\ i - 2 \in 0..E - 1 /\ i - 2 >= E - 200
      BY <1>2, <2>2, <3>1, <3>2
    <3>5. Is(i - 2, {"newline"})
      BY <3>3, <3>4 DEF Is
    <3>6. i - 2 <= newline
      BY <1>4, <3>4, <3>5
    <3> QED BY <1>4, <1>9, <3>1, <3>2, <3>6
  <2> QED BY <2>1, <2>2 DEF Apart, msgEnd
<1> QED BY <1>7, <1>8, <1>9

\* The fences before a place, counted from another.
LEMMA SameBefore ==
  ASSUME SplitType, NEW j \in 0..Len(rest), NEW k \in 0..Len(rest),
         \A i \in Fences(rest) : i + 2 <= j <=> i + 2 <= k
  PROVE  Closed(SubSeq(rest, 1, j)) <=> Closed(SubSeq(rest, 1, k))
<1>1. rest \in Seq(Runes)
  BY DEF SplitType
<1>2. Fences(SubSeq(rest, 1, j)) = {i \in Fences(rest) : i + 2 <= j}
  BY <1>1, FencesBefore
<1>3. Fences(SubSeq(rest, 1, k)) = {i \in Fences(rest) : i + 2 <= k}
  BY <1>1, FencesBefore
<1>4. Fences(SubSeq(rest, 1, j)) = Fences(SubSeq(rest, 1, k))
  BY <1>2, <1>3
<1> QED BY <1>4 DEF Closed

LEMMA OneMoreBefore ==
  ASSUME SplitType, NEW j \in 0..Len(rest), NEW k \in 0..Len(rest), NEW x \in Fences(rest),
         ~(x + 2 <= j), \A i \in Fences(rest) : i + 2 <= k <=> i + 2 <= j \/ i = x
  PROVE  Closed(SubSeq(rest, 1, k)) <=> ~Closed(SubSeq(rest, 1, j))
<1> DEFINE a == SubSeq(rest, 1, j)
           b == SubSeq(rest, 1, k)
<1>1. rest \in Seq(Runes)
  BY DEF SplitType
<1>2. Fences(a) = {i \in Fences(rest) : i + 2 <= j} /\ a \in Seq(Runes)
  BY <1>1, FencesBefore, CutInTwo
<1>3. Fences(b) = {i \in Fences(rest) : i + 2 <= k} /\ b \in Seq(Runes)
  BY <1>1, FencesBefore, CutInTwo
<1> HIDE DEF a, b
<1>4. x \notin Fences(a) /\ Fences(b) = Fences(a) \cup {x}
  BY <1>2, <1>3
<1>5. Closed(b) <=> ~Closed(a)
  BY <1>2, <1>3, <1>4, OneMoreFence
<1> QED BY <1>5 DEF a, b

LEMMA StepKeepsBlocks == SplitInv /\ BlocksInv /\ [SplitStep]_splitVars => BlocksInv'
<1> SUFFICES ASSUME SplitInv, BlocksInv, [SplitStep]_splitVars PROVE BlocksInv'
  OBVIOUS
<1>1. CASE UNCHANGED splitVars
  BY <1>1 DEF BlocksInv, splitVars, Closed, Lined, Fences
<1>2. CASE SplitStep /\ Len(rest) <= maxLen
  <2>1. chunks' = Append(chunks, rest) /\ rest' = <<>> /\ UNCHANGED <<content, maxLen>>
    BY <1>2 DEF SplitStep
  <2>2. SplitType /\ rest \in Seq(Runes)
    BY DEF SplitInv, SplitType
  <2>3. Blank(<<>>)
    BY DEF Blank
  <2>4. Fences(<<>>) = {} /\ Closed(<<>>)
    BY <2>3, BlankHasNone
  <2>5. Lined(<<>>)
    BY <2>4 DEF Lined
  <2>6. Lined(rest') /\ (Closed(content) => Closed(rest) /\ Closed(rest'))
    BY <2>1, <2>4, <2>5 DEF BlocksInv
  <2> QED BY <2>1, <2>2, <2>6, OneMoreClosed
<1>3. CASE SplitStep /\ Len(rest) > maxLen
  <2> DEFINE msgEnd == NaturalEnd
             open == UnclosedCodeBlock(msgEnd)
             closing == ClosingCodeBlock(msgEnd)
             F == Fences(rest)
             To(k) == SubSeq(rest, 1, k)
  <2>1. /\ SplitType /\ rest \in Seq(Runes) /\ maxLen \in Nat /\ maxLen >= 10 /\ Len(rest) \in Nat /\ Lined(rest)
        /\ UNCHANGED <<content, maxLen>>
    BY <1>3 DEF SplitInv, SplitType, SplitStep, BlocksInv
  <2>2. IF open < 0 THEN CutAt(msgEnd)
        ELSE IF closing > 0 /\ closing <= maxLen THEN CutAt(closing)
        ELSE CutBlock(open, msgEnd)
    BY <1>3, <2>1 DEF SplitStep
  <2>3. msgEnd \in Nat /\ msgEnd >= 1 /\ msgEnd <= maxLen - 5
    <3>1. msgEnd \in 1..EffectiveLimit /\ EffectiveLimit <= maxLen - 5 /\ EffectiveLimit \in 1..maxLen
      BY <2>1, LimitsFit
    <3> QED BY <2>1, <3>1
  <2>4. Apart(rest, msgEnd)
    BY <1>3, <2>1, NaturalApart
  <2> HIDE DEF msgEnd
  <2>5. msgEnd \in 0..Len(rest) /\ msgEnd \in 1..Len(rest)
    BY <1>3, <2>1, <2>3
  <2>6. open = -1 \/ (open \in 0..msgEnd - 3 /\ Fence(open, msgEnd))
    BY <2>3, UnclosedIsFence
  <2>7. /\ open < 0 => Closed(To(msgEnd))
        /\ open >= 0 => ~Closed(To(msgEnd)) /\ \A i \in F : i + 2 <= msgEnd => i <= open + 1
    BY <2>1, <2>5, ScanCounts
  <2>8. /\ closing \in Int
        /\ \/ closing = -1 /\ \A i \in msgEnd..Len(rest) - 1 : ~Fence(i, Len(rest))
           \/ /\ closing - 3 \in msgEnd..Len(rest) - 1 /\ Fence(closing - 3, Len(rest))
              /\ \A i \in msgEnd..Len(rest) - 1 : Fence(i, Len(rest)) => closing - 3 <= i
    BY <2>1, <2>3, FirstFence
  <2> HIDE DEF open, closing, To
  <2>9. \A i \in F : i \in Nat /\ i >= 1 /\ i + 2 <= Len(rest) /\ (i + 2 <= msgEnd \/ i > msgEnd)
    <3> TAKE i \in F
    <3>1. i \in Int
      BY <2>1, FencesFinite
    <3>2. i >= 1 /\ i + 2 <= Len(rest)
      BY <2>1, <3>1, FenceIs
    <3> QED BY <2>4, <3>1, <3>2 DEF Apart
  \* the next fence after the natural end, and none before it
  <2>10. \A i \in F : i > msgEnd => closing > 0 /\ closing <= i + 2
    <3> SUFFICES ASSUME NEW i \in F, i > msgEnd PROVE closing > 0 /\ closing <= i + 2
      OBVIOUS
    <3>1. i - 1 \in msgEnd..Len(rest) - 1 /\ i - 1 \in Nat /\ i - 1 + 1 = i /\ i - 1 + 3 <= Len(rest) /\ Len(rest) \in 0..Len(rest)
      BY <2>1, <2>3, <2>9
    <3>2. Fence(i - 1, Len(rest))
      BY <2>1, <3>1, FenceSeen
    <3>3. closing - 3 \in msgEnd..Len(rest) - 1 /\ closing - 3 <= i - 1
      BY <2>8, <3>1, <3>2
    <3> QED BY <2>3, <2>8, <2>9, <3>3
  <2>11. CASE open < 0
    <3>1. CutAt(msgEnd) /\ Closed(To(msgEnd))
      BY <2>2, <2>7, <2>11
    <3> QED BY <1>3, <2>1, <2>4, <2>5, <3>1, CutAtClosed DEF To
  <2>12. CASE ~(open < 0) /\ closing > 0 /\ closing <= maxLen
    <3> DEFINE x == closing - 2
    <3>1. CutAt(closing) /\ ~Closed(To(msgEnd))
      BY <2>2, <2>6, <2>7, <2>12
    <3>2. closing - 3 >= msgEnd /\ closing - 3 \in Nat /\ Fence(closing - 3, Len(rest)) /\ closing - 3 + 1 = x
      BY <2>3, <2>8, <2>12
    <3>3. closing \in 0..Len(rest) /\ closing \in 1..Len(rest)
      BY <1>3, <2>1, <2>8, <2>12
    <3>4. x \in F
      <4>1. Len(rest) \in 0..Len(rest)
        BY <2>1
      <4> QED BY <2>1, <3>2, <4>1, FenceSeen
    <3>5. ~(x + 2 <= msgEnd) /\ x + 2 = closing /\ x \in Int
      BY <2>3, <2>8, <3>2
    <3> HIDE DEF x
    <3>6. \A i \in F : i + 2 <= closing <=> i + 2 <= msgEnd \/ i = x
      <4> TAKE i \in F
      <4>1. i > msgEnd => closing <= i + 2
        BY <2>10
      <4> QED BY <2>3, <2>8, <2>9, <3>5, <4>1
    <3>7. Closed(To(closing)) <=> ~Closed(To(msgEnd))
      BY <2>1, <2>5, <3>3, <3>4, <3>5, <3>6, OneMoreBefore DEF To
    <3>8. Apart(rest, closing)
      <4> SUFFICES ASSUME NEW i \in F, ~(i + 2 <= closing), ~(i > closing) PROVE FALSE
        BY DEF Apart
      <4>1. x < i
        BY <2>8, <2>9, <3>5
      <4>2. x + 3 < i
        BY <2>1, <3>4, <4>1, FencesDoNotTouch
      <4> QED BY <2>8, <2>9, <3>5, <4>2
    <3> QED BY <1>3, <2>1, <3>1, <3>3, <3>7, <3>8, CutAtClosed DEF To
  <2>13. CASE ~(open < 0) /\ ~(closing > 0 /\ closing <= maxLen)
    <3>1. CutBlock(open, msgEnd) /\ ~Closed(To(msgEnd)) /\ \A i \in F : i + 2 <= msgEnd => i <= open + 1
      BY <2>2, <2>6, <2>7, <2>13
    <3>2. open \in 0..Len(rest) - 3 /\ open \in Nat /\ open + 3 <= msgEnd
      BY <1>3, <2>1, <2>3, <2>6, <2>13
    <3>3. open + 1 \in F
      BY <2>1, <2>5, <2>6, <2>13, <3>2, FenceSeen
    <3>4. \A i \in F : i > msgEnd => i + 2 > maxLen
      BY <2>1, <2>8, <2>9, <2>10, <2>13
    <3>5. ASSUME NEW end \in Nat, CutInside(end, HeaderOf(open)), end <= maxLen - 5,
                 end = maxLen - 5 \/ (end > HeaderEnd(open) /\ Is(end, {"newline"}))
          PROVE  BlocksInv'
      <4>1. end >= open + 3
        <5>1. HeaderEnd(open) >= open + 3 /\ HeaderEnd(open) \in Nat
          BY <2>1, <3>2, <3>3, HeaderFence, HeaderTyped
        <5> QED BY <2>1, <2>3, <3>2, <3>5, <5>1
      <4>2. end \in 0..Len(rest) /\ end \in 0..Len(rest) - 1
        BY <1>3, <2>1, <3>5
      <4>3. \A i \in F : i + 2 <= end <=> i + 2 <= msgEnd
        <5> TAKE i \in F
        <5>1. i > msgEnd => i + 2 > maxLen
          BY <3>4
        <5>2. i + 2 <= msgEnd => i <= open + 1
          BY <3>1
        <5> QED BY <2>1, <2>3, <2>9, <3>2, <3>5, <4>1, <5>1, <5>2
      <4>4. ~Closed(To(end))
        <5>1. Closed(To(end)) <=> Closed(To(msgEnd))
          BY <2>1, <2>5, <4>2, <4>3, SameBefore DEF To
        <5> QED BY <3>1, <5>1
      <4>5. Apart(rest, end)
        <5>1. CASE end = maxLen - 5
          <6> SUFFICES ASSUME NEW i \in F, ~(i + 2 <= end), ~(i > end) PROVE FALSE
            BY DEF Apart
          <6>1. i > msgEnd
            BY <2>3, <2>9, <5>1
          <6>2. i + 2 > maxLen
            BY <3>4, <6>1
          <6> QED BY <2>1, <2>9, <5>1, <6>2
        <5>2. CASE Is(end, {"newline"})
          <6>1. Is(end, {"newline", "space"})
            BY <5>2 DEF Is
          <6> QED BY <2>1, <4>2, <6>1, WhiteApart
        <5> QED BY <3>5, <5>1, <5>2
      <4> QED BY <1>3, <2>1, <3>2, <3>3, <3>5, <4>2, <4>4, <4>5, CutInsideClosed DEF To
    <3>6. open >= 2 => Is(open - 1, {"newline"})
      <4> HAVE open >= 2
      <4>1. rest[open + 1 - 1].kind = "newline"
        BY <2>1, <3>2, <3>3 DEF Lined
      <4>2. open + 1 - 1 = open - 1 + 1
        BY <3>2
      <4> QED BY <4>1, <4>2 DEF Is
    <3>7. ASSUME NEW before \in 1..open - 1, CutAt(before), Is(before, {"newline", "space"}),
                 \A i \in 1..open - 1 : i >= open - 200 /\ Is(i, {"newline"}) => i <= before /\ Is(before, {"newline"})
          PROVE  BlocksInv'
      <4>1. before = open - 1
        <5>1. open >= 2 /\ open - 1 \in 1..open - 1 /\ open - 1 >= open - 200
          BY <3>2, <3>7
        <5>2. open - 1 <= before
          BY <3>6, <3>7, <5>1
        <5> QED BY <3>2, <5>2
      <4>2. before \in 0..Len(rest) /\ before \in 1..Len(rest) /\ before \in 0..Len(rest) - 1
        BY <2>1, <3>2
      <4>3. \A i \in F : i + 2 <= msgEnd <=> i + 2 <= before \/ i = open + 1
        <5> TAKE i \in F
        <5>1. i < open + 1 => i + 3 < open + 1
          BY <2>1, <3>3, FencesDoNotTouch
        <5>2. i + 2 <= msgEnd => i <= open + 1
          BY <3>1
        <5> QED BY <2>3, <2>9, <3>2, <4>1, <5>1, <5>2
      <4>4. ~(open + 1 + 2 <= before)
        BY <3>2, <4>1
      <4>5. Closed(To(msgEnd)) <=> ~Closed(To(before))
        BY <2>1, <2>5, <3>3, <4>2, <4>3, <4>4, OneMoreBefore DEF To
      <4>6. Apart(rest, before)
        BY <2>1, <3>7, <4>2, WhiteApart
      <4> QED BY <1>3, <2>1, <3>1, <3>7, <4>2, <4>5, <4>6, CutAtClosed DEF To
    <3>8. ~(open > 20 /\ \A i \in 1..open - 1 : i >= open - 200 => ~Is(i, {"newline"}))
      <4>1. open > 20 => open >= 2 /\ open - 1 \in 1..open - 1 /\ open - 1 >= open - 200
        BY <3>2
      <4> QED BY <3>6, <4>1
    <3>9. maxLen >= 5
      BY <2>1
    <3> QED BY <1>3, <2>1, <2>3, <3>1, <3>2, <3>5, <3>7, <3>8, <3>9, BlockCuts
  <2> QED BY <2>11, <2>12, <2>13
<1> QED
  <2>1. Len(rest) \in Nat /\ maxLen \in Nat
    BY DEF SplitInv, SplitType
  <2> QED BY <1>1, <1>2, <1>3, <2>1

LEMMA BeginsClosed == LinedMessages /\ SplitInit => BlocksInv
<1> SUFFICES ASSUME LinedMessages, SplitInit PROVE BlocksInv
  OBVIOUS
<1>1. PICK text \in Messages : content = [i \in 1..Len(text) |-> Rune(text[i], i)]
  BY DEF SplitInit
<1>2. Lined(content)
  BY <1>1 DEF LinedMessages
<1>3. rest = content /\ chunks = <<>> /\ maxLen >= 10
  BY DEF SplitInit, LinedMessages
<1>4. DOMAIN chunks = {}
  BY <1>3
<1> QED BY <1>2, <1>3, <1>4 DEF BlocksInv

\* In texts whose fences begin their lines, and for the limits that a channel has, every
\* chunk closes its code blocks if the text does (SplitMessage, split.go:7), whatever is cut
\* where, and the text and the lengths are kept.
THEOREM SplitKeepsTheBlocks == ASSUME LinedMessages PROVE SplitSpec => []SplitSound
<1>1. SplitInv /\ BlocksInv /\ [SplitStep]_splitVars => (SplitInv /\ BlocksInv)'
  BY StepKeepsText, StepKeepsBlocks
<1>2. SplitInit => SplitInv /\ BlocksInv
  BY BeginsWhole, BeginsClosed
<1>3. SplitInv /\ BlocksInv => SplitSound
  BY DEF SplitInv, BlocksInv, SplitSound, BlocksClosed
<1> QED BY <1>1, <1>2, <1>3, PTL DEF SplitSpec
=============================================================================
