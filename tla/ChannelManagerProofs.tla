------------------------ MODULE ChannelManagerProofs ------------------------
(***************************************************************************)
(* Proofs about ChannelManager, for any channels, messages, chunks, queue  *)
(* capacity and retries, and any number of reloads.                        *)
(***************************************************************************)
EXTENDS ChannelManager, FiniteSetTheorems, SequenceTheorems, TLAPS

-----------------------------------------------------------------------------
(* Queues and logs as sequences.                                           *)

At(q) == {q[i] : i \in DOMAIN q}

Increasing(q) == \A i, j \in DOMAIN q : i < j => q[i] < q[j]

\* the copies of p in q
Copies(q, p) == Cardinality({i \in DOMAIN q : q[i] = p})

\* A send puts its message at the end.
LEMMA AppendAt ==
  ASSUME NEW S, NEW q \in Seq(S), NEW m \in S
  PROVE  /\ Append(q, m) \in Seq(S) /\ Len(Append(q, m)) = Len(q) + 1 /\ Len(q) \in Nat
         /\ DOMAIN q = 1..Len(q) /\ DOMAIN Append(q, m) = 1..Len(q) + 1
         /\ \A i \in DOMAIN q : Append(q, m)[i] = q[i]
         /\ Append(q, m)[Len(q) + 1] = m
         /\ At(Append(q, m)) = At(q) \cup {m}
         /\ At(q) \subseteq S
<1> DEFINE r == Append(q, m)
<1>1. /\ r \in Seq(S) /\ Len(r) = Len(q) + 1 /\ Len(q) \in Nat
      /\ \A i \in 1..Len(q) : r[i] = q[i]
      /\ r[Len(q) + 1] = m
  BY AppendProperties, LenProperties
<1>2. DOMAIN r = 1..Len(q) + 1 /\ DOMAIN q = 1..Len(q) /\ \A i \in 1..Len(q) : q[i] \in S
  BY <1>1, LenProperties, ElementOfSeq
<1> HIDE DEF r
<1>3. At(r) = At(q) \cup {m}
  BY <1>1, <1>2 DEF At
<1>4. At(q) \subseteq S
  BY <1>2 DEF At
<1> QED BY <1>1, <1>2, <1>3, <1>4 DEF r

\* A sequence of numbers stays increasing when a larger one is appended.
LEMMA AppendIncreasing ==
  ASSUME NEW q \in Seq(Nat), NEW m \in Nat, Increasing(q), \A x \in At(q) : x < m
  PROVE  Increasing(Append(q, m))
<1> DEFINE r == Append(q, m)
<1>1. /\ Len(q) \in Nat /\ DOMAIN q = 1..Len(q) /\ DOMAIN r = 1..Len(q) + 1
      /\ \A i \in DOMAIN q : r[i] = q[i]
      /\ r[Len(q) + 1] = m
  BY AppendAt
<1> HIDE DEF r
<1>2. SUFFICES ASSUME NEW i \in DOMAIN r, NEW j \in DOMAIN r, i < j PROVE r[i] < r[j]
  BY DEF Increasing, r
<1>3. i \in DOMAIN q
  BY <1>1, <1>2
<1>4. CASE j \in DOMAIN q
  BY <1>1, <1>2, <1>3, <1>4 DEF Increasing
<1>5. CASE j = Len(q) + 1
  BY <1>1, <1>3, <1>5 DEF At
<1> QED BY <1>1, <1>4, <1>5

\* A receive takes the first message.
LEMMA TailAt ==
  ASSUME NEW S, NEW q \in Seq(S), q # <<>>
  PROVE  /\ Tail(q) \in Seq(S) /\ Len(Tail(q)) = Len(q) - 1 /\ Len(q) \in Nat
         /\ Head(q) \in S /\ At(q) = At(Tail(q)) \cup {Head(q)}
<1> DEFINE r == Tail(q)
<1>1. /\ r \in Seq(S) /\ Len(r) = Len(q) - 1 /\ Len(q) \in Nat /\ Len(q) # 0
      /\ \A i \in 1..Len(r) : r[i] = q[i + 1]
      /\ Head(q) = q[1] /\ Head(q) \in S
  BY HeadTailProperties, EmptySeq, LenProperties
<1>2. DOMAIN r = 1..Len(q) - 1 /\ DOMAIN q = 1..Len(q)
  BY <1>1, LenProperties
<1> HIDE DEF r
<1>3. ASSUME NEW x \in At(r) PROVE x \in At(q)
  <2>1. PICK i \in 1..Len(q) - 1 : x = q[i + 1]
    BY <1>1, <1>2 DEF At
  <2> QED BY <1>1, <1>2, <2>1 DEF At
<1>4. ASSUME NEW x \in At(q), x # Head(q) PROVE x \in At(r)
  <2>1. PICK i \in 1..Len(q) : x = q[i] /\ i # 1
    BY <1>1, <1>2, <1>4 DEF At
  <2>2. i - 1 \in DOMAIN r /\ r[i - 1] = x
    BY <1>1, <1>2, <2>1
  <2> QED BY <2>2 DEF At
<1>5. Head(q) \in At(q)
  BY <1>1, <1>2 DEF At
<1> QED BY <1>1, <1>3, <1>4, <1>5 DEF r

LEMMA TailIncreasing ==
  ASSUME NEW q \in Seq(Nat), q # <<>>, Increasing(q)
  PROVE  Increasing(Tail(q)) /\ \A x \in At(Tail(q)) : Head(q) < x
<1> DEFINE r == Tail(q)
<1>1. /\ r \in Seq(Nat) /\ Len(r) = Len(q) - 1 /\ Len(q) \in Nat /\ Len(q) # 0
      /\ \A i \in 1..Len(r) : r[i] = q[i + 1]
      /\ Head(q) = q[1]
  BY HeadTailProperties, EmptySeq, LenProperties
<1>2. DOMAIN r = 1..Len(q) - 1 /\ DOMAIN q = 1..Len(q)
  BY <1>1, LenProperties
<1> HIDE DEF r
<1>3. ASSUME NEW i \in DOMAIN r, NEW j \in DOMAIN r, i < j PROVE r[i] < r[j]
  <2>0. i \in 1..Len(q) - 1 /\ j \in 1..Len(q) - 1 /\ Len(q) \in Nat
    BY <1>1, <1>2, <1>3
  <2>1. i + 1 \in DOMAIN q /\ j + 1 \in DOMAIN q /\ i + 1 < j + 1
    BY <1>2, <1>3, <2>0
  <2>2. r[i] = q[i + 1] /\ r[j] = q[j + 1]
    BY <1>1, <1>2
  <2> QED BY <2>1, <2>2 DEF Increasing
<1>4. ASSUME NEW x \in At(r) PROVE Head(q) < x
  <2>1. PICK i \in 1..Len(q) - 1 : x = q[i + 1]
    BY <1>1, <1>2 DEF At
  <2>2. i + 1 \in 1..Len(q) /\ 1 \in 1..Len(q) /\ 1 < i + 1
    BY <1>1
  <2> QED BY <1>1, <1>2, <2>1, <2>2 DEF Increasing
<1> QED BY <1>3, <1>4 DEF Increasing, r

\* How often a piece is in a log, before and after another one arrives.
LEMMA CopiesFacts ==
  ASSUME NEW S, NEW q \in Seq(S), NEW x \in S, NEW p
  PROVE  /\ Copies(q, p) \in Nat
         /\ p \notin At(q) => Copies(q, p) = 0
         /\ Copies(Append(q, x), p) = IF x = p THEN Copies(q, p) + 1 ELSE Copies(q, p)
<1> DEFINE I == {i \in DOMAIN q : q[i] = p}
           J == {i \in DOMAIN Append(q, x) : Append(q, x)[i] = p}
<1>1. /\ Len(q) \in Nat /\ DOMAIN q = 1..Len(q) /\ DOMAIN Append(q, x) = 1..Len(q) + 1
      /\ \A i \in DOMAIN q : Append(q, x)[i] = q[i]
      /\ Append(q, x)[Len(q) + 1] = x
  BY AppendAt
<1>2. IsFiniteSet(I) /\ I \subseteq 1..Len(q)
  <2>1. I \subseteq 1..Len(q) /\ IsFiniteSet(1..Len(q))
    BY <1>1, FS_Interval
  <2> QED BY <2>1, FS_Subset
<1>3. Cardinality(I) \in Nat
  BY <1>2, FS_CardinalityType
<1>4. J = IF x = p THEN I \cup {Len(q) + 1} ELSE I
  BY <1>1
<1>5. Len(q) + 1 \notin I
  BY <1>1, <1>2
<1>6. Cardinality(I \cup {Len(q) + 1}) = Cardinality(I) + 1
  BY <1>2, <1>5, FS_AddElement
<1>7. p \notin At(q) => Cardinality(I) = 0
  <2>1. p \notin At(q) => I = {}
    BY DEF At
  <2> QED BY <2>1, FS_EmptySet
<1> QED BY <1>3, <1>4, <1>6, <1>7 DEF Copies
-----------------------------------------------------------------------------
(* The inductive invariant.                                                *)

Published == offered \ Direct
Holding(d) == disp[d] \in {"lookup", "enqueue"}
Busy(s)    == spc[s] \in {"limiter", "send", "wait"}

\* the worker of a channel and lane in the current generation, and its dispatcher
Current(x) == x[1] = gen

\* p comes before q
Before(p, q) == p[1] < q[1] \/ (p[1] = q[1] /\ p[2] < q[2])

\* The kinds of the values.
TypeInv ==
    /\ TypeOK
    /\ log \in [Channel -> [Lane -> Seq(Piece)]]
    /\ cur \in [Sender -> Piece \cup {<<>>}]
    /\ \A d \in Dispatcher : Holding(d) => held[d] \in Message

\* Whose goroutines run, and which queues are closed, at each point of StopAll.
Over(w) == w[1] < gen \/ (w[1] = gen /\ phase \in {"down", "failed"})
LifeInv ==
    /\ (phase = "new") <=> (gen = 0)
    /\ \A g \in Generation : g > gen => started[g] = {}
    /\ \A d \in Dispatcher : disp[d] # "none" => d[1] <= gen
    /\ \A w \in Worker : /\ spc[w] # "none" => w[1] <= gen /\ w[2] \in started[w[1]]
                         /\ spc[w] # "returned" /\ (queue[w] # <<>> => w[1] <= gen)
    /\ \A m \in Direct : spc[<<m>>] \notin {"idle", "exited"}
    /\ \A w \in Worker :
          w[2] \in started[w[1]] /\ (\/ Over(w)
                                     \/ w[1] = gen /\ phase = "closedMedia"
                                     \/ w[1] = gen /\ phase = "closedText" /\ w[3] = "text") => w \in shut
    /\ \A w \in Worker : Over(w) => spc[w] \in {"none", "exited"}
    /\ phase = "closedMedia" => \A w \in Worker : w[1] = gen /\ w[3] = "text" => spc[w] \in {"none", "exited"}

\* A message goes through the lane and to the channel it is for.
OfferInv ==
    \A m \in Published : \A n \in 1..m - 1 :
        IF n \in Direct THEN spc[<<n>>] = "returned" ELSE n \in offered \/ LaneOf[n] # LaneOf[m]
BusRoute == \A l \in Lane : \A m \in At(busQ[l]) : m \in Published /\ LaneOf[m] = l
HeldRoute ==
    \A d \in Dispatcher :
        Holding(d) => /\ held[d] \in Published /\ LaneOf[held[d]] = d[2]
                      /\ disp[d] = "enqueue" => Dest[held[d]] \in started[d[1]]
WorkRoute ==
    \A w \in Worker :
        /\ \A m \in At(queue[w]) : m \in Published /\ Dest[m] = w[2] /\ LaneOf[m] = w[3]
        /\ Busy(w) => cur[w][1] \in Published /\ Dest[cur[w][1]] = w[2] /\ LaneOf[cur[w][1]] = w[3]
CallRoute ==
    \A m \in Direct : /\ Busy(<<m>>) => cur[<<m>>][1] = m
                      /\ (spc[<<m>>] # "none") <=> (m \in offered)
LogRoute ==
    \A c \in Channel, l \in Lane : \A p \in At(log[c][l]) :
        p[1] \in offered /\ Dest[p[1]] = c /\ LaneOf[p[1]] = l
RouteInv == OfferInv /\ BusRoute /\ HeldRoute /\ WorkRoute /\ CallRoute /\ LogRoute

\* log of published pieces only
Arrived(c, l) == {p \in At(log[c][l]) : p[1] \notin Direct}

\* What a platform has seen comes before what its worker sends, this before what is
\* queued for it, this before what its dispatcher holds, this before what is on the bus.
QueueInv ==
    /\ \A l \in Lane : Increasing(busQ[l])
    /\ \A w \in Worker : Increasing(queue[w])
BusInv ==
    \A l \in Lane : \A b \in At(busQ[l]) :
        /\ \A d \in Dispatcher : d[2] = l /\ Holding(d) => held[d] < b
        /\ \A w \in Worker : w[3] = l => /\ \A m \in At(queue[w]) : m < b
                                         /\ Busy(w) => cur[w][1] < b
        /\ \A c \in Channel : \A p \in Arrived(c, l) : p[1] < b
HeldInv ==
    \A d \in Dispatcher : Current(d) /\ Holding(d) =>
        /\ \A w \in Worker : Current(w) /\ w[3] = d[2] =>
              /\ \A m \in At(queue[w]) : m < held[d]
              /\ Busy(w) => cur[w][1] < held[d]
        /\ \A c \in Channel : \A p \in Arrived(c, d[2]) : p[1] < held[d]
WaitInv ==
    \A w \in Worker : Current(w) => \A m \in At(queue[w]) :
        /\ Busy(w) => cur[w][1] < m
        /\ \A p \in Arrived(w[2], w[3]) : p[1] < m
SendInv ==
    \A w \in Worker : Busy(w) =>
        \A p \in Arrived(w[2], w[3]) :
            Before(p, cur[w]) \/ (p = cur[w] /\ spc[w] # "limiter")

\* The pieces of a SendMessage are seen in order, and after it has begun.
DirectInv ==
    \A m \in Direct : \A p \in At(log[Dest[m]]["text"]) : p[1] = m =>
        /\ spc[<<m>>] # "none"
        /\ Busy(<<m>>) => (Before(p, cur[<<m>>]) \/ (p = cur[<<m>>] /\ spc[<<m>>] # "limiter"))

\* What comes before the piece that is sent has been sent or has failed, or the context
\* has ended and the piece will not be sent either.
DoneInv ==
    \A s \in Sender : Busy(s) =>
        \/ \A k \in 1..cur[s][2] - 1 : Done(<<cur[s][1], k>>)
        \/ spc[s] = "limiter" /\ Cancelled(s)

\* A piece has arrived at most once for each attempt that failed.
CopyInv ==
    \A s \in Sender : Busy(s) =>
        /\ Copies(log[Platform(s)[1]][Platform(s)[2]], cur[s]) <= attempt[s]
        /\ spc[s] = "limiter" => attempt[s] = 0
        /\ spc[s] = "wait" => attempt[s] # 0

\* A published message is in one place.
Unique(m) ==
    /\ \A d \in Dispatcher : Holding(d) /\ held[d] = m =>
          /\ \A e \in Dispatcher : Holding(e) /\ held[e] = m => e = d
          /\ \A w \in Worker : m \notin At(queue[w]) /\ ~(Busy(w) /\ cur[w][1] = m)
    /\ \A w \in Worker : m \in At(queue[w]) =>
          /\ \A v \in Worker : m \in At(queue[v]) => v = w
          /\ \A v \in Worker : ~(Busy(v) /\ cur[v][1] = m)
    /\ \A v, w \in Worker : Busy(v) /\ Busy(w) /\ cur[v][1] = m /\ cur[w][1] = m => v = w
UniqueInv == \A m \in Published : Unique(m)

\* Until a context ends, a published message waits somewhere or is settled.
Somewhere(m) ==
    \/ \E l \in Lane : m \in At(busQ[l])
    \/ \E d \in Dispatcher : Holding(d) /\ held[d] = m
    \/ \E w \in Worker : m \in At(queue[w]) \/ (Busy(w) /\ cur[w][1] = m)
KeptInv == ctxDone = {} => \A m \in Published : Somewhere(m) \/ Settled(m)
-----------------------------------------------------------------------------
(* The kinds of the values.                                                *)

\* the worker and dispatcher ids, and the pieces, by their parts
LEMMA Ids ==
  /\ \A w \in Worker : w[1] \in Generation /\ w[2] \in Channel /\ w[3] \in Lane /\ w = <<w[1], w[2], w[3]>>
  /\ \A d \in Dispatcher : d[1] \in Generation /\ d[2] \in Lane /\ d = <<d[1], d[2]>>
  /\ \A g \in Generation, c \in Channel, l \in Lane : <<g, c, l>> \in Worker /\ <<g, l>> \in Dispatcher
  /\ \A m \in Direct : <<m>> \in Sender /\ <<m>> \notin Worker
  /\ Worker \subseteq Sender
  /\ \A s \in Sender : s \in Worker \/ (s = <<s[1]>> /\ s[1] \in Direct)
<1>1. \A m : <<m>> \notin Worker
  BY DEF Worker
<1> QED BY <1>1 DEF Worker, Dispatcher, Sender

LEMMA Pieces ==
  ASSUME ManagerAssumption
  PROVE  /\ \A p \in Piece : p[1] \in Message /\ p[2] \in 1..Chunks[p[1]] /\ p[2] \in Nat /\ p = <<p[1], p[2]>>
         /\ \A m \in Message : /\ Chunks[m] \in Nat \ {0}
                               /\ \A k \in 1..Chunks[m] : <<m, k>> \in Piece
         /\ Message \subseteq Nat /\ 0 \notin Message /\ Generation \subseteq Nat /\ 0 \notin Generation
         /\ Piece \cap {<<>>} = {}
<1>1. Message \subseteq Nat /\ 0 \notin Message /\ Generation \subseteq Nat /\ 0 \notin Generation
  BY DEF ManagerAssumption, Message, Generation
<1>2. \A m \in Message : Chunks[m] \in Nat \ {0}
  BY DEF ManagerAssumption
<1>3. \A p \in Piece : p[1] \in Message /\ p[2] \in 1..Chunks[p[1]] /\ p[2] \in Nat /\ p = <<p[1], p[2]>>
  BY DEF Piece
<1>4. \A m \in Message : \A k \in 1..Chunks[m] : <<m, k>> \in Piece
  BY <1>2 DEF Piece
<1>5. <<>> \notin Piece
  BY DEF Piece
<1> QED BY <1>1, <1>2, <1>3, <1>4, <1>5

Names == {"none", "idle", "limiter", "send", "wait", "exited", "returned"}

LEMMA SenderFacts ==
  ASSUME ManagerAssumption, TypeInv, NEW s \in Sender, Busy(s)
  PROVE  /\ cur[s] \in Piece /\ cur[s][1] \in Message /\ cur[s] = <<cur[s][1], cur[s][2]>>
         /\ cur[s][2] \in Nat /\ cur[s][2] \in 1..Chunks[cur[s][1]]
         /\ Chunks[cur[s][1]] \in Nat
         /\ Platform(s)[1] \in Channel /\ Platform(s)[2] \in Lane
         /\ attempt[s] \in Nat /\ attempt[s] <= MaxRetries /\ MaxRetries \in Nat
         /\ spc[s] \in {"limiter", "send", "wait"}
         /\ (s \in Worker => Platform(s) = <<s[2], s[3]>>)
         /\ (s \notin Worker => s = <<s[1]>> /\ s[1] \in Direct /\ Platform(s) = <<Dest[s[1]], "text">>)
<1>1. cur[s] \in Piece
  BY DEF TypeInv, TypeOK, Busy
<1>2. Platform(s)[1] \in Channel /\ Platform(s)[2] \in Lane
  BY Ids DEF Platform, ManagerAssumption
<1>3. attempt[s] \in 0..MaxRetries /\ MaxRetries \in Nat
  BY DEF TypeInv, TypeOK, ManagerAssumption
<1>4. cur[s][1] \in Message /\ cur[s] = <<cur[s][1], cur[s][2]>> /\ cur[s][2] \in Nat
      /\ cur[s][2] \in 1..Chunks[cur[s][1]]
  BY <1>1, Pieces
<1> QED BY <1>1, <1>2, <1>3, <1>4, Pieces, Ids DEF Busy, Platform

LEMMA ArriveFacts ==
  ASSUME ManagerAssumption, TypeInv, NEW s \in Sender, Busy(s), Arrive(s)
  PROVE  /\ log' \in [Channel -> [Lane -> Seq(Piece)]]
         /\ \A c \in Channel, l \in Lane :
               log'[c][l] = IF <<c, l>> = Platform(s) THEN Append(log[c][l], cur[s]) ELSE log[c][l]
<1> DEFINE c0 == Platform(s)[1]  l0 == Platform(s)[2]
<1>1. c0 \in Channel /\ l0 \in Lane /\ cur[s] \in Piece /\ log \in [Channel -> [Lane -> Seq(Piece)]]
  BY SenderFacts DEF TypeInv
<1>2. log' = [log EXCEPT ![c0] = [log[c0] EXCEPT ![l0] = Append(log[c0][l0], cur[s])]]
  BY <1>1 DEF Arrive
<1>5. Platform(s) = <<c0, l0>>
  BY DEF Platform
<1> HIDE DEF c0, l0
<1>3. log[c0] \in [Lane -> Seq(Piece)] /\ log[c0][l0] \in Seq(Piece)
  BY <1>1
<1>4. Append(log[c0][l0], cur[s]) \in Seq(Piece)
  BY <1>1, <1>3, AppendAt
<1>6. log' \in [Channel -> [Lane -> Seq(Piece)]]
  BY <1>1, <1>2, <1>3, <1>4
<1>7. ASSUME NEW c \in Channel, NEW l \in Lane
      PROVE  log'[c][l] = IF <<c, l>> = Platform(s) THEN Append(log[c][l], cur[s]) ELSE log[c][l]
  <2>1. CASE c = c0 /\ l = l0
    BY <1>1, <1>2, <1>3, <1>5, <2>1
  <2>2. CASE ~(c = c0 /\ l = l0)
    BY <1>1, <1>2, <1>3, <1>5, <2>2
  <2> QED BY <2>1, <2>2
<1> QED BY <1>6, <1>7

LEMMA NextFacts ==
  ASSUME ManagerAssumption, TypeInv, NEW s \in Sender, Busy(s), NextPiece(s)
  PROVE  /\ \A t \in Sender : t # s => spc'[t] = spc[t] /\ cur'[t] = cur[t] /\ attempt'[t] = attempt[t]
         /\ attempt'[s] = 0
         /\ \/ /\ cur[s][2] < Chunks[cur[s][1]] /\ spc'[s] = "limiter"
               /\ cur'[s] = <<cur[s][1], cur[s][2] + 1>> /\ cur'[s] \in Piece
            \/ /\ cur[s][2] = Chunks[cur[s][1]] /\ cur'[s] = <<>>
               /\ spc'[s] = IF s \in Worker THEN "idle" ELSE "returned"
         /\ spc' \in [Sender -> Names] /\ cur' \in [Sender -> Piece \cup {<<>>}]
         /\ attempt' \in [Sender -> 0..MaxRetries]
<1> DEFINE m == cur[s][1]  k == cur[s][2]
<1>1. /\ m \in Message /\ k \in Nat /\ k \in 1..Chunks[m] /\ Chunks[m] \in Nat /\ MaxRetries \in Nat
      /\ spc \in [Sender -> Names] /\ cur \in [Sender -> Piece \cup {<<>>}]
      /\ attempt \in [Sender -> 0..MaxRetries]
  BY SenderFacts DEF TypeInv, TypeOK, Names
<1>2. k < Chunks[m] => <<m, k + 1>> \in Piece
  <2>1. k < Chunks[m] => k + 1 \in 1..Chunks[m]
    BY <1>1
  <2> QED BY <1>1, <2>1, Pieces
<1>3. /\ attempt' = [attempt EXCEPT ![s] = 0]
      /\ k < Chunks[m] => spc' = [spc EXCEPT ![s] = "limiter"] /\ cur' = [cur EXCEPT ![s] = <<m, k + 1>>]
      /\ ~(k < Chunks[m]) => /\ spc' = [spc EXCEPT ![s] = IF s \in Worker THEN "idle" ELSE "returned"]
                             /\ cur' = [cur EXCEPT ![s] = <<>>]
  BY DEF NextPiece
<1> HIDE DEF m, k
<1>4. CASE k < Chunks[m]
  <2>1. /\ spc' = [spc EXCEPT ![s] = "limiter"] /\ cur' = [cur EXCEPT ![s] = <<m, k + 1>>]
        /\ attempt' = [attempt EXCEPT ![s] = 0] /\ <<m, k + 1>> \in Piece
    BY <1>2, <1>3, <1>4
  <2>2. /\ spc' \in [Sender -> Names] /\ cur' \in [Sender -> Piece \cup {<<>>}]
        /\ attempt' \in [Sender -> 0..MaxRetries]
    BY <1>1, <2>1 DEF Names
  <2>3. spc'[s] = "limiter" /\ cur'[s] = <<m, k + 1>> /\ attempt'[s] = 0
    BY <1>1, <2>1
  <2>4. \A t \in Sender : t # s => spc'[t] = spc[t] /\ cur'[t] = cur[t] /\ attempt'[t] = attempt[t]
    BY <1>1, <2>1
  <2> QED BY <1>4, <2>1, <2>2, <2>3, <2>4 DEF m, k
<1>5. CASE ~(k < Chunks[m])
  <2> DEFINE end == IF s \in Worker THEN "idle" ELSE "returned"
  <2>1. /\ spc' = [spc EXCEPT ![s] = end] /\ cur' = [cur EXCEPT ![s] = <<>>]
        /\ attempt' = [attempt EXCEPT ![s] = 0] /\ k = Chunks[m] /\ end \in Names
    BY <1>1, <1>3, <1>5 DEF Names
  <2> HIDE DEF end
  <2>2. /\ spc' \in [Sender -> Names] /\ cur' \in [Sender -> Piece \cup {<<>>}]
        /\ attempt' \in [Sender -> 0..MaxRetries]
    BY <1>1, <2>1
  <2>3. spc'[s] = end /\ cur'[s] = <<>> /\ attempt'[s] = 0
    BY <1>1, <2>1
  <2>4. \A t \in Sender : t # s => spc'[t] = spc[t] /\ cur'[t] = cur[t] /\ attempt'[t] = attempt[t]
    BY <1>1, <2>1
  <2> QED BY <2>1, <2>2, <2>3, <2>4 DEF m, k, end
<1> QED BY <1>4, <1>5

\* What sendWithRetry may do to its piece: go on with it, count a failed attempt, or leave it.
Stays(s) ==
    /\ UNCHANGED <<cur, attempt, log, failed>>
    /\ spc' = [spc EXCEPT ![s] = "send"]
    /\ spc[s] = "wait" \/ (spc[s] = "limiter" /\ ~Cancelled(s))
Fails(s) ==
    /\ spc[s] = "send" /\ (Arrive(s) \/ UNCHANGED log)
    /\ attempt[s] < MaxRetries
    /\ spc' = [spc EXCEPT ![s] = "wait"] /\ attempt' = [attempt EXCEPT ![s] = @ + 1]
    /\ UNCHANGED <<cur, failed>>
Leaves(s) ==
    /\ NextPiece(s)
    /\ \/ spc[s] \in {"limiter", "wait"} /\ Cancelled(s) /\ UNCHANGED <<log, failed>>
       \/ spc[s] = "send" /\ Arrive(s) /\ UNCHANGED failed
       \/ spc[s] = "send" /\ (Arrive(s) \/ UNCHANGED log) /\ failed' = failed \cup {cur[s]}

LEMMA SendSteps ==
  ASSUME NEW s \in Sender, SendWithRetry(s)
  PROVE  Busy(s) /\ UNCHANGED elsewhere /\ (Stays(s) \/ Fails(s) \/ Leaves(s))
BY DEF SendWithRetry, LimiterPass, LimiterAbort, SendOk, SendPermanentError, SendError, RetryAgain,
       RetryAbort, Stays, Fails, Leaves, Busy

LEMMA TypeInit == ManagerAssumption /\ Init => TypeInv
<1> SUFFICES ASSUME ManagerAssumption, Init PROVE TypeInv
  OBVIOUS
<1>1. <<>> \in Seq(Message) /\ <<>> \in Seq(Piece) /\ Len(<<>>) = 0
  BY EmptySeq
<1>2. gen \in 0..Generations /\ phase \in PhaseName /\ Capacity \in Nat /\ MaxRetries \in Nat /\ Messages \in Nat
  BY DEF Init, ManagerAssumption, PhaseName
<1>3. \A w \in Worker : queue[w] = <<>> /\ Len(queue[w]) <= Capacity
  BY <1>1, <1>2 DEF Init
<1>4. /\ queue \in [Worker -> Seq(Message)] /\ busQ \in [Lane -> Seq(Message)]
      /\ log \in [Channel -> [Lane -> Seq(Piece)]] /\ cur \in [Sender -> Piece \cup {<<>>}]
      /\ \A s \in Sender : spc[s] = "none" /\ cur[s] = <<>>
      /\ \A c \in Channel, l \in Lane : log[c][l] \in Seq(Piece)
      /\ \A d \in Dispatcher : disp[d] = "none"
  BY <1>1 DEF Init
<1>5. /\ disp \in [Dispatcher -> {"none", "subscribe", "lookup", "enqueue", "stopped"}]
      /\ held \in [Dispatcher -> 0..Messages] /\ attempt \in [Sender -> 0..MaxRetries]
      /\ spc \in [Sender -> {"none", "idle", "limiter", "send", "wait", "exited", "returned"}]
      /\ ctxDone = {} /\ offered = {} /\ shut = {} /\ failed = {} /\ skipped = {} /\ panicked = FALSE
      /\ started \in [Generation -> SUBSET Channel]
  BY <1>2 DEF Init
<1> QED BY <1>2, <1>3, <1>4, <1>5 DEF TypeInv, TypeOK, Holding

\* A manager starts when there was none, or when the last one is down.
LEMMA Starts ==
  ASSUME ManagerAssumption, TypeInv, LifeInv, Boot \/ Restart
  PROVE  /\ gen + 1 \in Generation
         /\ \E up \in SUBSET Channel, where \in {"running", "restarting"} : StartAll(gen + 1, up, where)
         /\ gen \in Nat /\ phase \in {"new", "down"}
         /\ \A w \in Worker : w[1] <= gen => Over(w)
         /\ \A w \in Worker : w[1] > gen => spc[w] = "none" /\ cur[w] = <<>> /\ queue[w] = <<>>
         /\ \A d \in Dispatcher : d[1] > gen => disp[d] = "none"
<1>1. gen \in Nat /\ Generations \in Nat /\ Generations # 0 /\ \A w \in Worker : w[1] \in Nat /\ w[1] > 0
  BY Ids, Pieces DEF TypeInv, TypeOK, ManagerAssumption, Generation
<1>2. /\ gen + 1 \in Generation
      /\ \E up \in SUBSET Channel, where \in {"running", "restarting"} : StartAll(gen + 1, up, where)
      /\ (gen = 0 /\ phase = "new") \/ phase = "down"
  <2>1. CASE Boot
    <3>1. gen = 0 /\ phase = "new" /\ \E up \in SUBSET Channel : StartAll(gen + 1, up, "running")
      BY <2>1 DEF Boot, LifeInv
    <3> QED BY <1>1, <3>1 DEF Generation
  <2>2. CASE Restart
    <3>1. gen < Generations /\ phase = "down" /\ \E up \in SUBSET Channel : StartAll(gen + 1, up, "restarting")
      BY <2>2 DEF Restart
    <3> QED BY <1>1, <3>1 DEF Generation
  <2> QED BY <2>1, <2>2
<1>4. \A w \in Worker : w[1] <= gen => Over(w)
  BY <1>1, <1>2 DEF Over
<1>5. ASSUME NEW w \in Worker, w[1] > gen PROVE spc[w] = "none" /\ cur[w] = <<>> /\ queue[w] = <<>>
  <2>1. spc[w] = "none" /\ queue[w] = <<>>
    BY <1>1, <1>5 DEF LifeInv
  <2> QED BY <2>1, Ids DEF TypeInv, TypeOK
<1>6. \A d \in Dispatcher : d[1] > gen => disp[d] = "none"
  <2>1. \A d \in Dispatcher : d[1] \in Nat
    BY Ids, Pieces
  <2> QED BY <1>1, <2>1 DEF LifeInv
<1>7. phase \in {"new", "down"}
  BY DEF Boot, Restart
<1> QED BY <1>1, <1>2, <1>4, <1>5, <1>6, <1>7

LEMMA TypeStep == ManagerAssumption /\ TypeInv /\ LifeInv /\ [Next]_vars => TypeInv'
<1> SUFFICES ASSUME ManagerAssumption, TypeInv, LifeInv, [Next]_vars PROVE TypeInv'
  OBVIOUS
<1>0. /\ gen \in 0..Generations /\ gen \in Nat /\ Generations \in Nat /\ phase \in PhaseName
      /\ ctxDone \subseteq Generation /\ started \in [Generation -> SUBSET Channel]
      /\ busQ \in [Lane -> Seq(Message)] /\ offered \subseteq Message
      /\ disp \in [Dispatcher -> {"none", "subscribe", "lookup", "enqueue", "stopped"}]
      /\ held \in [Dispatcher -> 0..Messages] /\ Messages \in Nat /\ Message = 1..Messages
      /\ queue \in [Worker -> Seq(Message)] /\ (\A w \in Worker : Len(queue[w]) <= Capacity)
      /\ shut \subseteq Worker /\ spc \in [Sender -> Names]
      /\ cur \in [Sender -> Piece \cup {<<>>}] /\ attempt \in [Sender -> 0..MaxRetries]
      /\ log \in [Channel -> [Lane -> Seq(Piece)]]
      /\ failed \subseteq Piece /\ skipped \subseteq Message /\ panicked \in BOOLEAN
      /\ MaxRetries \in Nat /\ Capacity \in Nat /\ Capacity # 0
  BY DEF TypeInv, TypeOK, ManagerAssumption, Names, Message
<1>h. \A d \in Dispatcher : Holding(d) => held[d] \in Message
  BY DEF TypeInv
<1>c. \A s \in Sender : IF Busy(s) THEN cur[s] \in Piece ELSE cur[s] = <<>>
  BY DEF TypeInv, TypeOK, Busy
<1> DEFINE LifeType == /\ gen' \in 0..Generations /\ phase' \in PhaseName /\ ctxDone' \subseteq Generation
                       /\ started' \in [Generation -> SUBSET Channel] /\ shut' \subseteq Worker
           DispType == /\ busQ' \in [Lane -> Seq(Message)] /\ held' \in [Dispatcher -> 0..Messages]
                       /\ disp' \in [Dispatcher -> {"none", "subscribe", "lookup", "enqueue", "stopped"}]
                       /\ \A d \in Dispatcher : Holding(d)' => held'[d] \in Message
           QueueType == queue' \in [Worker -> Seq(Message)] /\ \A w \in Worker : Len(queue'[w]) <= Capacity
           SendType == /\ spc' \in [Sender -> Names] /\ cur' \in [Sender -> Piece \cup {<<>>}]
                       /\ attempt' \in [Sender -> 0..MaxRetries]
                       /\ log' \in [Channel -> [Lane -> Seq(Piece)]] /\ failed' \subseteq Piece
                       /\ \A s \in Sender : IF Busy(s)' THEN cur'[s] \in Piece ELSE cur'[s] = <<>>
           RestType == offered' \subseteq Message /\ skipped' \subseteq Message /\ panicked' \in BOOLEAN
<1>q. LifeType /\ DispType /\ QueueType /\ SendType /\ RestType => TypeInv'
  BY DEF TypeInv, TypeOK, Busy, Names, Holding
<1>a. /\ UNCHANGED lifeVars => LifeType
      /\ UNCHANGED dispVars => DispType
      /\ UNCHANGED queue => QueueType
      /\ UNCHANGED sendVars => SendType
      /\ UNCHANGED <<offered, skipped, panicked>> => RestType
  BY <1>0, <1>c, <1>h DEF lifeVars, dispVars, sendVars, Busy, Holding
<1> HIDE DEF LifeType, DispType, QueueType, SendType, RestType
<1>1. CASE Boot \/ Restart
  <2>0. PICK up \in SUBSET Channel, where \in {"running", "restarting"} : StartAll(gen + 1, up, where)
    BY <1>1, Starts
  <2>1. LifeType
    <3>1. gen + 1 \in Generation
      BY <1>1, Starts
    <3> QED BY <1>0, <2>0, <3>1 DEF StartAll, LifeType, Generation, PhaseName
  <2>2. DispType
    BY <1>0, <1>h, <2>0 DEF StartAll, DispType, Holding
  <2>3. spc' \in [Sender -> Names] /\ UNCHANGED <<cur, attempt, log, failed>>
    BY <1>0, <2>0 DEF StartAll, Names
  <2>4. SendType
    <3> SUFFICES ASSUME NEW s \in Sender PROVE IF Busy(s)' THEN cur'[s] \in Piece ELSE cur'[s] = <<>>
      BY <1>0, <2>3 DEF SendType
    <3>1. CASE s \in Worker /\ s[1] = gen + 1
      <4>1. cur[s] = <<>>
        BY <1>0, <1>1, <3>1, Starts
      <4>2. ~Busy(s) /\ ~Busy(s)'
        <5>1. spc[s] = "none"
          BY <1>0, <1>1, <3>1, Starts
        <5> QED BY <2>0, <5>1 DEF StartAll, Busy
      <4> QED BY <2>3, <4>1, <4>2
    <3>2. CASE ~(s \in Worker /\ s[1] = gen + 1)
      <4>1. spc'[s] = spc[s]
        BY <2>0, <3>2 DEF StartAll
      <4> QED BY <1>c, <2>3, <4>1 DEF Busy
    <3> QED BY <3>1, <3>2
  <2>5. QueueType /\ RestType
    BY <1>a, <2>0 DEF StartAll
  <2> QED BY <1>q, <2>1, <2>2, <2>4, <2>5
<1>2. CASE RestartReturns \/ RestartFails \/ StopAll
  <2>1. \A l : LaneWorkers(l) \subseteq Worker
    BY DEF LaneWorkers
  <2>2. LifeType
    <3>1. gen = 0 \/ gen \in Generation
      BY <1>0 DEF Generation
    <3>2. gen # 0 \/ phase = "new"
      BY DEF LifeInv
    <3> QED BY <1>0, <1>2, <2>1, <3>1, <3>2 DEF RestartReturns, RestartFails, StopAll, StopCancel, StopCloseText,
                                 StopCloseMedia, StopReturn, LifeType, PhaseName
  <2>3. UNCHANGED <<dispVars, sendVars, queue, offered, skipped, panicked>>
    BY <1>2 DEF RestartReturns, RestartFails, StopAll, StopCancel, StopCloseText, StopCloseMedia, StopReturn
  <2> QED BY <1>a, <1>q, <2>2, <2>3
<1>3. CASE StopAgain
  <2>1. LifeType /\ RestType
    BY <1>0, <1>3 DEF StopAgain, LifeType, RestType, PhaseName
  <2>2. UNCHANGED <<dispVars, sendVars, queue>>
    BY <1>3 DEF StopAgain
  <2> QED BY <1>a, <1>q, <2>1, <2>2
<1>4. ASSUME NEW m \in Message, Publish(m) PROVE TypeInv'
  <2>1. LaneOf[m] \in Lane
    BY DEF ManagerAssumption
  <2>2. Append(busQ[LaneOf[m]], m) \in Seq(Message)
    <3>1. busQ[LaneOf[m]] \in Seq(Message)
      BY <1>0, <2>1
    <3> QED BY <3>1, AppendAt
  <2>3. DispType
    BY <1>0, <1>4, <1>h, <2>1, <2>2 DEF Publish, DispType, Holding
  <2>4. RestType /\ UNCHANGED <<lifeVars, sendVars, queue>>
    BY <1>0, <1>4 DEF Publish, RestType
  <2> QED BY <1>a, <1>q, <2>3, <2>4
<1>5. ASSUME NEW d \in Dispatcher, Dispatch(d) PROVE TypeInv'
  <2>0. UNCHANGED <<lifeVars, sendVars>>
    BY <1>5 DEF Dispatch, Subscribe, SubscribeStop, SkipInternal, Lookup, Enqueue, EnqueueClosed, EnqueueStop
  <2>d. d[1] \in Generation /\ d[2] \in Lane
    BY Ids
  <2>1. CASE Subscribe(d)
    <3>0. busQ[d[2]] \in Seq(Message) /\ busQ[d[2]] # <<>>
      BY <1>0, <2>1, <2>d DEF Subscribe
    <3>1. Head(busQ[d[2]]) \in Message /\ Tail(busQ[d[2]]) \in Seq(Message)
      BY <3>0, TailAt
    <3>2. DispType
      <4>1. /\ held' = [held EXCEPT ![d] = Head(busQ[d[2]])] /\ disp' = [disp EXCEPT ![d] = "lookup"]
            /\ busQ' = [busQ EXCEPT ![d[2]] = Tail(busQ[d[2]])]
        BY <2>1 DEF Subscribe
      <4>2. held' \in [Dispatcher -> 0..Messages] /\ busQ' \in [Lane -> Seq(Message)]
        <5>1. Head(busQ[d[2]]) \in 0..Messages
          BY <1>0, <3>1
        <5> QED BY <1>0, <3>1, <4>1, <5>1
      <4>3. \A e \in Dispatcher : Holding(e)' => held'[e] \in Message
        BY <1>0, <1>h, <3>1, <4>1 DEF Holding
      <4> QED BY <1>0, <4>1, <4>2, <4>3 DEF DispType
    <3> QED BY <1>a, <1>q, <2>0, <2>1, <3>2 DEF Subscribe
  <2>2. CASE SubscribeStop(d) \/ EnqueueStop(d)
    <3>1. DispType
      BY <1>0, <1>h, <2>2 DEF SubscribeStop, EnqueueStop, DispType, Holding
    <3> QED BY <1>a, <1>q, <2>0, <2>2, <3>1 DEF SubscribeStop, EnqueueStop
  <2>3. CASE SkipInternal(d) \/ Lookup(d)
    <3>1. held[d] \in Message
      BY <1>h, <2>3 DEF SkipInternal, Lookup, Holding
    <3>2. DispType
      BY <1>0, <1>h, <2>3 DEF SkipInternal, Lookup, DispType, Holding
    <3>3. RestType
      BY <1>0, <2>3, <3>1 DEF SkipInternal, Lookup, RestType
    <3> QED BY <1>a, <1>q, <2>0, <2>3, <3>2, <3>3 DEF SkipInternal, Lookup
  <2>4. CASE Enqueue(d)
    <3>1. held[d] \in Message
      BY <1>h, <2>4 DEF Enqueue, Holding
    <3>2. DispType
      BY <1>0, <1>h, <2>4 DEF Enqueue, DispType, Holding
    <3>3. QueueType
      <4> DEFINE w == Target(d)
      <4>1. queue' = [queue EXCEPT ![w] = Append(queue[w], held[d])] /\ Len(queue[w]) < Capacity
        BY <2>4 DEF Enqueue
      <4> HIDE DEF w
      <4>2. w \in Worker => Append(queue[w], held[d]) \in Seq(Message) /\ Len(Append(queue[w], held[d])) <= Capacity
        BY <1>0, <3>1, <4>1, AppendAt
      <4> QED BY <1>0, <4>1, <4>2 DEF QueueType
    <3> QED BY <1>a, <1>q, <2>0, <2>4, <3>2, <3>3 DEF Enqueue
  <2>5. CASE EnqueueClosed(d)
    <3>1. RestType
      BY <1>0, <2>5 DEF EnqueueClosed, RestType
    <3> QED BY <1>a, <1>q, <2>0, <2>5, <3>1 DEF EnqueueClosed
  <2> QED BY <1>5, <2>1, <2>2, <2>3, <2>4, <2>5 DEF Dispatch
<1>6. ASSUME NEW w \in Worker, TakeMessage(w) PROVE TypeInv'
  <2> DEFINE m == Head(queue[w])
  <2>0. w \in Sender /\ m \in Message /\ Tail(queue[w]) \in Seq(Message) /\ Len(Tail(queue[w])) <= Capacity
        /\ <<m, 1>> \in Piece
    <3>1. Len(queue[w]) <= Capacity /\ queue[w] \in Seq(Message) /\ queue[w] # <<>>
      BY <1>0, <1>6 DEF TakeMessage
    <3>2. m \in Message /\ Tail(queue[w]) \in Seq(Message) /\ Len(Tail(queue[w])) <= Capacity
      BY <1>0, <3>1, TailAt
    <3>3. 1 \in 1..Chunks[m]
      BY <3>2, Pieces
    <3> QED BY <3>2, <3>3, Pieces, Ids
  <2>1. QueueType
    BY <1>0, <1>6, <2>0 DEF TakeMessage, QueueType
  <2>2. SendType
    <3>1. CASE UNCHANGED sendVars
      BY <1>a, <3>1
    <3>2. CASE BeginMessage(w, m)
      <4>1. /\ spc' = [spc EXCEPT ![w] = "limiter"] /\ cur' = [cur EXCEPT ![w] = <<m, 1>>]
            /\ attempt' = [attempt EXCEPT ![w] = 0] /\ UNCHANGED <<log, failed>>
        BY <3>2 DEF BeginMessage
      <4> HIDE DEF m
      <4>2. /\ spc' \in [Sender -> Names] /\ cur' \in [Sender -> Piece \cup {<<>>}]
            /\ attempt' \in [Sender -> 0..MaxRetries]
        BY <1>0, <2>0, <4>1 DEF Names
      <4>3. \A s \in Sender : IF Busy(s)' THEN cur'[s] \in Piece ELSE cur'[s] = <<>>
        BY <1>0, <1>c, <2>0, <4>1 DEF Busy
      <4> QED BY <1>0, <4>1, <4>2, <4>3 DEF SendType
    <3> QED BY <1>6, <3>1, <3>2 DEF TakeMessage
  <2>3. RestType
    <3>1. skipped' \in {skipped, skipped \cup {m}} /\ UNCHANGED <<offered, panicked>>
      BY <1>6 DEF TakeMessage
    <3> HIDE DEF m
    <3> QED BY <1>0, <2>0, <3>1 DEF RestType
  <2> QED BY <1>6, <1>a, <1>q, <2>1, <2>2, <2>3 DEF TakeMessage
<1>7. ASSUME NEW w \in Worker, WorkerExit(w) PROVE TypeInv'
  <2>1. SendType
    BY <1>0, <1>7, <1>c, Ids DEF WorkerExit, SendType, Busy, Names
  <2> QED BY <1>7, <1>a, <1>q, <2>1 DEF WorkerExit
<1>8. ASSUME NEW m \in Direct, SendMessage(m) PROVE TypeInv'
  <2>0. m \in Message /\ <<m>> \in Sender /\ <<m, 1>> \in Piece
    <3>1. m \in Message
      BY DEF ManagerAssumption
    <3>2. 1 \in 1..Chunks[m]
      BY <3>1, Pieces
    <3> QED BY <3>1, <3>2, Ids, Pieces
  <2>1. SendType
    <3>1. CASE BeginMessage(<<m>>, m)
      <4>1. /\ spc' = [spc EXCEPT ![<<m>>] = "limiter"] /\ cur' = [cur EXCEPT ![<<m>>] = <<m, 1>>]
            /\ attempt' = [attempt EXCEPT ![<<m>>] = 0] /\ UNCHANGED <<log, failed>>
        BY <3>1 DEF BeginMessage
      <4>2. /\ spc' \in [Sender -> Names] /\ cur' \in [Sender -> Piece \cup {<<>>}]
            /\ attempt' \in [Sender -> 0..MaxRetries]
        BY <1>0, <2>0, <4>1 DEF Names
      <4>3. \A s \in Sender : IF Busy(s)' THEN cur'[s] \in Piece ELSE cur'[s] = <<>>
        BY <1>0, <1>c, <2>0, <4>1 DEF Busy
      <4> QED BY <1>0, <4>1, <4>2, <4>3 DEF SendType
    <3>2. CASE spc' = [spc EXCEPT ![<<m>>] = "returned"] /\ UNCHANGED <<cur, attempt, log, failed>>
      <4>1. ~Busy(<<m>>)
        BY <1>8 DEF SendMessage, Busy
      <4> QED BY <1>0, <1>c, <2>0, <3>2, <4>1 DEF SendType, Busy, Names
    <3> QED BY <1>8, <3>1, <3>2 DEF SendMessage
  <2>2. RestType
    BY <1>0, <1>8, <2>0 DEF SendMessage, RestType
  <2> QED BY <1>8, <1>a, <1>q, <2>1, <2>2 DEF SendMessage
<1>9. ASSUME NEW s \in Sender, SendWithRetry(s) PROVE TypeInv'
  <2>1. Busy(s) /\ UNCHANGED elsewhere /\ (Stays(s) \/ Fails(s) \/ Leaves(s)) /\ cur[s] \in Piece
    BY <1>9, <1>c, SendSteps
  <2>2. log' \in [Channel -> [Lane -> Seq(Piece)]] /\ failed' \subseteq Piece
    BY <1>0, <2>1, ArriveFacts DEF Stays, Fails, Leaves
  <2>3. SendType
    <3>1. CASE Stays(s)
      BY <1>0, <1>c, <2>1, <2>2, <3>1 DEF Stays, SendType, Busy, Names
    <3>2. CASE Fails(s)
      BY <1>0, <1>c, <2>1, <2>2, <3>2 DEF Fails, SendType, Busy, Names
    <3>3. CASE Leaves(s)
      <4>1. /\ \A t \in Sender : t # s => spc'[t] = spc[t] /\ cur'[t] = cur[t]
            /\ (spc'[s] = "limiter" /\ cur'[s] \in Piece) \/ (spc'[s] \in {"idle", "returned"} /\ cur'[s] = <<>>)
            /\ spc' \in [Sender -> Names] /\ cur' \in [Sender -> Piece \cup {<<>>}]
            /\ attempt' \in [Sender -> 0..MaxRetries]
        BY <2>1, <3>3, NextFacts DEF Leaves
      <4> QED BY <1>c, <2>2, <4>1 DEF SendType, Busy
    <3> QED BY <2>1, <3>1, <3>2, <3>3
  <2> QED BY <1>a, <1>q, <2>1, <2>3 DEF elsewhere
<1>10. CASE UNCHANGED vars
  BY <1>a, <1>q, <1>10 DEF vars
<1> QED BY <1>1, <1>2, <1>3, <1>4, <1>5, <1>6, <1>7, <1>8, <1>9, <1>10 DEF Next

-----------------------------------------------------------------------------
(* The steps, by what they do to the messages.                             *)

\* nothing: the manager's life goes on, or the process has died
Quiet ==
    /\ UNCHANGED <<gen, started, dispVars, sendVars, queue, offered, skipped>>
    /\ ctxDone \subseteq ctxDone'

\* a dispatcher does not hold a message any more
Drops(d) ==
    /\ \E x \in {"subscribe", "stopped"} : disp' = [disp EXCEPT ![d] = x]
    /\ Holding(d) => held[d] \in skipped' \/ ctxDone # {}
    /\ skipped \subseteq skipped'
    /\ UNCHANGED <<lifeVars, busQ, held, sendVars, queue, offered>>

\* it has found the worker
Finds(d) ==
    /\ disp[d] = "lookup" /\ disp' = [disp EXCEPT ![d] = "enqueue"]
    /\ Dest[held[d]] \in started[d[1]]
    /\ UNCHANGED <<lifeVars, busQ, held, sendVars, queue, offered, skipped>>

LEMMA DispatchSteps ==
  ASSUME NEW d \in Dispatcher, Dispatch(d)
  PROVE  Subscribe(d) \/ Drops(d) \/ Finds(d) \/ Enqueue(d) \/ Quiet
<1>1. CASE SubscribeStop(d)
  BY <1>1 DEF SubscribeStop, Drops, Holding
<1>2. CASE SkipInternal(d)
  BY <1>2 DEF SkipInternal, Drops
<1>3. CASE Lookup(d)
  BY <1>3 DEF Lookup, Drops, Finds
<1>4. CASE EnqueueStop(d)
  BY <1>4 DEF EnqueueStop, Drops
<1>5. CASE EnqueueClosed(d)
  BY <1>5 DEF EnqueueClosed, Quiet, lifeVars
<1> QED BY <1>1, <1>2, <1>3, <1>4, <1>5 DEF Dispatch

LEMMA Steps ==
  ASSUME [Next]_vars
  PROVE  \/ Boot \/ Restart \/ Quiet
         \/ \E m \in Message : Publish(m)
         \/ \E d \in Dispatcher : Subscribe(d) \/ Drops(d) \/ Finds(d) \/ Enqueue(d)
         \/ \E w \in Worker : TakeMessage(w) \/ WorkerExit(w)
         \/ \E m \in Direct : SendMessage(m)
         \/ \E s \in Sender : SendWithRetry(s)
<1>1. RestartReturns \/ RestartFails \/ StopAll \/ StopAgain => Quiet
  BY DEF RestartReturns, RestartFails, StopAll, StopCancel, StopCloseText, StopCloseMedia, StopReturn,
         StopAgain, Quiet
<1>2. UNCHANGED vars => Quiet
  BY DEF vars, lifeVars, Quiet
<1> QED BY <1>1, <1>2, DispatchSteps DEF Next

\* A step that leaves the manager's life alone keeps LifeInv, if no goroutine begins.
LEMMA LifeKept ==
  ASSUME LifeInv, UNCHANGED lifeVars,
         \A d \in Dispatcher : disp'[d] # "none" => disp[d] # "none",
         \A w \in Worker : spc'[w] = spc[w] \/ (spc[w] \notin {"none", "exited"} /\ spc'[w] \notin {"none", "returned"}),
         \A w \in Worker : queue'[w] # <<>> => queue[w] # <<>> \/ w[1] <= gen,
         \A m \in Direct : spc'[<<m>>] \notin {"idle", "exited"}
  PROVE  LifeInv'
<1>1. gen' = gen /\ phase' = phase /\ started' = started /\ shut' = shut
  BY DEF lifeVars
<1>2. \A w \in Worker : /\ spc'[w] # "none" => spc[w] # "none"
                        /\ spc[w] # "returned" => spc'[w] # "returned"
                        /\ spc[w] \in {"none", "exited"} => spc'[w] \in {"none", "exited"}
  OBVIOUS
<1> QED BY <1>1, <1>2 DEF LifeInv, Over

LEMMA LifeInit == ManagerAssumption /\ Init => LifeInv
<1> SUFFICES ASSUME ManagerAssumption, Init PROVE LifeInv
  OBVIOUS
<1>1. /\ \A w \in Worker : spc[w] = "none" /\ queue[w] = <<>> /\ started[w[1]] = {}
      /\ \A m \in Direct : spc[<<m>>] = "none"
      /\ \A d \in Dispatcher : disp[d] = "none"
      /\ \A g \in Generation : started[g] = {}
      /\ gen = 0 /\ phase = "new"
  BY Ids DEF Init
<1> QED BY <1>1 DEF LifeInv, Over

LEMMA LifeStep == ManagerAssumption /\ TypeInv /\ LifeInv /\ [Next]_vars => LifeInv'
<1> SUFFICES ASSUME ManagerAssumption, TypeInv, LifeInv, [Next]_vars PROVE LifeInv'
  OBVIOUS
<1>0. /\ gen \in Nat /\ gen \in 0..Generations /\ Generations \in Nat
      /\ \A w \in Worker : w[1] \in Nat /\ w[1] > 0 /\ w[2] \in Channel /\ w[3] \in {"text", "media"} /\ w[1] \in Generation
      /\ \A d \in Dispatcher : d[1] \in Nat
      /\ started \in [Generation -> SUBSET Channel] /\ disp \in [Dispatcher -> {"none", "subscribe", "lookup", "enqueue", "stopped"}]
      /\ spc \in [Sender -> Names]
      /\ Worker \subseteq Sender /\ \A m \in Direct : <<m>> \in Sender /\ <<m>> \notin Worker
  <2>1. Lane \subseteq {"text", "media"} /\ Generations \in Nat /\ gen \in 0..Generations
    BY DEF ManagerAssumption, TypeInv, TypeOK
  <2>2. gen \in Nat
    BY <2>1
  <2> QED BY <2>1, <2>2, Ids, Pieces DEF TypeInv, TypeOK, Names
<1>1. CASE Boot \/ Restart
  <2>0. PICK up \in SUBSET Channel, where \in {"running", "restarting"} : StartAll(gen + 1, up, where)
    BY <1>1, Starts
  <2>1. /\ gen' = gen + 1 /\ phase' = where /\ gen + 1 \in Generation /\ shut' = shut /\ queue' = queue
        /\ started' = [started EXCEPT ![gen + 1] = up]
        /\ \A d \in Dispatcher : disp'[d] = IF d[1] = gen + 1 THEN "subscribe" ELSE disp[d]
        /\ \A s \in Sender : spc'[s] = IF s \in Worker /\ s[1] = gen + 1 /\ s[2] \in up THEN "idle" ELSE spc[s]
    BY <1>1, <2>0, Starts DEF StartAll
  <2>2. \A w \in Worker : w[1] <= gen => /\ Over(w) /\ spc'[w] = spc[w] /\ started'[w[1]] = started[w[1]]
    BY <1>0, <1>1, <2>1, Starts
  <2>3. \A w \in Worker : w[1] > gen => spc[w] = "none" /\ queue[w] = <<>>
    BY <1>1, Starts
  <2>4. \A w \in Worker : Over(w)' => w[1] <= gen
    BY <1>0, <2>1 DEF Over
  <2>5. /\ \A g \in Generation : g > gen' => started'[g] = {}
        /\ \A d \in Dispatcher : disp'[d] # "none" => d[1] <= gen'
    <3>1. Generation \subseteq Nat
      BY Pieces
    <3> QED BY <1>0, <2>1, <3>1 DEF LifeInv
  <2>6. \A w \in Worker : /\ spc'[w] # "none" => w[1] <= gen' /\ w[2] \in started'[w[1]]
                          /\ spc'[w] # "returned" /\ (queue'[w] # <<>> => w[1] <= gen')
    BY <1>0, <2>1, <2>2, <2>3 DEF LifeInv
  <2>7. \A m \in Direct : spc'[<<m>>] \notin {"idle", "exited"}
    BY <1>0, <2>1 DEF LifeInv
  <2>8. \A w \in Worker : /\ Over(w)' /\ w[2] \in started'[w[1]] => w \in shut'
                          /\ Over(w)' => spc'[w] \in {"none", "exited"}
    BY <2>1, <2>2, <2>4 DEF LifeInv
  <2>9. phase' \notin {"closedMedia", "closedText", "new"} /\ gen' # 0
    BY <1>0, <2>1
  <2> QED BY <2>5, <2>6, <2>7, <2>8, <2>9 DEF LifeInv
<1>2. ASSUME UNCHANGED <<gen, started, disp, spc, queue>>, phase # "new", phase' # "new", shut \subseteq shut',
             \A w \in Worker : w[1] = gen /\ w[2] \in started[gen] =>
                   /\ phase' \in {"closedText", "closedMedia", "down", "failed"} /\ w[3] = "text" => w \in shut'
                   /\ phase' \in {"closedMedia", "down", "failed"} /\ w[3] = "media" => w \in shut'
                   /\ phase' \in {"closedMedia", "down", "failed"} /\ w[3] = "text" => spc[w] \in {"none", "exited"}
                   /\ phase' \in {"down", "failed"} /\ w[3] = "media" => spc[w] \in {"none", "exited"}
      PROVE  LifeInv'
  <2>1. \A w \in Worker : w[1] = gen /\ w[2] \notin started[gen] => spc[w] = "none"
    BY DEF LifeInv
  <2>2. /\ \A w \in Worker : Over(w)' /\ w[2] \in started'[w[1]] => w \in shut'
        /\ phase' = "closedMedia" => \A w \in Worker : w[1] = gen' /\ w[2] \in started'[w[1]] => w \in shut'
        /\ phase' = "closedText" => \A w \in Worker : w[1] = gen' /\ w[3] = "text" /\ w[2] \in started'[w[1]] => w \in shut'
    BY <1>0, <1>2 DEF LifeInv, Over
  <2>3. \A w \in Worker : Over(w)' => spc'[w] \in {"none", "exited"}
    BY <1>0, <1>2, <2>1 DEF LifeInv, Over
  <2>4. phase' = "closedMedia" => \A w \in Worker : w[1] = gen' /\ w[3] = "text" => spc'[w] \in {"none", "exited"}
    BY <1>0, <1>2, <2>1 DEF LifeInv
  <2>5. /\ (phase' = "new") <=> (gen' = 0)
        /\ \A g \in Generation : g > gen' => started'[g] = {}
        /\ \A d \in Dispatcher : disp'[d] # "none" => d[1] <= gen'
    BY <1>2 DEF LifeInv
  <2>6. \A w \in Worker : /\ spc'[w] # "none" => w[1] <= gen' /\ w[2] \in started'[w[1]]
                          /\ spc'[w] # "returned" /\ (queue'[w] # <<>> => w[1] <= gen')
    BY <1>2 DEF LifeInv
  <2>7. \A m \in Direct : spc'[<<m>>] \notin {"idle", "exited"}
    BY <1>2 DEF LifeInv
  <2> QED BY <2>2, <2>3, <2>4, <2>5, <2>6, <2>7 DEF LifeInv
<1>3. \A w \in Worker, l \in {"text", "media"} : w[1] = gen /\ w[2] \in started[gen] /\ w[3] = l => w \in LaneWorkers(l)
  BY DEF LaneWorkers
<1>4. CASE RestartReturns \/ StopCancel
  <2>1. /\ UNCHANGED <<gen, started, disp, spc, queue>> /\ phase # "new" /\ shut' = shut
        /\ phase' \in {"running", "cancelled"}
    BY <1>4 DEF RestartReturns, StopCancel, dispVars, sendVars
  <2> QED BY <1>2, <2>1
<1>5. CASE RestartFails \/ StopAgain
  <2>1. /\ UNCHANGED <<gen, started, disp, spc, queue>> /\ phase # "new" /\ shut' = shut
        /\ phase \in {"down", "failed"} /\ phase' # "new"
    BY <1>5 DEF RestartFails, StopAgain, dispVars, sendVars
  <2>2. \A w \in Worker : w[1] = gen => Over(w)
    BY <2>1 DEF Over
  <2> QED BY <1>2, <2>1, <2>2 DEF LifeInv
<1>6. CASE StopCloseText
  <2>1. /\ UNCHANGED <<gen, started, disp, spc, queue>> /\ phase = "cancelled" /\ shut' = shut \cup LaneWorkers("text")
        /\ phase' = "closedText"
    BY <1>6 DEF StopCloseText, dispVars, sendVars
  <2> QED BY <1>2, <1>3, <2>1
<1>7. CASE StopCloseMedia
  <2>1. /\ UNCHANGED <<gen, started, disp, spc, queue>> /\ phase = "closedText" /\ shut' = shut \cup LaneWorkers("media")
        /\ phase' = "closedMedia" /\ \A w \in LaneWorkers("text") : spc[w] = "exited"
    BY <1>7 DEF StopCloseMedia, dispVars, sendVars
  <2>2. \A w \in Worker : w[1] = gen /\ w[2] \in started[gen] /\ w[3] = "text" => w \in shut'
    BY <2>1 DEF LifeInv
  <2> QED BY <1>2, <1>3, <2>1, <2>2
<1>8. CASE StopReturn
  <2>1. /\ UNCHANGED <<gen, started, disp, spc, queue>> /\ phase = "closedMedia" /\ shut' = shut
        /\ phase' = "down" /\ \A w \in LaneWorkers("media") : spc[w] = "exited"
    BY <1>8 DEF StopReturn, dispVars, sendVars
  <2>2. \A w \in Worker : w[1] = gen /\ w[2] \in started[gen] => w \in shut'
    BY <2>1 DEF LifeInv
  <2>3. \A w \in Worker : w[1] = gen /\ w[3] = "text" => spc[w] \in {"none", "exited"}
    BY <2>1 DEF LifeInv
  <2> QED BY <1>2, <1>3, <2>1, <2>2, <2>3
<1>9. ASSUME UNCHANGED <<lifeVars, spc, queue>>, \A d \in Dispatcher : disp'[d] # "none" => disp[d] # "none"
      PROVE  LifeInv'
  BY <1>9, LifeKept DEF LifeInv
<1>10. ASSUME NEW m \in Message, Publish(m) PROVE LifeInv'
  BY <1>9, <1>10 DEF Publish, sendVars
<1>11. ASSUME NEW d \in Dispatcher, Dispatch(d) PROVE LifeInv'
  <2>1. UNCHANGED <<lifeVars, spc>> /\ \A e \in Dispatcher : disp'[e] # "none" => disp[e] # "none"
    BY <1>0, <1>11 DEF Dispatch, Subscribe, SubscribeStop, SkipInternal, Lookup, Enqueue, EnqueueClosed, EnqueueStop,
                       sendVars, dispVars
  <2>2. \A w \in Worker : queue'[w] # <<>> => queue[w] # <<>> \/ w[1] <= gen
    <3>1. CASE Enqueue(d)
      <4>1. d[1] <= gen
        BY <3>1 DEF Enqueue, LifeInv
      <4>2. \A w \in Worker : w # Target(d) => queue'[w] = queue[w]
        BY <3>1 DEF Enqueue, TypeInv, TypeOK
      <4>3. Target(d)[1] = d[1]
        BY DEF Target
      <4> QED BY <4>1, <4>2, <4>3
    <3>2. CASE ~Enqueue(d)
      BY <1>11, <3>2 DEF Dispatch, Subscribe, SubscribeStop, SkipInternal, Lookup, EnqueueClosed, EnqueueStop
    <3> QED BY <3>1, <3>2
  <2> QED BY <2>1, <2>2, LifeKept DEF LifeInv
<1>12. ASSUME NEW w \in Worker, TakeMessage(w) PROVE LifeInv'
  <2>1. UNCHANGED <<lifeVars, disp>> /\ spc[w] = "idle" /\ queue' = [queue EXCEPT ![w] = Tail(@)] /\ queue[w] # <<>>
        /\ (spc' = spc \/ spc' = [spc EXCEPT ![w] = "limiter"])
    BY <1>12 DEF TakeMessage, BeginMessage, sendVars, dispVars
  <2>2. \A v \in Worker : queue'[v] # <<>> => queue[v] # <<>>
    BY <2>1 DEF TypeInv, TypeOK
  <2>3. \A s \in Sender : s # w => spc'[s] = spc[s]
    BY <1>0, <2>1
  <2>4. spc'[w] = spc[w] \/ spc'[w] = "limiter"
    BY <1>0, <2>1
  <2>5. \A m \in Direct : spc'[<<m>>] \notin {"idle", "exited"}
    <3>1. \A m \in Direct : <<m>> \in Sender /\ <<m>> # w
      BY <1>0, <1>12
    <3>2. \A m \in Direct : spc[<<m>>] \notin {"idle", "exited"}
      BY DEF LifeInv
    <3> QED BY <2>3, <3>1, <3>2
  <2>6. \A v \in Worker : spc'[v] = spc[v] \/ (spc[v] \notin {"none", "exited"} /\ spc'[v] \notin {"none", "returned"})
    BY <1>0, <2>1, <2>3, <2>4
  <2> QED BY <2>1, <2>2, <2>5, <2>6, LifeKept
<1>13. ASSUME NEW w \in Worker, WorkerExit(w) PROVE LifeInv'
  <2>1. UNCHANGED <<lifeVars, disp, queue>> /\ spc[w] = "idle" /\ spc' = [spc EXCEPT ![w] = "exited"]
    BY <1>13 DEF WorkerExit, dispVars
  <2>2. \A m \in Direct : spc'[<<m>>] \notin {"idle", "exited"}
    BY <1>0, <2>1 DEF LifeInv
  <2>3. \A v \in Worker : spc'[v] = spc[v] \/ (spc[v] \notin {"none", "exited"} /\ spc'[v] \notin {"none", "returned"})
    BY <1>0, <2>1
  <2> QED BY <2>1, <2>2, <2>3, LifeKept
<1>14. ASSUME NEW m \in Direct, SendMessage(m) PROVE LifeInv'
  <2>1. /\ UNCHANGED <<lifeVars, disp, queue>>
        /\ spc' = [spc EXCEPT ![<<m>>] = "limiter"] \/ spc' = [spc EXCEPT ![<<m>>] = "returned"]
    BY <1>14 DEF SendMessage, BeginMessage, dispVars
  <2>2. \A s \in Sender : spc'[s] = IF s = <<m>> THEN spc'[<<m>>] ELSE spc[s]
    BY <1>0, <2>1
  <2>3. spc'[<<m>>] \in {"limiter", "returned"}
    BY <1>0, <2>1
  <2> QED BY <1>0, <2>1, <2>2, <2>3, LifeKept DEF LifeInv
<1>15. ASSUME NEW s \in Sender, SendWithRetry(s) PROVE LifeInv'
  <2>1. Busy(s) /\ UNCHANGED <<lifeVars, disp, queue>> /\ (Stays(s) \/ Fails(s) \/ Leaves(s))
    BY <1>15, SendSteps DEF elsewhere, dispVars
  <2>2. /\ \A t \in Sender : t # s => spc'[t] = spc[t]
        /\ spc'[s] \in {"limiter", "send", "wait"} \/ spc'[s] = IF s \in Worker THEN "idle" ELSE "returned"
    <3>1. CASE Leaves(s)
      BY <2>1, <3>1, NextFacts DEF Leaves
    <3>2. CASE Stays(s) \/ Fails(s)
      BY <1>0, <3>2 DEF Stays, Fails
    <3> QED BY <2>1, <3>1, <3>2
  <2> QED BY <1>0, <2>1, <2>2, LifeKept DEF LifeInv, Busy
<1>16. CASE UNCHANGED vars
  BY <1>9, <1>16 DEF vars, dispVars, sendVars
<1> QED BY <1>1, <1>4, <1>5, <1>6, <1>7, <1>8, <1>10, <1>11, <1>12, <1>13, <1>14, <1>15, <1>16 DEF Next, StopAll

-----------------------------------------------------------------------------
(* What the steps do to the queues, as sets of messages.                   *)

LEMMA TypeFacts ==
  ASSUME ManagerAssumption, TypeInv
  PROVE  /\ busQ \in [Lane -> Seq(Message)] /\ queue \in [Worker -> Seq(Message)]
         /\ \A l \in Lane : busQ[l] \in Seq(Nat) /\ At(busQ[l]) \subseteq Message
         /\ \A w \in Worker : queue[w] \in Seq(Nat) /\ At(queue[w]) \subseteq Message
         /\ \A c \in Channel, l \in Lane : log[c][l] \in Seq(Piece) /\ At(log[c][l]) \subseteq Piece
         /\ disp \in [Dispatcher -> {"none", "subscribe", "lookup", "enqueue", "stopped"}]
         /\ held \in [Dispatcher -> 0..Messages] /\ \A d \in Dispatcher : Holding(d) => held[d] \in Message
         /\ spc \in [Sender -> Names] /\ cur \in [Sender -> Piece \cup {<<>>}]
         /\ \A s \in Sender : IF Busy(s) THEN cur[s] \in Piece ELSE cur[s] = <<>>
         /\ attempt \in [Sender -> 0..MaxRetries] /\ offered \subseteq Message
         /\ log \in [Channel -> [Lane -> Seq(Piece)]]
         /\ Message \subseteq Nat /\ Worker \subseteq Sender /\ gen \in Nat
<1>1. Message \subseteq Nat
  BY Pieces
<1>2. \A q \in Seq(Message) : q \in Seq(Nat) /\ At(q) \subseteq Message
  <2> TAKE q \in Seq(Message)
  <2>1. /\ Len(q) \in Nat /\ DOMAIN q = 1..Len(q) /\ q = [i \in 1..Len(q) |-> q[i]]
        /\ \A i \in 1..Len(q) : q[i] \in Message
    BY LenProperties, ElementOfSeq
  <2>2. q \in [1..Len(q) -> Nat]
    BY <1>1, <2>1
  <2>3. q \in Seq(Nat)
    BY <2>1, <2>2, SeqDef
  <2> QED BY <2>1, <2>3 DEF At
<1>3. \A q \in Seq(Piece) : At(q) \subseteq Piece
  <2> TAKE q \in Seq(Piece)
  <2>1. DOMAIN q = 1..Len(q) /\ \A i \in 1..Len(q) : q[i] \in Piece
    BY LenProperties, ElementOfSeq
  <2> QED BY <2>1 DEF At
<1>4. /\ busQ \in [Lane -> Seq(Message)] /\ queue \in [Worker -> Seq(Message)]
      /\ log \in [Channel -> [Lane -> Seq(Piece)]] /\ gen \in 0..Generations /\ Generations \in Nat
  BY DEF TypeInv, TypeOK, ManagerAssumption
<1>5. /\ \A s \in Sender : IF Busy(s) THEN cur[s] \in Piece ELSE cur[s] = <<>>
      /\ disp \in [Dispatcher -> {"none", "subscribe", "lookup", "enqueue", "stopped"}]
      /\ held \in [Dispatcher -> 0..Messages] /\ \A d \in Dispatcher : Holding(d) => held[d] \in Message
      /\ spc \in [Sender -> Names] /\ cur \in [Sender -> Piece \cup {<<>>}]
      /\ attempt \in [Sender -> 0..MaxRetries] /\ offered \subseteq Message
  BY DEF TypeInv, TypeOK, Busy, Names
<1>6. \A l \in Lane : busQ[l] \in Seq(Nat) /\ At(busQ[l]) \subseteq Message
  BY <1>2, <1>4
<1>7. \A w \in Worker : queue[w] \in Seq(Nat) /\ At(queue[w]) \subseteq Message
  BY <1>2, <1>4
<1>8. \A c \in Channel, l \in Lane : log[c][l] \in Seq(Piece) /\ At(log[c][l]) \subseteq Piece
  BY <1>3, <1>4
<1>9. gen \in Nat
  BY <1>4
<1> QED BY <1>1, <1>4, <1>5, <1>6, <1>7, <1>8, <1>9, Ids

LEMMA PublishFacts ==
  ASSUME ManagerAssumption, TypeInv, NEW m \in Message, Publish(m)
  PROVE  /\ m \notin Direct /\ m \notin offered /\ offered' = offered \cup {m} /\ LaneOf[m] \in Lane
         /\ \A n \in 1..m - 1 : IF n \in Direct THEN spc[<<n>>] = "returned" ELSE n \in offered \/ LaneOf[n] # LaneOf[m]
         /\ \A l \in Lane : l # LaneOf[m] => busQ'[l] = busQ[l]
         /\ At(busQ'[LaneOf[m]]) = At(busQ[LaneOf[m]]) \cup {m}
         /\ Increasing(busQ[LaneOf[m]]) /\ (\A x \in At(busQ[LaneOf[m]]) : x < m) => Increasing(busQ'[LaneOf[m]])
         /\ UNCHANGED <<lifeVars, disp, held, sendVars, queue, skipped>>
<1> DEFINE l == LaneOf[m]
<1>1. l \in Lane /\ m \in Nat
  BY TypeFacts DEF ManagerAssumption
<1>2. busQ' = [busQ EXCEPT ![l] = Append(busQ[l], m)] /\ busQ \in [Lane -> Seq(Message)]
  BY TypeFacts DEF Publish
<1> HIDE DEF l
<1>3. busQ'[l] = Append(busQ[l], m) /\ busQ[l] \in Seq(Message) /\ busQ[l] \in Seq(Nat)
  BY <1>1, <1>2, TypeFacts
<1>4. At(busQ'[l]) = At(busQ[l]) \cup {m}
  BY <1>3, AppendAt
<1>5. Increasing(busQ[l]) /\ (\A x \in At(busQ[l]) : x < m) => Increasing(busQ'[l])
  BY <1>1, <1>3, AppendIncreasing
<1>6. \A k \in Lane : k # l => busQ'[k] = busQ[k]
  BY <1>2
<1> QED BY <1>1, <1>4, <1>5, <1>6 DEF Publish, l

LEMMA SubscribeFacts ==
  ASSUME ManagerAssumption, TypeInv, NEW d \in Dispatcher, Subscribe(d)
  PROVE  /\ d[2] \in Lane /\ ~Holding(d) /\ Holding(d)' /\ held'[d] \in Message
         /\ At(busQ[d[2]]) = At(busQ'[d[2]]) \cup {held'[d]}
         /\ Increasing(busQ[d[2]]) => Increasing(busQ'[d[2]]) /\ \A x \in At(busQ'[d[2]]) : held'[d] < x
         /\ \A l \in Lane : l # d[2] => busQ'[l] = busQ[l]
         /\ \A e \in Dispatcher : e # d => held'[e] = held[e] /\ disp'[e] = disp[e]
         /\ disp'[d] = "lookup"
         /\ UNCHANGED <<lifeVars, sendVars, queue, offered, skipped>>
<1> DEFINE l == d[2]
<1>1. l \in Lane
  BY Ids
<1>2. /\ busQ' = [busQ EXCEPT ![l] = Tail(busQ[l])] /\ busQ \in [Lane -> Seq(Message)]
      /\ held' = [held EXCEPT ![d] = Head(busQ[l])] /\ disp' = [disp EXCEPT ![d] = "lookup"]
      /\ disp[d] = "subscribe" /\ busQ[l] # <<>> /\ held \in [Dispatcher -> 0..Messages]
      /\ disp \in [Dispatcher -> {"none", "subscribe", "lookup", "enqueue", "stopped"}]
  BY TypeFacts DEF Subscribe
<1> HIDE DEF l
<1>3. busQ'[l] = Tail(busQ[l]) /\ busQ[l] \in Seq(Message) /\ busQ[l] \in Seq(Nat) /\ held'[d] = Head(busQ[l])
  BY <1>1, <1>2, TypeFacts
<1>4. At(busQ[l]) = At(busQ'[l]) \cup {held'[d]} /\ held'[d] \in Message
  BY <1>2, <1>3, TailAt
<1>5. Increasing(busQ[l]) => Increasing(busQ'[l]) /\ \A x \in At(busQ'[l]) : held'[d] < x
  BY <1>2, <1>3, TailIncreasing
<1>6. \A k \in Lane : k # l => busQ'[k] = busQ[k]
  BY <1>2
<1>7. /\ \A e \in Dispatcher : e # d => held'[e] = held[e] /\ disp'[e] = disp[e]
      /\ disp'[d] = "lookup" /\ ~Holding(d) /\ Holding(d)'
  BY <1>2 DEF Holding
<1> QED BY <1>1, <1>4, <1>5, <1>6, <1>7 DEF Subscribe, l

\* Only the dispatcher of the current generation finds an open queue.
LEMMA EnqueueFacts ==
  ASSUME ManagerAssumption, TypeInv, LifeInv, RouteInv, NEW d \in Dispatcher, Enqueue(d)
  PROVE  \E w \in Worker :
         /\ w[1] = d[1] /\ w[2] = Dest[held[d]] /\ w[3] = d[2] /\ Current(w) /\ Current(d) /\ w \notin shut
         /\ Holding(d) /\ ~Holding(d)' /\ held[d] \in Published /\ LaneOf[held[d]] = d[2]
         /\ At(queue'[w]) = At(queue[w]) \cup {held[d]}
         /\ Increasing(queue[w]) /\ (\A x \in At(queue[w]) : x < held[d]) => Increasing(queue'[w])
         /\ \A v \in Worker : v # w => queue'[v] = queue[v]
         /\ \A e \in Dispatcher : e # d => disp'[e] = disp[e]
         /\ disp'[d] = "subscribe"
         /\ UNCHANGED <<lifeVars, busQ, held, sendVars, offered, skipped>>
<1> DEFINE w == Target(d)
<1>1. disp[d] = "enqueue" /\ Holding(d)
  BY DEF Enqueue, Holding
<1>2. held[d] \in Published /\ LaneOf[held[d]] = d[2] /\ Dest[held[d]] \in started[d[1]] /\ held[d] \in Message /\ held[d] \in Nat
  BY <1>1, TypeFacts DEF RouteInv, HeldRoute
<1>3. d[1] \in Generation /\ d[2] \in Lane /\ started[d[1]] \in SUBSET Channel /\ gen \in Nat /\ d[1] \in Nat
  <2>1. d[1] \in Generation /\ d[2] \in Lane /\ d[1] \in Nat
    BY Ids, Pieces, TypeFacts DEF TypeInv, TypeOK
  <2>2. gen \in Nat /\ started[d[1]] \in SUBSET Channel
    BY <2>1, TypeFacts DEF TypeInv, TypeOK
  <2> QED BY <2>1, <2>2
<1>4. w = <<d[1], Dest[held[d]], d[2]>> /\ w \in Worker /\ w[1] = d[1] /\ w[2] = Dest[held[d]] /\ w[3] = d[2]
  BY <1>2, <1>3, Ids DEF Target
<1>5. /\ queue' = [queue EXCEPT ![w] = Append(queue[w], held[d])] /\ w \notin shut
      /\ disp' = [disp EXCEPT ![d] = "subscribe"]
      /\ UNCHANGED <<lifeVars, busQ, held, sendVars, offered, skipped>>
  BY DEF Enqueue
<1> HIDE DEF w
<1>6. d[1] = gen
  <2>1. d[1] <= gen
    BY <1>1 DEF LifeInv
  <2>2. ~Over(w)
    BY <1>2, <1>4, <1>5 DEF LifeInv
  <2> QED BY <1>3, <1>4, <2>1, <2>2 DEF Over
<1>7. queue'[w] = Append(queue[w], held[d]) /\ queue[w] \in Seq(Message) /\ queue[w] \in Seq(Nat)
  BY <1>4, <1>5, TypeFacts
<1>8. At(queue'[w]) = At(queue[w]) \cup {held[d]}
  BY <1>2, <1>7, AppendAt
<1>9. Increasing(queue[w]) /\ (\A x \in At(queue[w]) : x < held[d]) => Increasing(queue'[w])
  BY <1>2, <1>7, AppendIncreasing
<1>10. \A v \in Worker : v # w => queue'[v] = queue[v]
  BY <1>5, TypeFacts
<1>11. (\A e \in Dispatcher : e # d => disp'[e] = disp[e]) /\ disp'[d] = "subscribe" /\ ~Holding(d)'
  BY <1>5, TypeFacts DEF Holding
<1> QED BY <1>1, <1>2, <1>4, <1>5, <1>6, <1>8, <1>9, <1>10, <1>11 DEF Current

\* A worker takes the first message of its queue, to send it or to skip it.
LEMMA TakeFacts ==
  ASSUME ManagerAssumption, TypeInv, NEW w \in Worker, TakeMessage(w)
  PROVE  \E m \in Message :
         /\ ~Busy(w) /\ spc[w] = "idle" /\ w \in Sender
         /\ At(queue[w]) = At(queue'[w]) \cup {m}
         /\ Increasing(queue[w]) => Increasing(queue'[w]) /\ \A x \in At(queue'[w]) : m < x
         /\ \A v \in Worker : v # w => queue'[v] = queue[v]
         /\ \A s \in Sender : s # w => spc'[s] = spc[s] /\ cur'[s] = cur[s] /\ attempt'[s] = attempt[s]
         /\ \/ m \in skipped' /\ skipped \subseteq skipped' /\ UNCHANGED <<spc, cur, attempt>>
            \/ spc'[w] = "limiter" /\ cur'[w] = <<m, 1>> /\ attempt'[w] = 0 /\ skipped' = skipped
         /\ UNCHANGED <<lifeVars, dispVars, log, failed, offered>>
<1>1. /\ queue' = [queue EXCEPT ![w] = Tail(queue[w])] /\ queue[w] # <<>> /\ queue[w] \in Seq(Message)
      /\ queue[w] \in Seq(Nat) /\ spc[w] = "idle" /\ w \in Sender
      /\ UNCHANGED <<lifeVars, dispVars, offered>>
  BY TypeFacts DEF TakeMessage
<1>2. PICK m : m = Head(queue[w])
  OBVIOUS
<1>3. queue'[w] = Tail(queue[w])
  BY <1>1, TypeFacts
<1>4. At(queue[w]) = At(queue'[w]) \cup {m} /\ m \in Message
  BY <1>1, <1>2, <1>3, TailAt
<1>5. Increasing(queue[w]) => Increasing(queue'[w]) /\ \A x \in At(queue'[w]) : m < x
  BY <1>1, <1>2, <1>3, TailIncreasing
<1>6. \A v \in Worker : v # w => queue'[v] = queue[v]
  BY <1>1, TypeFacts
<1>7. (m \in skipped' /\ skipped \subseteq skipped' /\ UNCHANGED sendVars) \/ (BeginMessage(w, m) /\ skipped' = skipped)
  BY <1>2 DEF TakeMessage
<1>8. BeginMessage(w, m) =>
         /\ spc'[w] = "limiter" /\ cur'[w] = <<m, 1>> /\ attempt'[w] = 0 /\ UNCHANGED <<log, failed>>
         /\ \A s \in Sender : s # w => spc'[s] = spc[s] /\ cur'[s] = cur[s] /\ attempt'[s] = attempt[s]
  BY <1>1, TypeFacts DEF BeginMessage
<1> QED BY <1>1, <1>4, <1>5, <1>6, <1>7, <1>8 DEF Busy, sendVars

LEMMA SendMessageFacts ==
  ASSUME ManagerAssumption, TypeInv, NEW m \in Direct, SendMessage(m)
  PROVE  /\ m \in Message /\ <<m>> \in Sender /\ spc[<<m>>] = "none" /\ offered' = offered \cup {m}
         /\ \A s \in Sender : s # <<m>> => spc'[s] = spc[s] /\ cur'[s] = cur[s] /\ attempt'[s] = attempt[s]
         /\ \/ spc'[<<m>>] = "limiter" /\ cur'[<<m>>] = <<m, 1>> /\ attempt'[<<m>>] = 0
            \/ spc'[<<m>>] = "returned" /\ UNCHANGED <<cur, attempt>>
         /\ skipped \subseteq skipped'
         /\ UNCHANGED <<lifeVars, dispVars, log, failed, queue>>
<1>1. m \in Message /\ <<m>> \in Sender
  BY Ids DEF ManagerAssumption
<1>2. CASE BeginMessage(<<m>>, m) /\ UNCHANGED skipped
  BY <1>1, <1>2, TypeFacts DEF SendMessage, BeginMessage
<1>3. CASE spc' = [spc EXCEPT ![<<m>>] = "returned"] /\ skipped \subseteq skipped' /\ UNCHANGED <<cur, attempt, log, failed>>
  BY <1>1, <1>3, TypeFacts DEF SendMessage
<1> QED BY <1>2, <1>3 DEF SendMessage

\* A step of sendWithRetry changes its own sender, and what it sends arrives at one platform.
LEMMA SendFacts ==
  ASSUME ManagerAssumption, TypeInv, NEW s \in Sender, SendWithRetry(s)
  PROVE  /\ Busy(s) /\ UNCHANGED elsewhere /\ cur[s] \in Piece /\ failed \subseteq failed'
         /\ \A t \in Sender : t # s => spc'[t] = spc[t] /\ cur'[t] = cur[t] /\ attempt'[t] = attempt[t]
         /\ \/ cur'[s] = cur[s] /\ spc'[s] \in {"send", "wait"}
            \/ /\ cur[s][2] < Chunks[cur[s][1]] /\ spc'[s] = "limiter"
               /\ cur'[s] = <<cur[s][1], cur[s][2] + 1>>
            \/ /\ cur[s][2] = Chunks[cur[s][1]] /\ cur'[s] = <<>>
               /\ spc'[s] = IF s \in Worker THEN "idle" ELSE "returned"
<1>1. Busy(s) /\ UNCHANGED elsewhere /\ (Stays(s) \/ Fails(s) \/ Leaves(s)) /\ cur[s] \in Piece
  BY SendSteps, SenderFacts
<1>2. /\ \A t \in Sender : t # s => spc'[t] = spc[t] /\ cur'[t] = cur[t] /\ attempt'[t] = attempt[t]
      /\ \/ cur'[s] = cur[s] /\ spc'[s] \in {"send", "wait"}
         \/ /\ cur[s][2] < Chunks[cur[s][1]] /\ spc'[s] = "limiter"
            /\ cur'[s] = <<cur[s][1], cur[s][2] + 1>>
         \/ /\ cur[s][2] = Chunks[cur[s][1]] /\ cur'[s] = <<>>
            /\ spc'[s] = IF s \in Worker THEN "idle" ELSE "returned"
  <2>1. CASE Stays(s)
    BY <1>1, <2>1, TypeFacts DEF Stays
  <2>2. CASE Fails(s)
    BY <1>1, <2>2, TypeFacts DEF Fails
  <2>3. CASE Leaves(s)
    BY <1>1, <2>3, NextFacts DEF Leaves
  <2> QED BY <1>1, <2>1, <2>2, <2>3
<1>4. failed \subseteq failed'
  BY <1>1 DEF Stays, Fails, Leaves
<1> QED BY <1>1, <1>2, <1>4

\* what s does to the log of a platform
Grows(s, c, l) ==
    \/ log'[c][l] = log[c][l]
    \/ /\ <<c, l>> = Platform(s) /\ spc[s] = "send" /\ spc'[s] # "send"
       /\ log'[c][l] = Append(log[c][l], cur[s])
       /\ At(log'[c][l]) = At(log[c][l]) \cup {cur[s]}

LEMMA LogFacts ==
  ASSUME ManagerAssumption, TypeInv, NEW s \in Sender, SendWithRetry(s),
         NEW c \in Channel, NEW l \in Lane
  PROVE  Grows(s, c, l)
<1>1. Busy(s) /\ UNCHANGED elsewhere /\ (Stays(s) \/ Fails(s) \/ Leaves(s)) /\ cur[s] \in Piece
  BY SendSteps, SenderFacts
<1>2. spc[s] = "send" => spc'[s] # "send"
  <2>1. CASE Stays(s)
    BY <1>1, <2>1, TypeFacts DEF Stays
  <2>2. CASE Fails(s)
    BY <1>1, <2>2, TypeFacts DEF Fails
  <2>3. CASE Leaves(s)
    BY <1>1, <2>3, NextFacts DEF Leaves
  <2> QED BY <1>1, <2>1, <2>2, <2>3
<1>3. UNCHANGED log \/ (spc[s] = "send" /\ Arrive(s))
  BY <1>1 DEF Stays, Fails, Leaves
<1>5. ASSUME spc[s] = "send", Arrive(s)
      PROVE  \/ log'[c][l] = log[c][l]
             \/ /\ <<c, l>> = Platform(s)
                /\ log'[c][l] = Append(log[c][l], cur[s])
                /\ At(log'[c][l]) = At(log[c][l]) \cup {cur[s]}
  <2>1. log'[c][l] = IF <<c, l>> = Platform(s) THEN Append(log[c][l], cur[s]) ELSE log[c][l]
    BY <1>1, <1>5, ArriveFacts
  <2>2. At(Append(log[c][l], cur[s])) = At(log[c][l]) \cup {cur[s]}
    <3>1. log[c][l] \in Seq(Piece)
      BY TypeFacts
    <3> QED BY <1>1, <3>1, AppendAt
  <2> QED BY <2>1, <2>2
<1> QED BY <1>2, <1>3, <1>5 DEF Grows
-----------------------------------------------------------------------------
(* Routes.                                                                 *)

\* What a new manager does to the goroutines: its dispatchers hold nothing and its
\* workers send nothing.
LEMMA StartFacts ==
  ASSUME ManagerAssumption, TypeInv, LifeInv, Boot \/ Restart
  PROVE  /\ gen' = gen + 1
         /\ \A d \in Dispatcher : /\ Holding(d)' <=> Holding(d)
                                  /\ Holding(d) => d[1] <= gen /\ started'[d[1]] = started[d[1]] /\ disp'[d] = disp[d]
         /\ \A s \in Sender : /\ Busy(s)' <=> Busy(s)
                              /\ Busy(s) \/ s \notin Worker => spc'[s] = spc[s]
         /\ \A w \in Worker : w[1] = gen' => queue[w] = <<>> /\ ~Busy(w)
         /\ \A w \in Worker : ~Busy(w)
         /\ \A d \in Dispatcher : d[1] = gen' => ~Holding(d)
         /\ UNCHANGED <<ctxDone, busQ, held, cur, attempt, log, failed, queue, offered, skipped>>
<1>0. PICK up \in SUBSET Channel, where \in {"running", "restarting"} : StartAll(gen + 1, up, where)
  BY Starts
<1>1. /\ gen' = gen + 1 /\ gen \in Nat
      /\ \A d \in Dispatcher : disp'[d] = IF d[1] = gen + 1 THEN "subscribe" ELSE disp[d]
      /\ \A s \in Sender : spc'[s] = IF s \in Worker /\ s[1] = gen + 1 /\ s[2] \in up THEN "idle" ELSE spc[s]
      /\ started' = [started EXCEPT ![gen + 1] = up]
      /\ UNCHANGED <<ctxDone, busQ, held, cur, attempt, log, failed, queue, offered, skipped>>
  BY <1>0, TypeFacts DEF StartAll
<1>2. /\ \A d \in Dispatcher : d[1] \in Nat /\ d[1] \in Generation /\ (d[1] > gen => disp[d] = "none")
      /\ \A w \in Worker : w[1] \in Nat /\ w \in Sender
      /\ \A w \in Worker : w[1] <= gen => spc[w] \in {"none", "exited"}
      /\ \A w \in Worker : w[1] > gen => spc[w] = "none" /\ queue[w] = <<>>
  BY Starts, Ids, Pieces DEF LifeInv
<1>3. \A w \in Worker : ~Busy(w) /\ ~Busy(w)'
  BY <1>1, <1>2 DEF Busy
<1>4. \A s \in Sender : s \notin Worker => spc'[s] = spc[s]
  BY <1>1
<1>5. \A s \in Sender : /\ Busy(s)' <=> Busy(s)
                        /\ Busy(s) \/ s \notin Worker => spc'[s] = spc[s]
  BY <1>3, <1>4 DEF Busy
<1>6. \A w \in Worker : w[1] = gen' => queue[w] = <<>>
  BY <1>1, <1>2
<1>7. \A d \in Dispatcher : /\ Holding(d)' <=> Holding(d)
                            /\ Holding(d) => d[1] <= gen /\ disp'[d] = disp[d]
  BY <1>1, <1>2 DEF Holding
<1>8. \A d \in Dispatcher : d[1] <= gen => started'[d[1]] = started[d[1]]
  <2>1. started \in [Generation -> SUBSET Channel]
    BY DEF TypeInv, TypeOK
  <2> QED BY <1>1, <1>2, <2>1
<1>9. \A d \in Dispatcher : d[1] = gen' => ~Holding(d)
  BY <1>1, <1>2 DEF Holding
<1> QED BY <1>1, <1>3, <1>5, <1>6, <1>7, <1>8, <1>9

LEMMA RouteStep ==
  ManagerAssumption /\ TypeInv /\ LifeInv /\ RouteInv /\ [Next]_vars => RouteInv'
<1> SUFFICES ASSUME ManagerAssumption, TypeInv, LifeInv, RouteInv, [Next]_vars PROVE RouteInv'
  OBVIOUS
<1>0. OfferInv /\ BusRoute /\ HeldRoute /\ WorkRoute /\ CallRoute /\ LogRoute
  BY DEF RouteInv
<1>w. Worker \subseteq Sender /\ \A m \in Direct : <<m>> \in Sender /\ <<m>> \notin Worker
  BY Ids
\* what keeps each part
<1>a. ASSUME UNCHANGED offered, \A n \in Direct : spc[<<n>>] = "returned" => spc'[<<n>>] = "returned" PROVE OfferInv'
  BY <1>0, <1>a DEF OfferInv, Published
<1>b. ASSUME offered \subseteq offered', \A l \in Lane : At(busQ'[l]) \subseteq At(busQ[l]) PROVE BusRoute'
  BY <1>0, <1>b DEF BusRoute, Published
<1>c. ASSUME offered \subseteq offered',
             \A d \in Dispatcher : Holding(d)' =>
                Holding(d) /\ held'[d] = held[d]
                /\ (disp'[d] = "enqueue" => (disp[d] = "enqueue" /\ started'[d[1]] = started[d[1]]) \/ Dest[held[d]] \in started'[d[1]])
      PROVE  HeldRoute'
  BY <1>0, <1>c DEF HeldRoute, Published
<1>d. ASSUME offered \subseteq offered',
             \A w \in Worker : /\ At(queue'[w]) \subseteq At(queue[w])
                               /\ Busy(w)' => Busy(w) /\ cur'[w][1] = cur[w][1]
      PROVE  WorkRoute'
  BY <1>0, <1>d DEF WorkRoute, Published
<1>e. ASSUME \A n \in Direct : n \in offered' <=> n \in offered,
             \A n \in Direct : /\ spc'[<<n>>] = spc[<<n>>] \/ (spc[<<n>>] # "none" /\ spc'[<<n>>] # "none")
                               /\ Busy(<<n>>)' => Busy(<<n>>) /\ cur'[<<n>>][1] = cur[<<n>>][1]
      PROVE  CallRoute'
  BY <1>0, <1>e DEF CallRoute
<1>f. ASSUME offered \subseteq offered', UNCHANGED log PROVE LogRoute'
  <2> SUFFICES ASSUME NEW c \in Channel, NEW l \in Lane, NEW p \in At(log[c][l])
               PROVE  p[1] \in offered /\ Dest[p[1]] = c /\ LaneOf[p[1]] = l
    BY <1>f DEF LogRoute
  <2> QED BY <1>0 DEF LogRoute
<1>u. UNCHANGED <<spc, cur>> => \A s : (Busy(s)' <=> Busy(s)) /\ cur'[s] = cur[s] /\ spc'[s] = spc[s]
  BY DEF Busy
<1>v. UNCHANGED <<disp, held, started>> => HeldRoute' \/ offered # offered'
  BY <1>c DEF Holding
<1>1. CASE Quiet
  <2>1. UNCHANGED <<gen, started, busQ, disp, held, spc, cur, log, queue, offered>>
    BY <1>1 DEF Quiet, dispVars, sendVars
  <2> QED BY <1>a, <1>b, <1>c, <1>d, <1>e, <1>f, <1>u, <2>1 DEF RouteInv, Holding
<1>2. CASE Boot \/ Restart
  <2>1. OfferInv' /\ BusRoute' /\ LogRoute'
    BY <1>2, <1>a, <1>b, <1>f, <1>w, StartFacts
  <2>2. HeldRoute'
    BY <1>2, <1>c, StartFacts
  <2>3. WorkRoute' /\ CallRoute'
    BY <1>2, <1>d, <1>e, <1>w, StartFacts
  <2> QED BY <2>1, <2>2, <2>3 DEF RouteInv
<1>3. ASSUME NEW m \in Message, Publish(m) PROVE RouteInv'
  <2>0. /\ m \notin Direct /\ m \notin offered /\ offered' = offered \cup {m} /\ LaneOf[m] \in Lane
        /\ UNCHANGED <<lifeVars, disp, held, sendVars, queue, skipped>>
        /\ \A n \in 1..m - 1 : IF n \in Direct THEN spc[<<n>>] = "returned" ELSE n \in offered \/ LaneOf[n] # LaneOf[m]
        /\ \A l \in Lane : l # LaneOf[m] => busQ'[l] = busQ[l]
        /\ At(busQ'[LaneOf[m]]) = At(busQ[LaneOf[m]]) \cup {m}
    BY <1>3, PublishFacts
  <2>1. OfferInv'
    BY <1>0, <2>0 DEF OfferInv, Published, sendVars
  <2>2. BusRoute'
    BY <1>0, <2>0 DEF BusRoute, Published
  <2>3. HeldRoute'
    BY <1>c, <2>0 DEF lifeVars, Holding
  <2>4. WorkRoute' /\ CallRoute' /\ LogRoute'
    BY <1>d, <1>e, <1>f, <1>u, <2>0 DEF sendVars
  <2> QED BY <2>1, <2>2, <2>3, <2>4 DEF RouteInv
<1>4. ASSUME NEW d \in Dispatcher, Subscribe(d) PROVE RouteInv'
  <2>0. /\ d[2] \in Lane /\ held'[d] \in Message
        /\ At(busQ[d[2]]) = At(busQ'[d[2]]) \cup {held'[d]}
        /\ \A l \in Lane : l # d[2] => busQ'[l] = busQ[l]
        /\ \A e \in Dispatcher : e # d => held'[e] = held[e] /\ disp'[e] = disp[e]
        /\ disp'[d] = "lookup"
        /\ UNCHANGED <<lifeVars, sendVars, queue, offered, skipped>>
    BY <1>4, SubscribeFacts
  <2>1. OfferInv' /\ WorkRoute' /\ CallRoute' /\ LogRoute'
    BY <1>a, <1>d, <1>e, <1>f, <1>u, <2>0 DEF sendVars
  <2>2. BusRoute'
    BY <1>b, <2>0
  <2>3. held'[d] \in Published /\ LaneOf[held'[d]] = d[2]
    <3>1. held'[d] \in At(busQ[d[2]]) /\ d[2] \in Lane
      BY <2>0
    <3> QED BY <1>0, <3>1 DEF BusRoute
  <2>4. HeldRoute'
    BY <1>0, <2>0, <2>3 DEF HeldRoute, Published, Holding, lifeVars
  <2> QED BY <2>1, <2>2, <2>4 DEF RouteInv
<1>5. ASSUME NEW d \in Dispatcher, Drops(d) \/ Finds(d) PROVE RouteInv'
  <2>0. /\ UNCHANGED <<lifeVars, busQ, held, sendVars, queue, offered>>
        /\ \A e \in Dispatcher : e # d => disp'[e] = disp[e]
        /\ disp'[d] \in {"subscribe", "stopped"} \/ (disp[d] = "lookup" /\ disp'[d] = "enqueue" /\ Dest[held[d]] \in started[d[1]])
    BY <1>5, TypeFacts DEF Drops, Finds
  <2>1. OfferInv' /\ BusRoute' /\ WorkRoute' /\ CallRoute' /\ LogRoute'
    BY <1>a, <1>b, <1>d, <1>e, <1>f, <1>u, <2>0 DEF sendVars
  <2>2. HeldRoute'
    BY <1>c, <2>0 DEF Holding, lifeVars
  <2> QED BY <2>1, <2>2 DEF RouteInv
<1>6. ASSUME NEW d \in Dispatcher, Enqueue(d) PROVE RouteInv'
  <2>0. PICK w \in Worker :
         /\ w[2] = Dest[held[d]] /\ w[3] = d[2]
         /\ held[d] \in Published /\ LaneOf[held[d]] = d[2] /\ ~Holding(d)'
         /\ At(queue'[w]) = At(queue[w]) \cup {held[d]}
         /\ \A v \in Worker : v # w => queue'[v] = queue[v]
         /\ \A e \in Dispatcher : e # d => disp'[e] = disp[e]
         /\ UNCHANGED <<lifeVars, busQ, held, sendVars, offered, skipped>>
    BY <1>6, EnqueueFacts
  <2>1. OfferInv' /\ BusRoute' /\ CallRoute' /\ LogRoute'
    BY <1>a, <1>b, <1>e, <1>f, <1>u, <2>0 DEF sendVars
  <2>2. HeldRoute'
    BY <1>c, <2>0 DEF Holding, lifeVars
  <2>3. WorkRoute'
    BY <1>0, <1>u, <2>0 DEF WorkRoute, Published, sendVars
  <2> QED BY <2>1, <2>2, <2>3 DEF RouteInv
<1>7. ASSUME NEW w \in Worker, TakeMessage(w) PROVE RouteInv'
  <2>0. PICK m \in Message :
         /\ ~Busy(w) /\ At(queue[w]) = At(queue'[w]) \cup {m}
         /\ \A v \in Worker : v # w => queue'[v] = queue[v]
         /\ \A s \in Sender : s # w => spc'[s] = spc[s] /\ cur'[s] = cur[s]
         /\ UNCHANGED <<spc, cur>> \/ cur'[w] = <<m, 1>>
         /\ UNCHANGED <<lifeVars, dispVars, log, failed, offered>>
    BY <1>7, TakeFacts
  <2>1. \A n \in Direct : spc'[<<n>>] = spc[<<n>>] /\ cur'[<<n>>] = cur[<<n>>]
    BY <1>w, <2>0
  <2>2. OfferInv' /\ BusRoute' /\ CallRoute' /\ LogRoute'
    BY <1>a, <1>b, <1>e, <1>f, <2>0, <2>1 DEF dispVars, Busy
  <2>3. HeldRoute'
    BY <1>c, <2>0 DEF Holding, lifeVars, dispVars
  <2>4. WorkRoute'
    <3>1. \A v \in Worker : At(queue'[v]) \subseteq At(queue[v])
      BY <2>0
    <3>2. m \in Published /\ Dest[m] = w[2] /\ LaneOf[m] = w[3]
      BY <1>0, <2>0 DEF WorkRoute
    <3>3. \A v \in Worker : v # w => (Busy(v)' <=> Busy(v)) /\ cur'[v] = cur[v]
      BY <1>w, <2>0 DEF Busy
    <3>4. Busy(w)' => cur'[w][1] = m
      BY <2>0 DEF Busy
    <3>5. Published' = Published
      BY <2>0 DEF Published
    <3> QED BY <1>0, <3>1, <3>2, <3>3, <3>4, <3>5 DEF WorkRoute
  <2> QED BY <2>2, <2>3, <2>4 DEF RouteInv
<1>8. ASSUME NEW w \in Worker, WorkerExit(w) PROVE RouteInv'
  <2>1. /\ UNCHANGED <<lifeVars, dispVars, cur, log, queue, offered>>
        /\ \A s \in Sender : spc'[s] = IF s = w THEN "exited" ELSE spc[s]
    BY <1>8, <1>w, TypeFacts DEF WorkerExit
  <2>2. \A n \in Direct : spc'[<<n>>] = spc[<<n>>]
    BY <1>w, <2>1
  <2>3. \A s \in Sender : Busy(s)' => Busy(s)
    BY <2>1 DEF Busy
  <2>4. OfferInv' /\ BusRoute' /\ CallRoute' /\ LogRoute' /\ WorkRoute'
    BY <1>a, <1>b, <1>d, <1>e, <1>f, <1>w, <2>1, <2>2, <2>3 DEF dispVars
  <2>5. HeldRoute'
    BY <1>c, <2>1 DEF Holding, lifeVars, dispVars
  <2> QED BY <2>4, <2>5 DEF RouteInv
<1>9. ASSUME NEW m \in Direct, SendMessage(m) PROVE RouteInv'
  <2>0. /\ m \in Message /\ <<m>> \in Sender /\ spc[<<m>>] = "none" /\ offered' = offered \cup {m}
        /\ \A s \in Sender : s # <<m>> => spc'[s] = spc[s] /\ cur'[s] = cur[s] /\ attempt'[s] = attempt[s]
        /\ \/ spc'[<<m>>] = "limiter" /\ cur'[<<m>>] = <<m, 1>>
           \/ spc'[<<m>>] = "returned"
        /\ UNCHANGED <<lifeVars, dispVars, log, failed, queue>>
    BY <1>9, SendMessageFacts
  <2>1. Published' = Published
    BY <2>0 DEF Published
  <2>2. \A n \in Direct : n # m => spc'[<<n>>] = spc[<<n>>] /\ cur'[<<n>>] = cur[<<n>>]
    BY <1>w, <2>0
  <2>3. OfferInv'
    BY <1>0, <2>0, <2>1, <2>2 DEF OfferInv
  <2>4. BusRoute' /\ LogRoute'
    BY <1>b, <1>f, <2>0 DEF dispVars
  <2>5. HeldRoute'
    BY <1>c, <2>0 DEF Holding, lifeVars, dispVars
  <2>6. WorkRoute'
    BY <1>d, <1>w, <2>0 DEF Busy
  <2>7. CallRoute'
    <3>1. ASSUME NEW n \in Direct, n # m
          PROVE  (Busy(<<n>>)' => cur'[<<n>>][1] = n) /\ ((spc'[<<n>>] # "none") <=> (n \in offered'))
      BY <1>0, <2>0, <2>2, <3>1 DEF CallRoute, Busy
    <3>2. (Busy(<<m>>)' => cur'[<<m>>][1] = m) /\ spc'[<<m>>] # "none" /\ m \in offered'
      BY <2>0 DEF Busy
    <3> QED BY <3>1, <3>2 DEF CallRoute
  <2> QED BY <2>3, <2>4, <2>5, <2>6, <2>7 DEF RouteInv
<1>10. ASSUME NEW s \in Sender, SendWithRetry(s) PROVE RouteInv'
  <2>0. /\ Busy(s) /\ UNCHANGED elsewhere /\ cur[s] \in Piece
        /\ \A t \in Sender : t # s => spc'[t] = spc[t] /\ cur'[t] = cur[t]
        /\ \/ cur'[s] = cur[s] /\ spc'[s] \in {"send", "wait"}
           \/ spc'[s] = "limiter" /\ cur'[s] = <<cur[s][1], cur[s][2] + 1>>
           \/ spc'[s] = IF s \in Worker THEN "idle" ELSE "returned"
    BY <1>10, SendFacts
  <2>a. \A c \in Channel, l \in Lane :
              log'[c][l] = log[c][l] \/ (<<c, l>> = Platform(s) /\ At(log'[c][l]) = At(log[c][l]) \cup {cur[s]})
    <3> TAKE c \in Channel, l \in Lane
    <3>1. Grows(s, c, l)
      BY <1>10, LogFacts
    <3> QED BY <3>1 DEF Grows
  <2>1. UNCHANGED <<lifeVars, dispVars, queue, offered>>
    BY <2>0 DEF elsewhere
  <2>2. /\ \A t \in Sender : Busy(t)' => Busy(t) /\ cur'[t][1] = cur[t][1]
        /\ \A t \in Sender : spc'[t] = spc[t] \/ (spc[t] # "none" /\ spc'[t] # "none")
        /\ \A t \in Sender : spc[t] = "returned" => spc'[t] = "returned"
    BY <2>0 DEF Busy
  <2>3. OfferInv' /\ BusRoute' /\ WorkRoute' /\ CallRoute'
    BY <1>a, <1>b, <1>d, <1>e, <1>w, <2>1, <2>2 DEF dispVars
  <2>4. HeldRoute'
    BY <1>c, <2>1 DEF Holding, lifeVars, dispVars
  <2>5. LogRoute'
    <3>1. cur[s][1] \in offered /\ \A c, l : <<c, l>> = Platform(s) => Dest[cur[s][1]] = c /\ LaneOf[cur[s][1]] = l
      <4>1. CASE s \in Worker
        BY <1>0, <2>0, <4>1 DEF WorkRoute, Published, Platform
      <4>2. CASE s \notin Worker
        <5>1. s[1] \in Direct /\ s = <<s[1]>>
          BY <4>2, Ids
        <5>2. cur[s][1] = s[1] /\ s[1] \in offered /\ LaneOf[s[1]] = "text"
          BY <1>0, <2>0, <5>1 DEF CallRoute, Busy, ManagerAssumption
        <5> QED BY <4>2, <5>1, <5>2 DEF Platform
      <4> QED BY <4>1, <4>2
    <3>2. ASSUME NEW c \in Channel, NEW l \in Lane, NEW p \in At(log'[c][l])
          PROVE  p[1] \in offered' /\ Dest[p[1]] = c /\ LaneOf[p[1]] = l
      <4>0. offered' = offered /\ LogRoute
        BY <1>0, <2>1
      <4>1. CASE p \in At(log[c][l])
        BY <4>0, <4>1 DEF LogRoute
      <4>2. CASE p = cur[s] /\ <<c, l>> = Platform(s)
        BY <4>0, <3>1, <4>2
      <4>3. log'[c][l] = log[c][l] \/ (<<c, l>> = Platform(s) /\ At(log'[c][l]) = At(log[c][l]) \cup {cur[s]})
        BY <2>a
      <4> QED BY <4>1, <4>2, <4>3
    <3> QED BY <3>2 DEF LogRoute
  <2> QED BY <2>3, <2>4, <2>5 DEF RouteInv
<1> QED BY <1>1, <1>2, <1>3, <1>4, <1>5, <1>6, <1>7, <1>8, <1>9, <1>10, Steps

LEMMA RouteInit == ManagerAssumption /\ Init => RouteInv
<1> SUFFICES ASSUME ManagerAssumption, Init PROVE RouteInv
  OBVIOUS
<1>1. At(<<>>) = {}
  BY DEF At
<1>2. /\ offered = {} /\ Worker \subseteq Sender /\ \A m \in Direct : <<m>> \in Sender
      /\ \A s \in Sender : spc[s] = "none" /\ ~Busy(s)
      /\ \A d \in Dispatcher : ~Holding(d)
      /\ \A l \in Lane : busQ[l] = <<>>
      /\ \A w \in Worker : queue[w] = <<>>
      /\ \A c \in Channel, l \in Lane : log[c][l] = <<>>
  BY Ids DEF Init, Busy, Holding
<1>3. OfferInv /\ CallRoute /\ HeldRoute
  BY <1>2 DEF OfferInv, Published, CallRoute, HeldRoute
<1>4. BusRoute /\ WorkRoute /\ LogRoute
  BY <1>1, <1>2 DEF BusRoute, WorkRoute, LogRoute
<1> QED BY <1>3, <1>4 DEF RouteInv
-----------------------------------------------------------------------------
(* The order of what is published.                                         *)

OrderInv == QueueInv /\ BusInv /\ HeldInv /\ WaitInv /\ SendInv

\* A worker that runs is one of the current generation: StopAll waits for it.
LEMMA OnlyCurrent ==
  ASSUME ManagerAssumption, TypeInv, LifeInv, NEW w \in Worker, Busy(w) \/ spc[w] = "idle"
  PROVE  Current(w)
<1>1. spc[w] \notin {"none", "exited"}
  BY DEF Busy
<1>2. w[1] <= gen /\ ~Over(w) /\ w[1] \in Nat /\ gen \in Nat
  BY <1>1, Ids, Pieces, TypeFacts DEF LifeInv
<1> QED BY <1>2 DEF Over, Current

\* There is one worker for a channel and lane in a generation, and one dispatcher for a lane.
LEMMA OneWorker ==
  /\ \A v, w \in Worker : Current(v) /\ Current(w) /\ v[2] = w[2] /\ v[3] = w[3] => v = w
  /\ \A d, e \in Dispatcher : Current(d) /\ Current(e) /\ d[2] = e[2] => d = e
<1>1. \A v \in Worker : v = <<v[1], v[2], v[3]>>
  BY Ids
<1>2. \A d \in Dispatcher : d = <<d[1], d[2]>>
  BY Ids
<1> QED BY <1>1, <1>2 DEF Current

LEMMA ArrivedFacts ==
  ASSUME ManagerAssumption, TypeInv, RouteInv, NEW c \in Channel, NEW l \in Lane, NEW p \in Arrived(c, l)
  PROVE  /\ p \in At(log[c][l]) /\ p \in Piece /\ p[1] \in Published /\ LaneOf[p[1]] = l /\ Dest[p[1]] = c
         /\ p[1] \in Nat /\ p[2] \in Nat /\ p = <<p[1], p[2]>> /\ p[1] \notin Direct
<1>1. p \in At(log[c][l]) /\ p[1] \notin Direct
  BY DEF Arrived
<1>2. p \in Piece /\ LogRoute
  BY <1>1, TypeFacts DEF RouteInv
<1>3. p[1] \in offered /\ LaneOf[p[1]] = l /\ Dest[p[1]] = c
  BY <1>1, <1>2 DEF LogRoute
<1>4. p[1] \in Nat /\ p[2] \in Nat /\ p = <<p[1], p[2]>>
  BY <1>2, Pieces
<1> QED BY <1>1, <1>2, <1>3, <1>4 DEF Published

\* Messages are published in the order of their numbers, lane by lane.
LEMMA Newest ==
  ASSUME ManagerAssumption, TypeInv, RouteInv, NEW m \in Message, Publish(m),
         NEW n \in Published, LaneOf[n] = LaneOf[m]
  PROVE  n < m
<1>1. m \notin Direct /\ m \notin offered /\ n \in offered /\ m \in Nat /\ n \in Nat /\ 0 \notin Message
  BY PublishFacts, TypeFacts, Pieces DEF Published
<1>2. SUFFICES ASSUME m < n PROVE FALSE
  BY <1>1
<1>3. m \in 1..n - 1
  BY <1>1, <1>2
<1> QED BY <1>1, <1>3 DEF RouteInv, OfferInv

\* A step that moves nothing on keeps the order.
Fewer ==
    /\ gen' = gen
    /\ \A l \in Lane : At(busQ'[l]) \subseteq At(busQ[l])
    /\ \A d \in Dispatcher : Holding(d)' => Holding(d) /\ held'[d] = held[d]
    /\ \A w \in Worker : At(queue'[w]) \subseteq At(queue[w])
    /\ \A w \in Worker : Busy(w)' => Busy(w) /\ cur'[w][1] = cur[w][1]
    /\ \A c \in Channel, l \in Lane : Arrived(c, l)' \subseteq Arrived(c, l)

LEMMA OrderKept ==
  ASSUME BusInv, HeldInv, WaitInv, Fewer
  PROVE  BusInv' /\ HeldInv' /\ WaitInv'
<1>1. BusInv'
  BY DEF BusInv, Fewer
<1>2. HeldInv'
  BY Ids DEF HeldInv, Fewer, Current
<1>3. WaitInv'
  BY Ids DEF WaitInv, Fewer, Current
<1> QED BY <1>1, <1>2, <1>3

LEMMA OrderPublish ==
  ASSUME ManagerAssumption, TypeInv, RouteInv, OrderInv, NEW m \in Message, Publish(m)
  PROVE  OrderInv'
<1> DEFINE k == LaneOf[m]
<1>0. /\ k \in Lane /\ gen' = gen
      /\ \A l \in Lane : l # k => busQ'[l] = busQ[l]
      /\ At(busQ'[k]) = At(busQ[k]) \cup {m}
      /\ Increasing(busQ[k]) /\ (\A x \in At(busQ[k]) : x < m) => Increasing(busQ'[k])
      /\ UNCHANGED <<disp, held, spc, cur, log, queue>>
  BY PublishFacts DEF sendVars, lifeVars
<1>1. QueueInv /\ BusInv /\ HeldInv /\ WaitInv /\ SendInv /\ BusRoute /\ HeldRoute /\ WorkRoute
  BY DEF OrderInv, RouteInv
<1>n. \A n \in Published : LaneOf[n] = k => n < m
  BY Newest
<1> HIDE DEF k
<1>b. /\ \A d : Holding(d)' <=> Holding(d)
      /\ \A s : (Busy(s)' <=> Busy(s)) /\ cur'[s] = cur[s] /\ spc'[s] = spc[s]
      /\ \A c, l : Arrived(c, l)' = Arrived(c, l)
      /\ \A d : held'[d] = held[d]
      /\ \A w : queue'[w] = queue[w]
  BY <1>0 DEF Holding, Busy, Arrived
<1>2. QueueInv'
  <2>1. \A x \in At(busQ[k]) : x < m
    BY <1>0, <1>1, <1>n DEF BusRoute
  <2> QED BY <1>0, <1>1, <2>1 DEF QueueInv
<1>3. BusInv'
  <2>1. ASSUME NEW l \in Lane, NEW b \in At(busQ'[l])
        PROVE  /\ \A d \in Dispatcher : d[2] = l /\ Holding(d) => held[d] < b
               /\ \A w \in Worker : w[3] = l => /\ \A n \in At(queue[w]) : n < b
                                                /\ Busy(w) => cur[w][1] < b
               /\ \A c \in Channel : \A p \in Arrived(c, l) : p[1] < b
    <3>1. CASE b \in At(busQ[l])
      BY <1>1, <3>1 DEF BusInv
    <3>2. CASE b = m /\ l = k
      <4>1. \A d \in Dispatcher : d[2] = l /\ Holding(d) => held[d] < b
        BY <1>1, <1>n, <3>2 DEF HeldRoute
      <4>2. \A w \in Worker : w[3] = l => /\ \A n \in At(queue[w]) : n < b
                                          /\ Busy(w) => cur[w][1] < b
        BY <1>1, <1>n, <3>2 DEF WorkRoute
      <4>3. \A c \in Channel : \A p \in Arrived(c, l) : p[1] < b
        BY <1>n, <3>2, ArrivedFacts
      <4> QED BY <4>1, <4>2, <4>3
    <3> QED BY <1>0, <2>1, <3>1, <3>2
  <2> QED BY <1>b, <2>1 DEF BusInv
<1>4. HeldInv' /\ WaitInv' /\ SendInv'
  BY <1>0, <1>1, <1>b DEF HeldInv, WaitInv, SendInv, Current
<1> QED BY <1>2, <1>3, <1>4 DEF OrderInv

LEMMA OrderSubscribe ==
  ASSUME ManagerAssumption, TypeInv, RouteInv, OrderInv, NEW d \in Dispatcher, Subscribe(d)
  PROVE  OrderInv'
<1> DEFINE k == d[2]
<1>0. /\ k \in Lane /\ gen' = gen
      /\ At(busQ[k]) = At(busQ'[k]) \cup {held'[d]}
      /\ Increasing(busQ[k]) => Increasing(busQ'[k]) /\ \A x \in At(busQ'[k]) : held'[d] < x
      /\ \A l \in Lane : l # k => busQ'[l] = busQ[l]
      /\ \A e \in Dispatcher : e # d => held'[e] = held[e] /\ disp'[e] = disp[e]
      /\ UNCHANGED <<spc, cur, log, queue>>
  BY SubscribeFacts DEF sendVars, lifeVars
<1>1. QueueInv /\ BusInv /\ HeldInv /\ WaitInv /\ SendInv
  BY DEF OrderInv
<1>c. Increasing(busQ'[k]) /\ \A x \in At(busQ'[k]) : held'[d] < x
  BY <1>0, <1>1 DEF QueueInv
<1> HIDE DEF k
<1>b. /\ \A e \in Dispatcher : e # d => (Holding(e)' <=> Holding(e))
      /\ \A s : (Busy(s)' <=> Busy(s)) /\ cur'[s] = cur[s] /\ spc'[s] = spc[s]
      /\ \A c, l : Arrived(c, l)' = Arrived(c, l)
      /\ \A w : queue'[w] = queue[w]
  BY <1>0 DEF Holding, Busy, Arrived
<1>h. /\ \A w \in Worker : w[3] = k => /\ \A n \in At(queue[w]) : n < held'[d]
                                       /\ Busy(w) => cur[w][1] < held'[d]
      /\ \A c \in Channel : \A p \in Arrived(c, k) : p[1] < held'[d]
  BY <1>0, <1>1 DEF BusInv
<1>2. QueueInv'
  BY <1>0, <1>1, <1>c DEF QueueInv
<1>3. BusInv'
  <2>1. ASSUME NEW l \in Lane, NEW b \in At(busQ'[l])
        PROVE  /\ \A e \in Dispatcher : e[2] = l /\ Holding(e)' => held'[e] < b
               /\ \A w \in Worker : w[3] = l => /\ \A n \in At(queue[w]) : n < b
                                                /\ Busy(w) => cur[w][1] < b
               /\ \A c \in Channel : \A p \in Arrived(c, l) : p[1] < b
    <3>0. b \in At(busQ[l])
      BY <1>0, <2>1
    <3>1. ASSUME NEW e \in Dispatcher, e[2] = l, Holding(e)' PROVE held'[e] < b
      <4>1. CASE e = d
        BY <1>c, <2>1, <3>1, <4>1 DEF k
      <4>2. CASE e # d
        BY <1>0, <1>1, <1>b, <3>0, <3>1, <4>2 DEF BusInv
      <4> QED BY <4>1, <4>2
    <3> QED BY <1>1, <3>0, <3>1 DEF BusInv
  <2> QED BY <1>b, <2>1 DEF BusInv
<1>4. HeldInv'
  <2>1. ASSUME NEW e \in Dispatcher, Current(e), Holding(e)'
        PROVE  /\ \A w \in Worker : Current(w) /\ w[3] = e[2] =>
                     /\ \A m \in At(queue[w]) : m < held'[e]
                     /\ Busy(w) => cur[w][1] < held'[e]
               /\ \A c \in Channel : \A p \in Arrived(c, e[2]) : p[1] < held'[e]
    <3>1. CASE e = d
      BY <1>h, <3>1 DEF k
    <3>2. CASE e # d
      BY <1>0, <1>1, <1>b, <2>1, <3>2 DEF HeldInv
    <3> QED BY <3>1, <3>2
  <2> QED BY <1>0, <1>b, <2>1 DEF HeldInv, Current
<1>5. WaitInv' /\ SendInv'
  BY <1>0, <1>1, <1>b DEF WaitInv, SendInv, Current
<1> QED BY <1>2, <1>3, <1>4, <1>5 DEF OrderInv

LEMMA OrderEnqueue ==
  ASSUME ManagerAssumption, TypeInv, LifeInv, RouteInv, OrderInv, NEW d \in Dispatcher, Enqueue(d)
  PROVE  OrderInv'
<1>0. PICK w \in Worker :
         /\ w[3] = d[2] /\ Current(w) /\ Current(d) /\ Holding(d) /\ ~Holding(d)'
         /\ At(queue'[w]) = At(queue[w]) \cup {held[d]}
         /\ Increasing(queue[w]) /\ (\A x \in At(queue[w]) : x < held[d]) => Increasing(queue'[w])
         /\ \A v \in Worker : v # w => queue'[v] = queue[v]
         /\ \A e \in Dispatcher : e # d => disp'[e] = disp[e]
         /\ UNCHANGED <<lifeVars, busQ, held, sendVars, offered, skipped>>
  BY EnqueueFacts
<1>1. QueueInv /\ BusInv /\ HeldInv /\ WaitInv /\ SendInv
  BY DEF OrderInv
<1>a. UNCHANGED <<gen, busQ, held, spc, cur, log>>
  BY <1>0 DEF sendVars, lifeVars
<1>b. /\ \A e \in Dispatcher : Holding(e)' => Holding(e) /\ e # d
      /\ \A s : (Busy(s)' <=> Busy(s)) /\ cur'[s] = cur[s] /\ spc'[s] = spc[s]
      /\ \A c, l : Arrived(c, l)' = Arrived(c, l)
      /\ \A e : held'[e] = held[e]
  BY <1>0, <1>a DEF Holding, Busy, Arrived
<1>h. /\ \A x \in At(queue[w]) : x < held[d]
      /\ Busy(w) => cur[w][1] < held[d]
      /\ \A c \in Channel : \A p \in Arrived(c, w[3]) : p[1] < held[d]
  BY <1>0, <1>1 DEF HeldInv
<1>2. QueueInv'
  BY <1>0, <1>1, <1>a, <1>h DEF QueueInv
<1>3. BusInv'
  <2>1. ASSUME NEW l \in Lane, NEW b \in At(busQ[l])
        PROVE  /\ \A e \in Dispatcher : e[2] = l /\ Holding(e)' => held[e] < b
               /\ \A v \in Worker : v[3] = l => /\ \A n \in At(queue'[v]) : n < b
                                                /\ Busy(v) => cur[v][1] < b
               /\ \A c \in Channel : \A p \in Arrived(c, l) : p[1] < b
    <3>1. ASSUME NEW v \in Worker, v[3] = l, NEW n \in At(queue'[v]) PROVE n < b
      <4>1. CASE n \in At(queue[v])
        BY <1>1, <2>1, <3>1, <4>1 DEF BusInv
      <4>2. CASE v = w /\ n = held[d]
        BY <1>0, <1>1, <2>1, <3>1, <4>2 DEF BusInv
      <4> QED BY <1>0, <3>1, <4>1, <4>2
    <3> QED BY <1>1, <1>b, <3>1 DEF BusInv
  <2> QED BY <1>a, <1>b, <2>1 DEF BusInv
<1>4. HeldInv'
  <2>1. ASSUME NEW e \in Dispatcher, Current(e), Holding(e)'
        PROVE  /\ \A v \in Worker : Current(v) /\ v[3] = e[2] =>
                     /\ \A m \in At(queue'[v]) : m < held[e]
                     /\ Busy(v) => cur[v][1] < held[e]
               /\ \A c \in Channel : \A p \in Arrived(c, e[2]) : p[1] < held[e]
    <3>1. Holding(e) /\ e # d
      BY <1>b, <2>1
    <3>2. e[2] # d[2]
      BY <1>0, <2>1, <3>1, OneWorker
    <3>3. \A v \in Worker : v[3] = e[2] => queue'[v] = queue[v]
      BY <1>0, <3>2
    <3> QED BY <1>1, <2>1, <3>1, <3>3 DEF HeldInv
  <2> QED BY <1>a, <1>b, <2>1 DEF HeldInv, Current
<1>5. WaitInv'
  <2>1. ASSUME NEW v \in Worker, Current(v), NEW m \in At(queue'[v])
        PROVE  /\ Busy(v) => cur[v][1] < m
               /\ \A p \in Arrived(v[2], v[3]) : p[1] < m
    <3>1. CASE m \in At(queue[v])
      BY <1>1, <2>1, <3>1 DEF WaitInv
    <3>2. CASE v = w /\ m = held[d]
      BY <1>h, <3>2, Ids
    <3> QED BY <1>0, <2>1, <3>1, <3>2
  <2> QED BY <1>a, <1>b, <2>1 DEF WaitInv, Current
<1>6. SendInv'
  BY <1>1, <1>b DEF SendInv
<1> QED BY <1>2, <1>3, <1>4, <1>5, <1>6 DEF OrderInv

LEMMA OrderTake ==
  ASSUME ManagerAssumption, TypeInv, LifeInv, RouteInv, OrderInv, NEW w \in Worker, TakeMessage(w)
  PROVE  OrderInv'
<1>0. PICK m \in Message :
         /\ ~Busy(w) /\ spc[w] = "idle" /\ At(queue[w]) = At(queue'[w]) \cup {m}
         /\ Increasing(queue[w]) => Increasing(queue'[w]) /\ \A x \in At(queue'[w]) : m < x
         /\ \A v \in Worker : v # w => queue'[v] = queue[v]
         /\ \A s \in Sender : s # w => spc'[s] = spc[s] /\ cur'[s] = cur[s]
         /\ UNCHANGED <<spc, cur>> \/ cur'[w] = <<m, 1>>
         /\ UNCHANGED <<lifeVars, dispVars, log, failed, offered>>
  BY TakeFacts
<1>1. QueueInv /\ BusInv /\ HeldInv /\ WaitInv /\ SendInv /\ Current(w)
  BY <1>0, OnlyCurrent DEF OrderInv
<1>a. UNCHANGED <<gen, busQ, disp, held, log>>
  BY <1>0 DEF dispVars, lifeVars
<1>c. Increasing(queue'[w]) /\ \A x \in At(queue'[w]) : m < x
  BY <1>0, <1>1 DEF QueueInv
<1>b. /\ \A e : Holding(e)' <=> Holding(e)
      /\ \A e : held'[e] = held[e]
      /\ \A v \in Worker : v # w => (Busy(v)' <=> Busy(v)) /\ cur'[v] = cur[v] /\ spc'[v] = spc[v]
      /\ \A c, l : Arrived(c, l)' = Arrived(c, l)
      /\ Busy(w)' => cur'[w] = <<m, 1>>
  BY <1>0, <1>a, TypeFacts DEF Holding, Busy, Arrived
<1>q. \A v \in Worker : At(queue'[v]) \subseteq At(queue[v])
  BY <1>0
<1>2. QueueInv'
  BY <1>0, <1>1, <1>a, <1>c DEF QueueInv
<1>3. BusInv'
  <2>1. ASSUME NEW l \in Lane, NEW b \in At(busQ[l])
        PROVE  /\ \A e \in Dispatcher : e[2] = l /\ Holding(e) => held[e] < b
               /\ \A v \in Worker : v[3] = l => /\ \A n \in At(queue'[v]) : n < b
                                                /\ Busy(v)' => cur'[v][1] < b
               /\ \A c \in Channel : \A p \in Arrived(c, l) : p[1] < b
    <3>1. w[3] = l /\ Busy(w)' => cur'[w][1] < b
      BY <1>0, <1>1, <1>b, <2>1 DEF BusInv
    <3> QED BY <1>1, <1>b, <1>q, <2>1, <3>1 DEF BusInv
  <2> QED BY <1>a, <1>b, <2>1 DEF BusInv
<1>4. HeldInv'
  <2>1. ASSUME NEW e \in Dispatcher, Current(e), Holding(e)
        PROVE  /\ \A v \in Worker : Current(v) /\ v[3] = e[2] =>
                     /\ \A n \in At(queue'[v]) : n < held[e]
                     /\ Busy(v)' => cur'[v][1] < held[e]
               /\ \A c \in Channel : \A p \in Arrived(c, e[2]) : p[1] < held[e]
    <3>1. w[3] = e[2] /\ Busy(w)' => cur'[w][1] < held[e]
      BY <1>0, <1>1, <1>b, <2>1 DEF HeldInv
    <3> QED BY <1>1, <1>b, <1>q, <2>1, <3>1 DEF HeldInv
  <2> QED BY <1>a, <1>b, <2>1 DEF HeldInv, Current
<1>5. WaitInv'
  <2>1. ASSUME NEW v \in Worker, Current(v), NEW n \in At(queue'[v])
        PROVE  /\ Busy(v)' => cur'[v][1] < n
               /\ \A p \in Arrived(v[2], v[3]) : p[1] < n
    <3>1. n \in At(queue[v])
      BY <1>q, <2>1
    <3>2. v = w /\ Busy(w)' => cur'[w][1] < n
      BY <1>b, <1>c, <2>1
    <3> QED BY <1>1, <1>b, <2>1, <3>1, <3>2 DEF WaitInv
  <2> QED BY <1>a, <1>b, <2>1 DEF WaitInv, Current
<1>6. SendInv'
  <2>1. Busy(w)' => \A p \in Arrived(w[2], w[3]) : Before(p, cur'[w])
    BY <1>0, <1>1, <1>b DEF WaitInv, Before
  <2> QED BY <1>1, <1>b, <2>1 DEF SendInv
<1> QED BY <1>2, <1>3, <1>4, <1>5, <1>6 DEF OrderInv

LEMMA BeforeFacts ==
  ASSUME NEW p, NEW q, NEW r, p[1] \in Nat, p[2] \in Nat, q[1] \in Nat, q[2] \in Nat, r = <<q[1], q[2] + 1>>
  PROVE  Before(q, r) /\ (Before(p, q) => Before(p, r)) /\ r # q
<1>1. r[1] = q[1] /\ r[2] = q[2] + 1
  OBVIOUS
<1>2. r[2] # q[2]
  BY <1>1
<1> QED BY <1>1, <1>2 DEF Before

\* What s sends comes after what was seen and before what waits.
LEMMA OrderSend ==
  ASSUME ManagerAssumption, TypeInv, LifeInv, RouteInv, OrderInv, NEW s \in Sender, SendWithRetry(s)
  PROVE  OrderInv'
<1>0. /\ Busy(s) /\ UNCHANGED elsewhere /\ cur[s] \in Piece
      /\ \A t \in Sender : t # s => spc'[t] = spc[t] /\ cur'[t] = cur[t]
      /\ \/ cur'[s] = cur[s] /\ spc'[s] \in {"send", "wait"}
         \/ spc'[s] = "limiter" /\ cur'[s] = <<cur[s][1], cur[s][2] + 1>>
         \/ spc'[s] = IF s \in Worker THEN "idle" ELSE "returned"
  BY SendFacts
<1>1. QueueInv /\ BusInv /\ HeldInv /\ WaitInv /\ SendInv /\ WorkRoute /\ CallRoute
  BY DEF OrderInv, RouteInv
<1>a. UNCHANGED <<gen, busQ, disp, held, queue>>
  BY <1>0 DEF elsewhere, dispVars, lifeVars
<1>b. /\ \A e : Holding(e)' <=> Holding(e)
      /\ \A e : held'[e] = held[e]
      /\ \A w : queue'[w] = queue[w]
      /\ \A w \in Worker : Busy(w)' => Busy(w) /\ cur'[w][1] = cur[w][1]
      /\ \A w \in Worker : w # s => cur'[w] = cur[w] /\ spc'[w] = spc[w]
  BY <1>0, <1>a, Ids DEF Holding, Busy
\* what may be new in a log
<1>c. ASSUME NEW c \in Channel, NEW l \in Lane, NEW p \in Arrived(c, l)'
      PROVE  \/ p \in Arrived(c, l)
             \/ s \in Worker /\ p = cur[s] /\ s[2] = c /\ s[3] = l /\ spc[s] = "send" /\ spc'[s] # "send"
  <2>1. Grows(s, c, l)
    BY LogFacts
  <2>2. p \in At(log'[c][l]) /\ p[1] \notin Direct
    BY <1>c DEF Arrived
  <2>3. CASE log'[c][l] = log[c][l]
    BY <2>2, <2>3 DEF Arrived
  <2>4. CASE /\ <<c, l>> = Platform(s) /\ spc[s] = "send" /\ spc'[s] # "send"
             /\ At(log'[c][l]) = At(log[c][l]) \cup {cur[s]}
    <3>1. CASE p \in At(log[c][l])
      BY <2>2, <3>1 DEF Arrived
    <3>2. CASE p = cur[s]
      <4>1. s \in Worker
        <5>1. s \notin Worker => s = <<s[1]>> /\ s[1] \in Direct
          BY Ids
        <5>2. s \notin Worker => cur[s][1] \in Direct
          BY <1>0, <1>1, <5>1 DEF CallRoute
        <5> QED BY <2>2, <3>2, <5>2
      <4> QED BY <2>4, <3>2, <4>1 DEF Platform
    <3> QED BY <2>2, <2>4, <3>1, <3>2
  <2> QED BY <2>1, <2>3, <2>4 DEF Grows
<1>w. s \in Worker => Current(s) /\ s[2] \in Channel /\ s[3] \in Lane
  BY <1>0, OnlyCurrent, Ids
<1>2. QueueInv'
  BY <1>1, <1>a DEF QueueInv
<1>3. BusInv'
  <2>1. ASSUME NEW l \in Lane, NEW b \in At(busQ[l]), NEW c \in Channel, NEW p \in Arrived(c, l)' PROVE p[1] < b
    <3>1. CASE p \in Arrived(c, l)
      BY <1>1, <2>1, <3>1 DEF BusInv
    <3>2. CASE s \in Worker /\ p = cur[s] /\ s[3] = l
      BY <1>0, <1>1, <2>1, <3>2 DEF BusInv
    <3> QED BY <1>c, <2>1, <3>1, <3>2
  <2>2. ASSUME NEW l \in Lane, NEW b \in At(busQ[l])
        PROVE  /\ \A e \in Dispatcher : e[2] = l /\ Holding(e) => held[e] < b
               /\ \A v \in Worker : v[3] = l => /\ \A n \in At(queue[v]) : n < b
                                                /\ Busy(v)' => cur'[v][1] < b
    BY <1>1, <1>b, <2>2 DEF BusInv
  <2> QED BY <1>a, <1>b, <2>1, <2>2 DEF BusInv
<1>4. HeldInv'
  <2>1. ASSUME NEW e \in Dispatcher, Current(e), Holding(e), NEW c \in Channel, NEW p \in Arrived(c, e[2])'
        PROVE  p[1] < held[e]
    <3>1. e[2] \in Lane
      BY Ids
    <3>2. CASE p \in Arrived(c, e[2])
      BY <1>1, <2>1, <3>2 DEF HeldInv
    <3>3. CASE s \in Worker /\ p = cur[s] /\ s[3] = e[2]
      BY <1>0, <1>1, <1>w, <2>1, <3>3 DEF HeldInv
    <3> QED BY <1>c, <2>1, <3>1, <3>2, <3>3
  <2>2. ASSUME NEW e \in Dispatcher, Current(e), Holding(e)
        PROVE  \A v \in Worker : Current(v) /\ v[3] = e[2] =>
                     /\ \A n \in At(queue[v]) : n < held[e]
                     /\ Busy(v)' => cur'[v][1] < held[e]
    BY <1>1, <1>b, <2>2 DEF HeldInv
  <2> QED BY <1>a, <1>b, <2>1, <2>2 DEF HeldInv, Current
<1>5. WaitInv'
  <2>1. ASSUME NEW v \in Worker, Current(v), NEW n \in At(queue[v]), NEW p \in Arrived(v[2], v[3])'
        PROVE  p[1] < n
    <3>1. v[2] \in Channel /\ v[3] \in Lane
      BY Ids
    <3>2. CASE p \in Arrived(v[2], v[3])
      BY <1>1, <2>1, <3>2 DEF WaitInv
    <3>3. CASE s \in Worker /\ p = cur[s] /\ s[2] = v[2] /\ s[3] = v[3]
      <4>1. s = v
        BY <1>w, <2>1, <3>3, OneWorker
      <4> QED BY <1>0, <1>1, <2>1, <3>3, <4>1 DEF WaitInv
    <3> QED BY <1>c, <2>1, <3>1, <3>2, <3>3
  <2>2. ASSUME NEW v \in Worker, Current(v), NEW n \in At(queue[v]), Busy(v)' PROVE cur'[v][1] < n
    BY <1>1, <1>b, <2>2 DEF WaitInv
  <2> QED BY <1>a, <1>b, <2>1, <2>2 DEF WaitInv, Current
<1>6. SendInv'
  <2>1. ASSUME NEW v \in Worker, Busy(v)', NEW p \in Arrived(v[2], v[3])'
        PROVE  Before(p, cur'[v]) \/ (p = cur'[v] /\ spc'[v] # "limiter")
    <3>0. v[2] \in Channel /\ v[3] \in Lane /\ Busy(v) /\ Current(v)
      BY <1>b, <2>1, OnlyCurrent, Ids
    <3>1. CASE v # s
      <4>1. p \in Arrived(v[2], v[3])
        <5>1. s \in Worker /\ s[2] = v[2] /\ s[3] = v[3] => s = v
          BY <1>w, <3>0, OneWorker
        <5> QED BY <1>c, <2>1, <3>0, <3>1, <5>1
      <4> QED BY <1>1, <1>b, <3>0, <3>1, <4>1 DEF SendInv
    <3>2. CASE v = s
      <4>1. \/ cur'[s] = cur[s] /\ spc'[s] \in {"send", "wait"}
            \/ spc'[s] = "limiter" /\ cur'[s] = <<cur[s][1], cur[s][2] + 1>>
        BY <1>0, <2>1, <3>2 DEF Busy
      <4>2. p = cur[s] \/ Before(p, cur[s])
        <5>1. p \in Arrived(v[2], v[3]) \/ p = cur[s]
          BY <1>c, <2>1, <3>0
        <5> QED BY <1>1, <3>0, <3>2, <5>1 DEF SendInv
      <4>3. p \in Piece
        <5>1. p \in Arrived(v[2], v[3]) \/ p = cur[s]
          BY <1>c, <2>1, <3>0
        <5> QED BY <1>0, <3>0, <5>1, ArrivedFacts
      <4>4. p[1] \in Nat /\ p[2] \in Nat /\ cur[s][1] \in Nat /\ cur[s][2] \in Nat
        BY <1>0, <4>3, Pieces
      <4> QED BY <3>2, <4>1, <4>2, <4>4, BeforeFacts
    <3> QED BY <3>1, <3>2
  <2> QED BY <2>1 DEF SendInv
<1> QED BY <1>2, <1>3, <1>4, <1>5, <1>6 DEF OrderInv

LEMMA OrderStep ==
  ManagerAssumption /\ TypeInv /\ LifeInv /\ RouteInv /\ OrderInv /\ [Next]_vars => OrderInv'
<1> SUFFICES ASSUME ManagerAssumption, TypeInv, LifeInv, RouteInv, OrderInv, [Next]_vars PROVE OrderInv'
  OBVIOUS
<1>0. QueueInv /\ BusInv /\ HeldInv /\ WaitInv /\ SendInv
  BY DEF OrderInv
<1>1. ASSUME Fewer, UNCHANGED <<busQ, queue, log>>,
             \A w \in Worker : Busy(w)' => cur'[w] = cur[w] /\ spc'[w] = spc[w]
      PROVE  OrderInv'
  <2>1. QueueInv'
    BY <1>0, <1>1 DEF QueueInv
  <2>2. SendInv'
    <3>1. ASSUME NEW w \in Worker, Busy(w)', NEW p \in Arrived(w[2], w[3])'
          PROVE  Before(p, cur'[w]) \/ (p = cur'[w] /\ spc'[w] # "limiter")
      <4>1. Busy(w) /\ cur'[w] = cur[w] /\ spc'[w] = spc[w] /\ p \in Arrived(w[2], w[3])
        BY <1>1, <3>1, Ids DEF Fewer
      <4> QED BY <1>0, <4>1 DEF SendInv
    <3> QED BY <3>1 DEF SendInv
  <2> QED BY <1>0, <1>1, <2>1, <2>2, OrderKept DEF OrderInv
<1>2. ASSUME UNCHANGED <<gen, busQ, held, queue, log>>,
             \A d \in Dispatcher : Holding(d)' => Holding(d),
             \A w \in Worker : Busy(w)' => Busy(w) /\ cur'[w] = cur[w] /\ spc'[w] = spc[w]
      PROVE  OrderInv'
  <2>1. Fewer
    BY <1>2 DEF Fewer, Arrived
  <2> QED BY <1>1, <1>2, <2>1
<1>3. CASE Boot \/ Restart
  <2>0. /\ \A d \in Dispatcher : (Holding(d)' <=> Holding(d)) /\ (d[1] = gen' => ~Holding(d))
        /\ \A w \in Worker : ~Busy(w) /\ ~Busy(w)' /\ (w[1] = gen' => queue[w] = <<>>)
        /\ UNCHANGED <<busQ, held, cur, log, queue>>
    BY <1>3, StartFacts, Ids
  <2>1. QueueInv' /\ SendInv'
    BY <1>0, <2>0 DEF QueueInv, SendInv
  <2>2. BusInv'
    BY <1>0, <2>0 DEF BusInv, Arrived
  <2>3. HeldInv'
    BY <2>0 DEF HeldInv, Current
  <2>4. WaitInv'
    <3>1. At(<<>>) = {}
      BY DEF At
    <3> QED BY <2>0, <3>1 DEF WaitInv, Current
  <2> QED BY <2>1, <2>2, <2>3, <2>4 DEF OrderInv
<1>4. CASE Quiet
  BY <1>2, <1>4 DEF Quiet, dispVars, sendVars, Holding, Busy
<1>5. ASSUME NEW d \in Dispatcher, Drops(d) \/ Finds(d) PROVE OrderInv'
  <2>1. UNCHANGED <<gen, busQ, held, spc, cur, queue, log>>
    BY <1>5 DEF Drops, Finds, lifeVars, sendVars
  <2>2. \A e \in Dispatcher : Holding(e)' => Holding(e)
    BY <1>5, TypeFacts DEF Drops, Finds, Holding
  <2> QED BY <1>2, <2>1, <2>2 DEF Busy
<1>6. ASSUME NEW w \in Worker, WorkerExit(w) PROVE OrderInv'
  <2>1. UNCHANGED <<gen, busQ, disp, held, cur, queue, log>> /\ spc' = [spc EXCEPT ![w] = "exited"]
    BY <1>6 DEF WorkerExit, lifeVars, dispVars
  <2>2. \A v \in Worker : Busy(v)' => Busy(v) /\ spc'[v] = spc[v]
    BY <2>1, TypeFacts DEF Busy
  <2> QED BY <1>2, <2>1, <2>2 DEF Holding
<1>7. ASSUME NEW m \in Direct, SendMessage(m) PROVE OrderInv'
  <2>1. UNCHANGED <<lifeVars, dispVars, queue, log>> /\ \A s \in Sender : s # <<m>> => spc'[s] = spc[s] /\ cur'[s] = cur[s]
    BY <1>7, SendMessageFacts
  <2>2. UNCHANGED <<gen, busQ, disp, held, queue, log>>
    BY <2>1 DEF lifeVars, dispVars
  <2>3. \A v \in Worker : spc'[v] = spc[v] /\ cur'[v] = cur[v]
    BY <2>1, Ids
  <2> QED BY <1>2, <2>2, <2>3 DEF Holding, Busy
<1> QED BY <1>3, <1>4, <1>5, <1>6, <1>7, OrderPublish, OrderSubscribe, OrderEnqueue, OrderTake, OrderSend, Steps

LEMMA OrderInit == ManagerAssumption /\ Init => OrderInv
<1> SUFFICES ASSUME ManagerAssumption, Init PROVE OrderInv
  OBVIOUS
<1>1. At(<<>>) = {} /\ Increasing(<<>>)
  BY DEF At, Increasing
<1>2. /\ \A w \in Worker : ~Busy(w)
      /\ \A d \in Dispatcher : ~Holding(d)
      /\ \A l \in Lane : busQ[l] = <<>>
      /\ \A w \in Worker : queue[w] = <<>>
  BY Ids DEF Init, Busy, Holding
<1> QED BY <1>1, <1>2 DEF OrderInv, QueueInv, BusInv, HeldInv, WaitInv, SendInv
-----------------------------------------------------------------------------
(* What a platform sees of the pieces.                                     *)

\* a sender begins with the first piece of a message
Begins(s) ==
    /\ ~Busy(s) /\ spc'[s] = "limiter" /\ attempt'[s] = 0
    /\ \E m \in Message : /\ cur'[s] = <<m, 1>>
                          /\ s \in Worker \/ (s = <<m>> /\ m \in Direct /\ spc[s] = "none")

\* it goes on with its piece, or with none
Same(s) == /\ Busy(s)' <=> Busy(s)
           /\ Busy(s) => spc'[s] = spc[s] /\ cur'[s] = cur[s] /\ attempt'[s] = attempt[s]

\* a step that sends nothing
Still ==
    /\ UNCHANGED <<log, failed>> /\ ctxDone \subseteq ctxDone' /\ skipped \subseteq skipped'
    /\ \A s \in Sender : Same(s) \/ Begins(s)
    /\ \A m \in Direct : spc[<<m>>] # "none" => spc'[<<m>>] # "none"

LEMMA SendOrStill ==
  ASSUME ManagerAssumption, TypeInv, LifeInv, RouteInv, [Next]_vars, ~ \E s \in Sender : SendWithRetry(s)
  PROVE  Still
<1>1. ASSUME UNCHANGED <<log, failed, spc, cur, attempt>>, ctxDone \subseteq ctxDone', skipped \subseteq skipped'
      PROVE  Still
  BY <1>1 DEF Still, Same, Busy
<1>2. CASE Boot \/ Restart
  <2>1. /\ \A s \in Sender : (Busy(s)' <=> Busy(s)) /\ (Busy(s) \/ s \notin Worker => spc'[s] = spc[s])
        /\ UNCHANGED <<ctxDone, cur, attempt, log, failed, skipped>>
    BY <1>2, StartFacts
  <2>2. \A m \in Direct : spc'[<<m>>] = spc[<<m>>]
    BY <2>1, Ids
  <2>3. \A s \in Sender : Same(s)
    BY <2>1 DEF Same
  <2> QED BY <2>1, <2>2, <2>3 DEF Still
<1>3. CASE Quiet
  BY <1>1, <1>3 DEF Quiet, sendVars
<1>4. ASSUME NEW m \in Message, Publish(m) PROVE Still
  BY <1>1, <1>4, PublishFacts DEF lifeVars, sendVars
<1>5. ASSUME NEW d \in Dispatcher, Subscribe(d) \/ Drops(d) \/ Finds(d) \/ Enqueue(d) PROVE Still
  <2>1. UNCHANGED <<lifeVars, sendVars>> /\ skipped \subseteq skipped'
    BY <1>5 DEF Subscribe, Drops, Finds, Enqueue
  <2> QED BY <1>1, <2>1 DEF lifeVars, sendVars
<1>6. ASSUME NEW w \in Worker, TakeMessage(w) PROVE Still
  <2>0. PICK m \in Message :
         /\ ~Busy(w)
         /\ \A s \in Sender : s # w => spc'[s] = spc[s] /\ cur'[s] = cur[s] /\ attempt'[s] = attempt[s]
         /\ \/ m \in skipped' /\ skipped \subseteq skipped' /\ UNCHANGED <<spc, cur, attempt>>
            \/ spc'[w] = "limiter" /\ cur'[w] = <<m, 1>> /\ attempt'[w] = 0 /\ skipped' = skipped
         /\ UNCHANGED <<lifeVars, log, failed>>
    BY <1>6, TakeFacts DEF dispVars
  <2>1. CASE UNCHANGED <<spc, cur, attempt>> /\ skipped \subseteq skipped'
    BY <1>1, <2>0, <2>1 DEF lifeVars
  <2>2. CASE spc'[w] = "limiter" /\ cur'[w] = <<m, 1>> /\ attempt'[w] = 0 /\ skipped' = skipped
    <3>1. Begins(w)
      BY <2>0, <2>2 DEF Begins
    <3>2. \A s \in Sender : s # w => Same(s)
      BY <2>0 DEF Same, Busy
    <3>3. \A n \in Direct : <<n>> \in Sender /\ <<n>> # w
      BY Ids
    <3>4. \A n \in Direct : spc'[<<n>>] = spc[<<n>>]
      BY <2>0, <3>3
    <3> QED BY <2>0, <2>2, <3>1, <3>2, <3>4 DEF Still, lifeVars
  <2> QED BY <2>0, <2>1, <2>2
<1>7. ASSUME NEW w \in Worker, WorkerExit(w) PROVE Still
  <2>1. /\ spc[w] = "idle" /\ spc' = [spc EXCEPT ![w] = "exited"]
        /\ UNCHANGED <<lifeVars, cur, attempt, log, failed, skipped>>
    BY <1>7 DEF WorkerExit
  <2>2. w \in Sender /\ spc \in [Sender -> Names]
    BY TypeFacts
  <2>3. \A s \in Sender : s # w => spc'[s] = spc[s]
    BY <2>1, <2>2
  <2>4. \A s \in Sender : Same(s)
    BY <2>1, <2>2, <2>3 DEF Same, Busy
  <2>5. \A n \in Direct : spc'[<<n>>] = spc[<<n>>]
    BY <2>3, Ids
  <2> QED BY <2>1, <2>4, <2>5 DEF Still, lifeVars
<1>8. ASSUME NEW m \in Direct, SendMessage(m) PROVE Still
  <2>0. /\ m \in Message /\ <<m>> \in Sender /\ spc[<<m>>] = "none"
        /\ \A s \in Sender : s # <<m>> => spc'[s] = spc[s] /\ cur'[s] = cur[s] /\ attempt'[s] = attempt[s]
        /\ \/ spc'[<<m>>] = "limiter" /\ cur'[<<m>>] = <<m, 1>> /\ attempt'[<<m>>] = 0
           \/ spc'[<<m>>] = "returned" /\ UNCHANGED <<cur, attempt>>
        /\ skipped \subseteq skipped'
        /\ UNCHANGED <<lifeVars, log, failed>>
    BY <1>8, SendMessageFacts
  <2>1. \A s \in Sender : s # <<m>> => Same(s)
    BY <2>0 DEF Same, Busy
  <2>2. Same(<<m>>) \/ Begins(<<m>>)
    BY <2>0 DEF Same, Begins, Busy
  <2>3. \A n \in Direct : spc[<<n>>] # "none" => spc'[<<n>>] # "none"
    BY <2>0, Ids
  <2> QED BY <2>0, <2>1, <2>2, <2>3 DEF Still, lifeVars
<1> QED BY <1>2, <1>3, <1>4, <1>5, <1>6, <1>7, <1>8, Steps

LEMMA DirectStep ==
  ManagerAssumption /\ TypeInv /\ LifeInv /\ RouteInv /\ DirectInv /\ [Next]_vars => DirectInv'
<1> SUFFICES ASSUME ManagerAssumption, TypeInv, LifeInv, RouteInv, DirectInv, [Next]_vars,
                    NEW m \in Direct, NEW p \in At(log'[Dest[m]]["text"]), p[1] = m
             PROVE  /\ spc'[<<m>>] # "none"
                    /\ Busy(<<m>>)' => (Before(p, cur'[<<m>>]) \/ (p = cur'[<<m>>] /\ spc'[<<m>>] # "limiter"))
  BY DEF DirectInv
<1>0. <<m>> \in Sender /\ <<m>> \notin Worker /\ Dest[m] \in Channel /\ "text" \in Lane
  BY Ids DEF ManagerAssumption
<1>d. p \in At(log[Dest[m]]["text"]) =>
         /\ spc[<<m>>] # "none"
         /\ Busy(<<m>>) => (Before(p, cur[<<m>>]) \/ (p = cur[<<m>>] /\ spc[<<m>>] # "limiter"))
  BY DEF DirectInv
<1>1. CASE ~ \E s \in Sender : SendWithRetry(s)
  <2>1. Still
    BY <1>1, SendOrStill
  <2>2. p \in At(log[Dest[m]]["text"])
    BY <2>1 DEF Still
  <2>3. ~Begins(<<m>>)
    BY <1>0, <1>d, <2>2, Ids DEF Begins
  <2>4. Same(<<m>>) /\ spc'[<<m>>] # "none"
    BY <1>0, <1>d, <2>1, <2>2, <2>3 DEF Still
  <2> QED BY <1>d, <2>2, <2>4 DEF Same
<1>2. ASSUME NEW s \in Sender, SendWithRetry(s)
      PROVE  /\ spc'[<<m>>] # "none"
             /\ Busy(<<m>>)' => (Before(p, cur'[<<m>>]) \/ (p = cur'[<<m>>] /\ spc'[<<m>>] # "limiter"))
  <2>0. /\ Busy(s) /\ cur[s] \in Piece
        /\ \A t \in Sender : t # s => spc'[t] = spc[t] /\ cur'[t] = cur[t]
        /\ \/ cur'[s] = cur[s] /\ spc'[s] \in {"send", "wait"}
           \/ spc'[s] = "limiter" /\ cur'[s] = <<cur[s][1], cur[s][2] + 1>>
           \/ spc'[s] = IF s \in Worker THEN "idle" ELSE "returned"
    BY <1>2, SendFacts
  <2>g. Grows(s, Dest[m], "text")
    BY <1>0, <1>2, LogFacts
  <2>1. CASE s # <<m>>
    <3>1. cur[s][1] # m
      <4>1. CASE s \in Worker
        BY <2>0, <4>1 DEF RouteInv, WorkRoute, Published
      <4>2. CASE s \notin Worker
        <5>1. s = <<s[1]>> /\ s[1] \in Direct /\ s[1] # m
          BY <2>1, <4>2, Ids
        <5>2. cur[s][1] = s[1]
          BY <2>0, <5>1 DEF RouteInv, CallRoute
        <5> QED BY <5>1, <5>2
      <4> QED BY <4>1, <4>2
    <3>2. p \in At(log[Dest[m]]["text"])
      BY <2>g, <3>1 DEF Grows
    <3>3. spc'[<<m>>] = spc[<<m>>] /\ cur'[<<m>>] = cur[<<m>>]
      BY <1>0, <2>0, <2>1
    <3> QED BY <1>d, <3>2, <3>3 DEF Busy
  <2>2. CASE s = <<m>>
    <3>1. spc'[<<m>>] # "none"
      BY <1>0, <2>0, <2>2
    <3>2. ASSUME Busy(<<m>>)' PROVE Before(p, cur'[s]) \/ (p = cur'[s] /\ spc'[s] # "limiter")
      <4>1. \/ cur'[s] = cur[s] /\ spc'[s] \in {"send", "wait"}
            \/ spc'[s] = "limiter" /\ cur'[s] = <<cur[s][1], cur[s][2] + 1>>
        BY <1>0, <2>0, <2>2, <3>2 DEF Busy
      <4>2. p \in At(log[Dest[m]]["text"]) \/ p = cur[s]
        BY <2>g DEF Grows
      <4>3. p = cur[s] \/ Before(p, cur[s])
        BY <1>d, <2>0, <2>2, <4>2
      <4>4. p \in Piece
        BY <1>0, <2>0, <4>2, TypeFacts
      <4>5. p[1] \in Nat /\ p[2] \in Nat /\ cur[s][1] \in Nat /\ cur[s][2] \in Nat
        BY <2>0, <4>4, Pieces
      <4> QED BY <4>1, <4>3, <4>5, BeforeFacts
    <3> QED BY <2>2, <3>1, <3>2
  <2> QED BY <2>1, <2>2
<1> QED BY <1>1, <1>2

\* What was sent or reported as failed stays so, and a piece is left only then, or when
\* the context has ended.
LEMMA SentAt ==
  /\ \A p : Sent(p) <=> \E c \in Channel, l \in Lane : p \in At(log[c][l])
  /\ \A p : Sent(p)' <=> \E c \in Channel, l \in Lane : p \in At(log'[c][l])
BY DEF Sent, At

LEMMA DoneFacts ==
  ASSUME ManagerAssumption, TypeInv, NEW s \in Sender, SendWithRetry(s)
  PROVE  /\ \A p : Done(p) => Done(p)'
         /\ \A p : Sent(p)' => Sent(p) \/ (p = cur[s] /\ spc[s] = "send")
         /\ spc'[s] \in {"send", "wait"} \/ Cancelled(s) \/ \A p : p = cur[s] => Done(p)'
         /\ spc[s] = "limiter" /\ spc'[s] \in {"send", "wait"} => ~Cancelled(s)
         /\ \A t : Cancelled(t)' <=> Cancelled(t)
<1>1. Busy(s) /\ UNCHANGED elsewhere /\ (Stays(s) \/ Fails(s) \/ Leaves(s)) /\ failed \subseteq failed'
  BY SendSteps, SendFacts
<1>2. \A c \in Channel, l \in Lane : At(log[c][l]) \subseteq At(log'[c][l])
  <2> TAKE c \in Channel, l \in Lane
  <2>1. Grows(s, c, l)
    BY LogFacts
  <2> QED BY <2>1 DEF Grows
<1>3. \A p : Done(p) => Done(p)'
  <2>1. \A p : Sent(p) => Sent(p)'
    BY <1>2, SentAt
  <2> QED BY <1>1, <2>1 DEF Done
<1>4. ASSUME NEW p, Sent(p)' PROVE Sent(p) \/ (p = cur[s] /\ spc[s] = "send")
  <2>1. PICK c \in Channel, l \in Lane : p \in At(log'[c][l])
    BY <1>4, SentAt
  <2>2. Grows(s, c, l)
    BY LogFacts
  <2>3. p \in At(log[c][l]) \/ (p = cur[s] /\ spc[s] = "send")
    BY <2>1, <2>2 DEF Grows
  <2> QED BY <2>3, SentAt
<1>5. Arrive(s) => \A p : p = cur[s] => Sent(p)'
  <2> SUFFICES ASSUME Arrive(s), NEW p, p = cur[s] PROVE Sent(p)'
    OBVIOUS
  <2> DEFINE c == Platform(s)[1]  l == Platform(s)[2]
  <2>1. c \in Channel /\ l \in Lane /\ <<c, l>> = Platform(s) /\ cur[s] \in Piece
    BY <1>1, SenderFacts DEF Platform
  <2> HIDE DEF c, l
  <2>a. log'[c][l] = IF <<c, l>> = Platform(s) THEN Append(log[c][l], cur[s]) ELSE log[c][l]
    BY <1>1, <2>1, ArriveFacts
  <2>2. log'[c][l] = Append(log[c][l], cur[s]) /\ log[c][l] \in Seq(Piece)
    BY <2>1, <2>a, TypeFacts
  <2>3. p \in At(log'[c][l])
    BY <2>1, <2>2, AppendAt
  <2> QED BY <2>1, <2>3, SentAt
<1>6. Leaves(s) => Cancelled(s) \/ \A p : p = cur[s] => Done(p)'
  <2>1. failed' = failed \cup {cur[s]} => cur[s] \in failed'
    OBVIOUS
  <2>2. Leaves(s) => Cancelled(s) \/ Arrive(s) \/ failed' = failed \cup {cur[s]}
    BY DEF Leaves
  <2> QED BY <1>5, <2>1, <2>2 DEF Done
<1>7. Stays(s) \/ Fails(s) => spc'[s] \in {"send", "wait"} /\ (spc[s] = "limiter" => ~Cancelled(s))
  BY TypeFacts DEF Stays, Fails
<1>8. Leaves(s) => spc'[s] \notin {"send", "wait"}
  BY <1>1, NextFacts DEF Leaves
<1>9. \A t : Cancelled(t)' <=> Cancelled(t)
  BY <1>1 DEF Cancelled, elsewhere, lifeVars
<1> QED BY <1>1, <1>3, <1>4, <1>6, <1>7, <1>8, <1>9

LEMMA DoneStep ==
  ManagerAssumption /\ TypeInv /\ LifeInv /\ RouteInv /\ DoneInv /\ [Next]_vars => DoneInv'
<1> SUFFICES ASSUME ManagerAssumption, TypeInv, LifeInv, RouteInv, DoneInv, [Next]_vars,
                    NEW t \in Sender, Busy(t)'
             PROVE  \/ \A k \in 1..cur'[t][2] - 1 : \A p : p = <<cur'[t][1], k>> => Done(p)'
                    \/ spc'[t] = "limiter" /\ Cancelled(t)'
  <2>1. \A x, y, k : (\A p : p = <<x, k>> => Done(p)') => Done(<<x, k>>)'
    BY DEF Done, Sent
  <2> QED BY <2>1 DEF DoneInv, Done, Sent
<1>d. Busy(t) => \/ \A k \in 1..cur[t][2] - 1 : Done(<<cur[t][1], k>>)
                 \/ spc[t] = "limiter" /\ Cancelled(t)
  BY DEF DoneInv
<1>1. CASE ~ \E s \in Sender : SendWithRetry(s)
  <2>1. Still
    BY <1>1, SendOrStill
  <2>2. \A p : Done(p)' <=> Done(p)
    BY <2>1 DEF Still, Done, Sent
  <2>3. Cancelled(t) => Cancelled(t)'
    BY <2>1 DEF Still, Cancelled
  <2>4. CASE Same(t)
    BY <1>d, <2>2, <2>3, <2>4 DEF Same
  <2>5. CASE Begins(t)
    BY <2>5 DEF Begins
  <2> QED BY <2>1, <2>4, <2>5 DEF Still
<1>2. ASSUME NEW s \in Sender, SendWithRetry(s)
      PROVE  \/ \A k \in 1..cur'[t][2] - 1 : \A p : p = <<cur'[t][1], k>> => Done(p)'
             \/ spc'[t] = "limiter" /\ Cancelled(t)'
  <2>0. /\ Busy(s) /\ cur[s] \in Piece
        /\ \A x \in Sender : x # s => spc'[x] = spc[x] /\ cur'[x] = cur[x]
        /\ \/ cur'[s] = cur[s] /\ spc'[s] \in {"send", "wait"}
           \/ spc'[s] = "limiter" /\ cur'[s] = <<cur[s][1], cur[s][2] + 1>>
           \/ spc'[s] = IF s \in Worker THEN "idle" ELSE "returned"
    BY <1>2, SendFacts
  <2>1. /\ \A p : Done(p) => Done(p)'
        /\ spc'[s] \in {"send", "wait"} \/ Cancelled(s) \/ \A p : p = cur[s] => Done(p)'
        /\ spc[s] = "limiter" /\ spc'[s] \in {"send", "wait"} => ~Cancelled(s)
        /\ \A x : Cancelled(x)' <=> Cancelled(x)
    BY <1>2, DoneFacts
  <2>2. CASE t # s
    <3>1. Busy(t) /\ spc'[t] = spc[t] /\ cur'[t] = cur[t]
      BY <2>0, <2>2 DEF Busy
    <3> QED BY <1>d, <2>1, <3>1
  <2>3. CASE t = s /\ cur'[s] = cur[s] /\ spc'[s] \in {"send", "wait"}
    <3>1. \A k \in 1..cur[t][2] - 1 : Done(<<cur[t][1], k>>)
      BY <1>d, <2>0, <2>1, <2>3
    <3> QED BY <2>1, <2>3, <3>1
  <2>4. CASE t = s /\ spc'[s] = "limiter" /\ cur'[s] = <<cur[s][1], cur[s][2] + 1>>
    <3>a. cur[s][2] \in Nat /\ cur[s] = <<cur[s][1], cur[s][2]>>
      BY <2>0, Pieces
    <3>b. cur'[s][2] = cur[s][2] + 1 /\ cur'[s][1] = cur[s][1]
      BY <2>4
    <3>0. cur[s][2] \in Nat /\ cur[s] = <<cur[s][1], cur[s][2]>> /\ cur'[s][2] - 1 = cur[s][2] /\ cur'[s][1] = cur[s][1]
      BY <3>a, <3>b
    <3>1. CASE Cancelled(s)
      BY <2>1, <2>4, <3>1
    <3>2. CASE ~Cancelled(s)
      <4>1. \A k \in 1..cur[s][2] - 1 : \A p : p = <<cur[s][1], k>> => Done(p)'
        BY <1>d, <2>0, <2>1, <2>4, <3>2
      <4>2. \A p : p = <<cur[s][1], cur[s][2]>> => Done(p)'
        BY <2>1, <2>4, <3>0, <3>2
      <4>3. \A k \in 1..cur[s][2] : k \in 1..cur[s][2] - 1 \/ k = cur[s][2]
        BY <3>0
      <4> QED BY <2>4, <3>0, <4>1, <4>2, <4>3
    <3> QED BY <3>1, <3>2
  <2> QED BY <1>2, <2>0, <2>2, <2>3, <2>4 DEF Busy
<1> QED BY <1>1, <1>2

\* Two senders do not send the same piece.
LEMMA OtherPiece ==
  ASSUME ManagerAssumption, TypeInv, LifeInv, RouteInv, NEW s \in Sender, NEW t \in Sender,
         Busy(s), Busy(t), s # t, Platform(s) = Platform(t)
  PROVE  cur[s] # cur[t]
<1>0. WorkRoute /\ CallRoute
  BY DEF RouteInv
<1>1. CASE s \in Worker /\ t \in Worker
  <2>1. s[2] = t[2] /\ s[3] = t[3] /\ Current(s) /\ Current(t)
    BY <1>1, OnlyCurrent DEF Platform
  <2> QED BY <1>1, <2>1, OneWorker
<1>2. \A x \in Sender : x \in Worker /\ Busy(x) => cur[x][1] \notin Direct
  BY <1>0 DEF WorkRoute, Published
<1>3. \A x \in Sender : x \notin Worker /\ Busy(x) => x = <<x[1]>> /\ x[1] \in Direct /\ cur[x][1] = x[1]
  <2> SUFFICES ASSUME NEW x \in Sender, x \notin Worker, Busy(x)
               PROVE  x = <<x[1]>> /\ x[1] \in Direct /\ cur[x][1] = x[1]
    OBVIOUS
  <2>1. x = <<x[1]>> /\ x[1] \in Direct
    BY Ids
  <2>2. cur[<<x[1]>>][1] = x[1]
    BY <1>0, <2>1 DEF CallRoute
  <2> QED BY <2>1, <2>2
<1> QED BY <1>1, <1>2, <1>3

\* The copies of a piece grow with the attempts only.
LEMMA CopyStep ==
  ManagerAssumption /\ TypeInv /\ TypeInv' /\ LifeInv /\ RouteInv /\ RouteInv' /\ SendInv' /\ DirectInv' /\ CopyInv /\ [Next]_vars => CopyInv'
<1> SUFFICES ASSUME ManagerAssumption, TypeInv, TypeInv', LifeInv, RouteInv, RouteInv', SendInv', DirectInv', CopyInv, [Next]_vars,
                    NEW t \in Sender, Busy(t)'
             PROVE  /\ Copies(log'[Platform(t)[1]][Platform(t)[2]], cur'[t]) <= attempt'[t]
                    /\ spc'[t] = "limiter" => attempt'[t] = 0
                    /\ spc'[t] = "wait" => attempt'[t] # 0
  BY DEF CopyInv, Platform
<1>c. Busy(t) => /\ Copies(log[Platform(t)[1]][Platform(t)[2]], cur[t]) <= attempt[t]
                 /\ spc[t] = "limiter" => attempt[t] = 0
                 /\ spc[t] = "wait" => attempt[t] # 0
  BY DEF CopyInv
<1> DEFINE c == Platform(t)[1]  l == Platform(t)[2]
<1>t. /\ Platform(t) = <<c, l>> /\ c \in Channel /\ l \in Lane
      /\ t \in Worker => c = t[2] /\ l = t[3]
      /\ t \notin Worker => t = <<t[1]>> /\ t[1] \in Direct /\ c = Dest[t[1]] /\ l = "text"
  BY Ids DEF Platform, ManagerAssumption
<1>y. /\ log[c][l] \in Seq(Piece) /\ log'[c][l] \in Seq(Piece) /\ cur'[t] \in Piece
      /\ attempt'[t] \in Nat /\ attempt[t] \in Nat
  BY <1>t, TypeFacts DEF TypeInv, TypeOK, ManagerAssumption, Busy
<1> HIDE DEF c, l
\* nothing of a new piece has been sent
<1>1. CASE spc'[t] = "limiter" /\ attempt'[t] = 0
  <2>1. cur'[t] \notin At(log'[c][l])
    <3>0. ~Before(cur'[t], cur'[t])
      BY <1>y, Pieces DEF Before
    <3>1. CASE t \in Worker
      <4>1. cur'[t][1] \notin Direct
        BY <3>1 DEF RouteInv, WorkRoute, Published
      <4>2. cur'[t] \notin Arrived(c, l)'
        BY <1>1, <1>t, <3>0, <3>1 DEF SendInv
      <4> QED BY <4>1, <4>2 DEF Arrived
    <3>2. CASE t \notin Worker
      <4>1. cur'[t][1] = t[1]
        BY <1>t, <3>2 DEF RouteInv, CallRoute
      <4> QED BY <1>1, <1>t, <3>0, <3>2, <4>1 DEF DirectInv
    <3> QED BY <3>1, <3>2
  <2>2. Copies(log'[c][l], cur'[t]) = 0
    BY <1>y, <2>1, CopiesFacts
  <2> QED BY <1>1, <2>2 DEF c, l
<1>2. CASE ~ \E s \in Sender : SendWithRetry(s)
  <2>1. Still
    BY <1>2, SendOrStill
  <2>2. CASE Same(t)
    BY <1>c, <2>1, <2>2 DEF Same, Still
  <2>3. CASE Begins(t)
    BY <1>1, <2>3 DEF Begins
  <2> QED BY <2>1, <2>2, <2>3 DEF Still
<1>3. ASSUME NEW s \in Sender, SendWithRetry(s), s # t PROVE Copies(log'[c][l], cur'[t]) <= attempt'[t] /\ spc'[t] = spc[t] /\ attempt'[t] = attempt[t] /\ Busy(t)
  <2>1. Busy(s) /\ cur[s] \in Piece /\ spc'[t] = spc[t] /\ cur'[t] = cur[t] /\ attempt'[t] = attempt[t]
    BY <1>3, SendFacts
  <2>2. Busy(t)
    BY <2>1 DEF Busy
  <2>3. Copies(log[c][l], cur[t]) <= attempt[t]
    BY <1>c, <2>2 DEF c, l
  <2>4. Grows(s, c, l)
    BY <1>3, <1>t, LogFacts
  <2>5. CASE log'[c][l] = log[c][l]
    BY <2>1, <2>2, <2>3, <2>5
  <2>6. CASE <<c, l>> = Platform(s) /\ log'[c][l] = Append(log[c][l], cur[s])
    <3>1. cur[s] # cur[t]
      BY <1>3, <1>t, <2>1, <2>2, <2>6, OtherPiece
    <3>2. Copies(Append(log[c][l], cur[s]), cur[t]) = Copies(log[c][l], cur[t])
      BY <1>y, <2>1, <3>1, CopiesFacts
    <3> QED BY <2>1, <2>2, <2>3, <2>6, <3>2
  <2> QED BY <2>4, <2>5, <2>6 DEF Grows
<1>4. ASSUME SendWithRetry(t)
      PROVE  /\ Copies(log'[c][l], cur'[t]) <= attempt'[t]
             /\ spc'[t] = "limiter" => attempt'[t] = 0
             /\ spc'[t] = "wait" => attempt'[t] # 0
  <2>1. Busy(t) /\ (Stays(t) \/ Fails(t) \/ Leaves(t)) /\ cur[t] \in Piece
    BY <1>4, SendSteps, SenderFacts
  <2>2. Copies(log[c][l], cur[t]) <= attempt[t] /\ Copies(log[c][l], cur[t]) \in Nat
    BY <1>c, <1>y, <2>1, CopiesFacts DEF c, l
  <2>3. CASE Stays(t)
    <3>1. spc'[t] = "send" /\ cur'[t] = cur[t] /\ attempt'[t] = attempt[t] /\ log' = log
      BY <2>3, TypeFacts DEF Stays
    <3> QED BY <2>2, <3>1
  <2>4. CASE Fails(t)
    <3>1. spc'[t] = "wait" /\ cur'[t] = cur[t] /\ attempt'[t] = attempt[t] + 1
      BY <2>4, TypeFacts DEF Fails
    <3>2. Grows(t, c, l)
      BY <1>4, <1>t, LogFacts
    <3>3. Copies(Append(log[c][l], cur[t]), cur[t]) = Copies(log[c][l], cur[t]) + 1
      BY <1>y, <2>1, CopiesFacts
    <3>a. Copies(log'[c][l], cur[t]) \in {Copies(log[c][l], cur[t]), Copies(log[c][l], cur[t]) + 1}
      <4>1. log'[c][l] = log[c][l] \/ log'[c][l] = Append(log[c][l], cur[t])
        BY <3>2 DEF Grows
      <4> QED BY <3>3, <4>1
    <3>b. Copies(log'[c][l], cur[t]) <= attempt[t] + 1
      BY <1>y, <2>2, <3>a
    <3>4. Copies(log'[c][l], cur'[t]) <= attempt'[t]
      BY <3>1, <3>b
    <3> QED BY <1>y, <3>1, <3>4
  <2>5. CASE Leaves(t)
    <3>1. spc'[t] = "limiter" /\ attempt'[t] = 0
      <4>1. NextPiece(t)
        BY <2>5 DEF Leaves
      <4>2. /\ attempt'[t] = 0
            /\ spc'[t] = "limiter" \/ spc'[t] = IF t \in Worker THEN "idle" ELSE "returned"
        BY <2>1, <4>1, NextFacts
      <4> QED BY <4>2 DEF Busy
    <3> QED BY <1>1, <3>1 DEF c, l
  <2> QED BY <2>1, <2>3, <2>4, <2>5
<1> QED BY <1>2, <1>3, <1>4, <1>c DEF c, l

\* The pieces of a log before and after one arrives.
LEMMA ArrivalAt ==
  ASSUME ManagerAssumption, TypeInv, NEW s \in Sender, SendWithRetry(s), NEW c \in Channel, NEW l \in Lane,
         NEW i \in DOMAIN log'[c][l]
  PROVE  \/ i \in DOMAIN log[c][l] /\ log'[c][l][i] = log[c][l][i] /\ log[c][l][i] \in At(log[c][l]) /\ i \in Nat
            /\ i <= Len(log[c][l])
         \/ /\ <<c, l>> = Platform(s) /\ spc[s] = "send" /\ log'[c][l][i] = cur[s]
            /\ i = Len(log[c][l]) + 1 /\ i \in Nat
<1>1. log[c][l] \in Seq(Piece) /\ cur[s] \in Piece /\ Grows(s, c, l)
  BY TypeFacts, LogFacts, SendFacts
<1>2. /\ Len(log[c][l]) \in Nat /\ DOMAIN log[c][l] = 1..Len(log[c][l])
      /\ DOMAIN Append(log[c][l], cur[s]) = 1..Len(log[c][l]) + 1
      /\ \A j \in DOMAIN log[c][l] : Append(log[c][l], cur[s])[j] = log[c][l][j]
      /\ Append(log[c][l], cur[s])[Len(log[c][l]) + 1] = cur[s]
  BY <1>1, AppendAt
<1>3. \A j \in DOMAIN log[c][l] : log[c][l][j] \in At(log[c][l])
  BY DEF At
<1>4. CASE i \in DOMAIN log[c][l]
  <2>1. log'[c][l][i] = log[c][l][i]
    BY <1>1, <1>2, <1>4 DEF Grows
  <2> QED BY <1>2, <1>3, <1>4, <2>1
<1>5. CASE i \notin DOMAIN log[c][l]
  <2>1. <<c, l>> = Platform(s) /\ spc[s] = "send" /\ log'[c][l] = Append(log[c][l], cur[s])
    BY <1>1, <1>5 DEF Grows
  <2>2. i \in 1..Len(log[c][l]) + 1
    BY <1>2, <2>1
  <2>3. i = Len(log[c][l]) + 1
    BY <1>2, <1>5, <2>2
  <2> QED BY <1>2, <2>1, <2>3
<1> QED BY <1>4, <1>5

\* PiecesInOrder, step by step.
LEMMA PiecesStep ==
  ASSUME ManagerAssumption, TypeInv, LifeInv, RouteInv, OrderInv, DirectInv, DoneInv, CopyInv,
         PiecesInOrder, [Next]_vars
  PROVE  PiecesInOrder'
<1>0. ChannelOrder /\ SendMessageFirst /\ NoHole /\ CopiesBounded /\ SendInv
  BY DEF PiecesInOrder, OrderInv
<1>1. CASE ~ \E s \in Sender : SendWithRetry(s)
  <2>1. UNCHANGED <<log, failed>>
    BY <1>1, SendOrStill DEF Still
  <2>2. NoHole'
    <3>1. \A x, k : Done(<<x, k>>)' <=> Done(<<x, k>>)
      BY <2>1 DEF Done, Sent
    <3> QED BY <1>0, <2>1, <3>1 DEF NoHole
  <2>3. ChannelOrder' /\ SendMessageFirst'
    BY <1>0, <2>1 DEF ChannelOrder, SendMessageFirst, NotAfter
  <2>4. CopiesBounded'
    <3>1. \A c \in Channel, l \in Lane : \A p \in At(log[c][l]) : Copies(log[c][l], p) <= MaxRetries + 1
      BY <1>0 DEF CopiesBounded, Copies, At
    <3>2. \A c \in Channel, l \in Lane : \A p \in At(log'[c][l]) : Copies(log'[c][l], p) <= MaxRetries + 1
      BY <2>1, <3>1
    <3> QED BY <3>2 DEF CopiesBounded, Copies, At
  <2> QED BY <2>2, <2>3, <2>4 DEF PiecesInOrder
<1>2. ASSUME NEW s \in Sender, SendWithRetry(s) PROVE PiecesInOrder'
  <2>0. Busy(s) /\ cur[s] \in Piece
    BY <1>2, SendFacts
  <2>t. "text" \in Lane
    BY DEF ManagerAssumption
  <2>1. ChannelOrder'
    <3>1. SUFFICES ASSUME NEW c \in Channel, NEW l \in Lane, NEW i \in DOMAIN log'[c][l], NEW j \in DOMAIN log'[c][l],
                          i < j, {log'[c][l][i][1], log'[c][l][j][1]} \cap Direct = {}
                   PROVE  NotAfter(log'[c][l][i], log'[c][l][j])
      BY DEF ChannelOrder, NotAfter
    <3>2. i \in DOMAIN log[c][l] /\ log'[c][l][i] = log[c][l][i] /\ log[c][l][i] \in At(log[c][l])
      BY <1>2, <3>1, ArrivalAt
    <3>3. CASE j \in DOMAIN log[c][l] /\ log'[c][l][j] = log[c][l][j]
      BY <1>0, <3>1, <3>2, <3>3 DEF ChannelOrder
    <3>4. CASE <<c, l>> = Platform(s) /\ log'[c][l][j] = cur[s]
      <4>1. s \in Worker
        <5>1. s \notin Worker => s = <<s[1]>> /\ s[1] \in Direct
          BY Ids
        <5>2. s \notin Worker => cur[s][1] \in Direct
          BY <2>0, <5>1 DEF RouteInv, CallRoute
        <5> QED BY <3>1, <3>4, <5>2
      <4>2. log[c][l][i] \in Arrived(s[2], s[3])
        BY <3>1, <3>2, <3>4, <4>1 DEF Arrived, Platform
      <4>3. Before(log[c][l][i], cur[s]) \/ log[c][l][i] = cur[s]
        BY <1>0, <2>0, <4>1, <4>2 DEF SendInv
      <4>4. log[c][l][i] \in Piece
        BY <3>2, TypeFacts
      <4>5. /\ log[c][l][i][1] \in Nat /\ log[c][l][i][2] \in Nat
            /\ cur[s][1] \in Nat /\ cur[s][2] \in Nat
        BY <2>0, <4>4, Pieces
      <4>6. NotAfter(log[c][l][i], cur[s])
        BY <4>3, <4>5 DEF Before, NotAfter
      <4> QED BY <3>2, <3>4, <4>6
    <3>5. \/ j \in DOMAIN log[c][l] /\ log'[c][l][j] = log[c][l][j]
          \/ <<c, l>> = Platform(s) /\ log'[c][l][j] = cur[s]
      BY <1>2, ArrivalAt
    <3> QED BY <3>3, <3>4, <3>5
  <2>2. SendMessageFirst'
    <3>1. SUFFICES ASSUME NEW c \in Channel, NEW i \in DOMAIN log'[c]["text"], NEW j \in DOMAIN log'[c]["text"],
                          i < j, log'[c]["text"][i][1] \notin Direct, log'[c]["text"][j][1] \in Direct
                   PROVE  log'[c]["text"][i][1] < log'[c]["text"][j][1]
      BY DEF SendMessageFirst
    <3> DEFINE p == log[c]["text"][i]
    <3>2. i \in DOMAIN log[c]["text"] /\ log'[c]["text"][i] = p /\ p \in At(log[c]["text"])
      BY <1>2, <2>t, <3>1, ArrivalAt
    <3>3. CASE j \in DOMAIN log[c]["text"] /\ log'[c]["text"][j] = log[c]["text"][j]
      BY <1>0, <3>1, <3>2, <3>3 DEF SendMessageFirst
    <3>4. CASE log'[c]["text"][j] = cur[s]
      <4>1. s = <<cur[s][1]>> /\ cur[s][1] \in Direct
        <5>1. s \in Worker => cur[s][1] \notin Direct
          BY <2>0 DEF RouteInv, WorkRoute, Published
        <5>2. s \notin Worker => s = <<s[1]>> /\ s[1] \in Direct
          BY Ids
        <5>3. s \notin Worker => cur[s][1] = s[1]
          BY <2>0, <5>2 DEF RouteInv, CallRoute
        <5> QED BY <3>1, <3>4, <5>1, <5>2, <5>3
      <4>2. p \in Arrived(c, "text")
        BY <3>1, <3>2 DEF Arrived
      <4> HIDE DEF p
      <4>3. p[1] \in Published /\ p[1] \in Nat /\ cur[s][1] \in Nat /\ cur[s][1] \in Message /\ 0 \notin Message
        BY <2>0, <2>t, <4>2, ArrivedFacts, Pieces
      <4>4. spc[<<cur[s][1]>>] # "returned"
        BY <2>0, <4>1 DEF Busy
      <4>5. cur[s][1] \notin 1..p[1] - 1
        BY <4>1, <4>3, <4>4 DEF RouteInv, OfferInv
      <4>6. p[1] # cur[s][1]
        BY <4>1, <4>3 DEF Published
      <4>7. p[1] < cur[s][1]
        BY <4>3, <4>5, <4>6
      <4> QED BY <3>2, <3>4, <4>7
    <3>5. \/ j \in DOMAIN log[c]["text"] /\ log'[c]["text"][j] = log[c]["text"][j]
          \/ log'[c]["text"][j] = cur[s]
      BY <1>2, <2>t, ArrivalAt
    <3> QED BY <3>3, <3>4, <3>5
  <2>3. NoHole'
    <3>0. \A p : Done(p) => Done(p)'
      BY <1>2, DoneFacts
    <3>1. SUFFICES ASSUME NEW c \in Channel, NEW l \in Lane, NEW i \in DOMAIN log'[c][l], NEW k \in 1..log'[c][l][i][2],
                          NEW p, p = <<log'[c][l][i][1], k>>
                   PROVE  Done(p)'
      BY DEF NoHole, Done, Sent
    <3>2. CASE i \in DOMAIN log[c][l] /\ log'[c][l][i] = log[c][l][i]
      <4>1. Done(p)
        BY <1>0, <3>1, <3>2 DEF NoHole
      <4> QED BY <3>0, <4>1
    <3>3. CASE spc[s] = "send" /\ log'[c][l][i] = cur[s]
      <4>1. cur[s][2] \in Nat /\ cur[s] = <<cur[s][1], cur[s][2]>>
        BY <2>0, Pieces
      <4>2. \A n \in 1..cur[s][2] - 1 : Done(<<cur[s][1], n>>)
        BY <2>0, <3>3 DEF DoneInv
      <4>3. CASE k = cur[s][2]
        <5>1. p = log'[c][l][i]
          BY <3>1, <3>3, <4>1, <4>3
        <5> QED BY <5>1 DEF Done, Sent
      <4>4. CASE k # cur[s][2]
        <5>1. k \in 1..cur[s][2] - 1
          BY <3>1, <3>3, <4>1, <4>4
        <5>2. Done(p)
          BY <3>1, <3>3, <4>2, <5>1
        <5> QED BY <3>0, <5>2
      <4> QED BY <4>3, <4>4
    <3>4. \/ i \in DOMAIN log[c][l] /\ log'[c][l][i] = log[c][l][i]
          \/ spc[s] = "send" /\ log'[c][l][i] = cur[s]
      BY <1>2, ArrivalAt
    <3> QED BY <3>2, <3>3, <3>4
  <2>4. CopiesBounded'
    <3>1. SUFFICES ASSUME NEW c \in Channel, NEW l \in Lane, NEW p \in At(log'[c][l])
                   PROVE  Copies(log'[c][l], p) <= MaxRetries + 1
      BY DEF CopiesBounded, Copies, At
    <3>2. MaxRetries \in Nat /\ log[c][l] \in Seq(Piece) /\ Grows(s, c, l)
      BY <1>2, TypeFacts, LogFacts DEF ManagerAssumption
    <3>3. /\ Copies(log[c][l], p) \in Nat /\ Copies(log[c][l], p) <= MaxRetries + 1
          /\ Copies(Append(log[c][l], cur[s]), p) = IF cur[s] = p THEN Copies(log[c][l], p) + 1 ELSE Copies(log[c][l], p)
      <4>1. p \in At(log[c][l]) => Copies(log[c][l], p) <= MaxRetries + 1
        <5>1. \A d \in Channel, k \in Lane : \A x \in At(log[d][k]) : Copies(log[d][k], x) <= MaxRetries + 1
          BY <1>0 DEF CopiesBounded, Copies, At
        <5> QED BY <5>1
      <4>2. p \notin At(log[c][l]) => Copies(log[c][l], p) = 0
        BY <2>0, <3>2, CopiesFacts
      <4>3. /\ Copies(log[c][l], p) \in Nat
            /\ Copies(Append(log[c][l], cur[s]), p) = IF cur[s] = p THEN Copies(log[c][l], p) + 1 ELSE Copies(log[c][l], p)
        BY <2>0, <3>2, CopiesFacts
      <4> QED BY <3>2, <4>1, <4>2, <4>3
    <3>4. CASE log'[c][l] = log[c][l] \/ (cur[s] # p /\ log'[c][l] = Append(log[c][l], cur[s]))
      BY <3>3, <3>4
    <3>5. CASE <<c, l>> = Platform(s) /\ cur[s] = p /\ log'[c][l] = Append(log[c][l], cur[s])
      <4>1. Copies(log[c][l], p) <= attempt[s]
        <5>1. Platform(s)[1] = c /\ Platform(s)[2] = l
          BY <3>5
        <5> QED BY <2>0, <3>5, <5>1 DEF CopyInv
      <4>2. attempt[s] \in Nat /\ attempt[s] <= MaxRetries
        BY <2>0, SenderFacts
      <4> QED BY <3>2, <3>3, <3>5, <4>1, <4>2
    <3> QED BY <3>2, <3>4, <3>5 DEF Grows
  <2> QED BY <2>1, <2>2, <2>3, <2>4 DEF PiecesInOrder
<1> QED BY <1>1, <1>2
-----------------------------------------------------------------------------
(* Where a published message is.                                           *)

\* neither held, nor queued, nor being sent
OffRoad(m) ==
    /\ \A d \in Dispatcher : ~(Holding(d) /\ held[d] = m)
    /\ \A w \in Worker : m \notin At(queue[w]) /\ ~(Busy(w) /\ cur[w][1] = m)

\* What is on the bus is nowhere else.
LEMMA BusOnly ==
  ASSUME ManagerAssumption, TypeInv, RouteInv, OrderInv, NEW l \in Lane, NEW m \in At(busQ[l])
  PROVE  m \in Published /\ LaneOf[m] = l /\ OffRoad(m)
<1>0. BusRoute /\ HeldRoute /\ WorkRoute /\ BusInv
  BY DEF RouteInv, OrderInv
<1>1. m \in Published /\ LaneOf[m] = l /\ m \in Nat
  BY <1>0, TypeFacts DEF BusRoute
<1>2. ASSUME NEW d \in Dispatcher, Holding(d), held[d] = m PROVE FALSE
  <2>1. d[2] = l
    BY <1>0, <1>1, <1>2 DEF HeldRoute
  <2>2. held[d] < m
    BY <1>0, <1>2, <2>1 DEF BusInv
  <2> QED BY <1>1, <1>2, <2>2
<1>3. ASSUME NEW w \in Worker, m \in At(queue[w]) PROVE FALSE
  <2>1. w[3] = l
    BY <1>0, <1>1, <1>3 DEF WorkRoute
  <2>2. m < m
    BY <1>0, <1>3, <2>1 DEF BusInv
  <2> QED BY <1>1, <2>2
<1>4. ASSUME NEW w \in Worker, Busy(w), cur[w][1] = m PROVE FALSE
  <2>1. w[3] = l
    BY <1>0, <1>1, <1>4 DEF WorkRoute
  <2>2. m < m
    BY <1>0, <1>4, <2>1 DEF BusInv
  <2> QED BY <1>1, <2>2
<1> QED BY <1>1, <1>2, <1>3, <1>4 DEF OffRoad

LEMMA UniqueKept ==
  ASSUME NEW m, Unique(m),
         \A d \in Dispatcher : Holding(d)' => Holding(d) /\ held'[d] = held[d],
         \A w \in Worker : m \in At(queue'[w]) => m \in At(queue[w]),
         \A w \in Worker : Busy(w)' => Busy(w) /\ cur'[w][1] = cur[w][1]
  PROVE  Unique(m)'
BY DEF Unique

LEMMA UniqueStep ==
  ManagerAssumption /\ TypeInv /\ LifeInv /\ RouteInv /\ OrderInv /\ UniqueInv /\ [Next]_vars => UniqueInv'
<1> SUFFICES ASSUME ManagerAssumption, TypeInv, LifeInv, RouteInv, OrderInv, UniqueInv, [Next]_vars PROVE UniqueInv'
  OBVIOUS
<1>1. ASSUME Published' = Published,
             \A d \in Dispatcher : Holding(d)' => Holding(d) /\ held'[d] = held[d],
             UNCHANGED queue,
             \A w \in Worker : Busy(w)' => Busy(w) /\ cur'[w][1] = cur[w][1]
      PROVE  UniqueInv'
  BY <1>1, UniqueKept DEF UniqueInv
<1>2. CASE Boot \/ Restart
  BY <1>1, <1>2, StartFacts, Ids DEF Published
<1>3. CASE Quiet
  BY <1>1, <1>3 DEF Quiet, dispVars, sendVars, Holding, Busy, Published
<1>4. ASSUME NEW d \in Dispatcher, Drops(d) \/ Finds(d) PROVE UniqueInv'
  <2>1. UNCHANGED <<held, spc, cur, queue, offered>>
    BY <1>4 DEF Drops, Finds, sendVars
  <2>2. \A e \in Dispatcher : Holding(e)' => Holding(e)
    BY <1>4, TypeFacts DEF Drops, Finds, Holding
  <2> QED BY <1>1, <2>1, <2>2 DEF Busy, Published
<1>5. ASSUME NEW w \in Worker, WorkerExit(w) PROVE UniqueInv'
  <2>1. UNCHANGED <<disp, held, cur, queue, offered>> /\ spc' = [spc EXCEPT ![w] = "exited"]
    BY <1>5 DEF WorkerExit, dispVars
  <2>2. \A v \in Worker : Busy(v)' => Busy(v)
    BY <2>1, TypeFacts DEF Busy
  <2> QED BY <1>1, <2>1, <2>2 DEF Holding, Published
<1>6. ASSUME NEW m \in Direct, SendMessage(m) PROVE UniqueInv'
  <2>1. /\ UNCHANGED <<dispVars, queue>> /\ offered' = offered \cup {m}
        /\ \A s \in Sender : s # <<m>> => spc'[s] = spc[s] /\ cur'[s] = cur[s]
    BY <1>6, SendMessageFacts
  <2>2. \A v \in Worker : spc'[v] = spc[v] /\ cur'[v] = cur[v]
    BY <2>1, Ids
  <2> QED BY <1>1, <2>1, <2>2 DEF Holding, Busy, Published, dispVars
<1>7. ASSUME NEW s \in Sender, SendWithRetry(s) PROVE UniqueInv'
  <2>1. /\ Busy(s) /\ UNCHANGED <<disp, held, queue, offered>>
        /\ \A t \in Sender : t # s => spc'[t] = spc[t] /\ cur'[t] = cur[t]
        /\ \/ cur'[s] = cur[s]
           \/ cur'[s] = <<cur[s][1], cur[s][2] + 1>>
           \/ spc'[s] = IF s \in Worker THEN "idle" ELSE "returned"
    BY <1>7, SendFacts DEF elsewhere, dispVars
  <2>2. \A t \in Sender : Busy(t)' => Busy(t) /\ cur'[t][1] = cur[t][1]
    BY <2>1 DEF Busy
  <2> QED BY <1>1, <2>1, <2>2, Ids DEF Holding, Published
<1>8. ASSUME NEW m \in Message, Publish(m) PROVE UniqueInv'
  <2>0. m \notin offered /\ offered' = offered \cup {m} /\ UNCHANGED <<disp, held, spc, cur, queue>>
    BY <1>8, PublishFacts DEF sendVars
  <2>1. \A n : Unique(n) => Unique(n)'
    BY <2>0, UniqueKept DEF Holding, Busy
  <2>2. Unique(m)
    <3>1. m \notin Published
      BY <2>0 DEF Published
    <3> QED BY <3>1 DEF Unique, RouteInv, HeldRoute, WorkRoute
  <2> QED BY <2>0, <2>1, <2>2 DEF UniqueInv, Published
<1>9. ASSUME NEW d \in Dispatcher, Subscribe(d) PROVE UniqueInv'
  <2>0. /\ d[2] \in Lane /\ At(busQ[d[2]]) = At(busQ'[d[2]]) \cup {held'[d]}
        /\ \A e \in Dispatcher : e # d => held'[e] = held[e] /\ disp'[e] = disp[e]
        /\ UNCHANGED <<spc, cur, queue, offered>>
    BY <1>9, SubscribeFacts DEF sendVars
  <2>1. /\ \A e \in Dispatcher : ~(Holding(e) /\ held[e] = held'[d])
        /\ \A w \in Worker : held'[d] \notin At(queue[w]) /\ ~(Busy(w) /\ cur[w][1] = held'[d])
    <3>1. PICK n : n = held'[d]
      OBVIOUS
    <3>2. n \in At(busQ[d[2]]) /\ d[2] \in Lane
      BY <2>0, <3>1
    <3>3. OffRoad(n)
      BY <3>2, BusOnly
    <3> QED BY <3>1, <3>3 DEF OffRoad
  <2>2. SUFFICES ASSUME NEW n \in Published PROVE Unique(n)'
    BY <2>0 DEF UniqueInv, Published
  <2>3. Unique(n)
    BY DEF UniqueInv
  <2>4. \A e \in Dispatcher : e # d => (Holding(e)' <=> Holding(e)) /\ held'[e] = held[e]
    BY <2>0 DEF Holding
  <2>5. \A w : (Busy(w)' <=> Busy(w)) /\ cur'[w] = cur[w] /\ queue'[w] = queue[w]
    BY <2>0 DEF Busy
  <2>6. CASE n = held'[d]
    BY <2>1, <2>4, <2>5, <2>6 DEF Unique
  <2>7. CASE n # held'[d]
    BY <2>3, <2>4, <2>5, <2>7 DEF Unique
  <2> QED BY <2>6, <2>7
<1>10. ASSUME NEW d \in Dispatcher, Enqueue(d) PROVE UniqueInv'
  <2>0. PICK w \in Worker :
         /\ Holding(d) /\ ~Holding(d)' /\ held[d] \in Published
         /\ At(queue'[w]) = At(queue[w]) \cup {held[d]}
         /\ \A v \in Worker : v # w => queue'[v] = queue[v]
         /\ \A e \in Dispatcher : e # d => disp'[e] = disp[e]
         /\ UNCHANGED <<lifeVars, busQ, held, sendVars, offered, skipped>>
    BY <1>10, EnqueueFacts
  <2>1. UNCHANGED <<held, spc, cur, offered>>
    BY <2>0 DEF sendVars
  <2>2. SUFFICES ASSUME NEW n \in Published PROVE Unique(n)'
    BY <2>1 DEF UniqueInv, Published
  <2>3. Unique(n)
    BY DEF UniqueInv
  <2>4. /\ \A e \in Dispatcher : Holding(e)' => Holding(e) /\ e # d
        /\ \A e : held'[e] = held[e]
    BY <2>0, <2>1 DEF Holding
  <2>5. \A v : (Busy(v)' <=> Busy(v)) /\ cur'[v] = cur[v]
    BY <2>1 DEF Busy
  <2>6. CASE n = held[d]
    <3>1. /\ \A e \in Dispatcher : ~(Holding(e)' /\ held'[e] = n)
          /\ \A v \in Worker : n \notin At(queue[v]) /\ ~(Busy(v) /\ cur[v][1] = n)
      BY <2>0, <2>3, <2>4, <2>6 DEF Unique
    <3>2. \A v \in Worker : n \in At(queue'[v]) => v = w
      BY <2>0, <3>1
    <3> QED BY <2>5, <3>1, <3>2 DEF Unique
  <2>7. CASE n # held[d]
    <3>1. \A v \in Worker : n \in At(queue'[v]) => n \in At(queue[v])
      BY <2>0, <2>7
    <3> QED BY <2>3, <2>4, <2>5, <3>1, UniqueKept
  <2> QED BY <2>6, <2>7
<1>11. ASSUME NEW w \in Worker, TakeMessage(w) PROVE UniqueInv'
  <2>0. PICK m \in Message :
         /\ ~Busy(w) /\ At(queue[w]) = At(queue'[w]) \cup {m}
         /\ Increasing(queue[w]) => Increasing(queue'[w]) /\ \A x \in At(queue'[w]) : m < x
         /\ \A v \in Worker : v # w => queue'[v] = queue[v]
         /\ \A s \in Sender : s # w => spc'[s] = spc[s] /\ cur'[s] = cur[s]
         /\ UNCHANGED <<spc, cur>> \/ cur'[w] = <<m, 1>>
         /\ UNCHANGED <<lifeVars, dispVars, log, failed, offered>>
    BY <1>11, TakeFacts
  <2>1. UNCHANGED <<disp, held, offered>>
    BY <2>0 DEF dispVars
  <2>2. SUFFICES ASSUME NEW n \in Published PROVE Unique(n)'
    BY <2>1 DEF UniqueInv, Published
  <2>3. Unique(n)
    BY DEF UniqueInv
  <2>4. \A e : (Holding(e)' <=> Holding(e)) /\ held'[e] = held[e]
    BY <2>1 DEF Holding
  <2>5. /\ \A v \in Worker : v # w => (Busy(v)' <=> Busy(v)) /\ cur'[v] = cur[v]
        /\ Busy(w)' => cur'[w][1] = m
    BY <2>0, TypeFacts DEF Busy
  <2>6. \A v \in Worker : n \in At(queue'[v]) => n \in At(queue[v])
    BY <2>0
  <2>7. CASE n = m
    <3>1. m \notin At(queue'[w]) /\ m \in At(queue[w])
      <4>1. Increasing(queue[w]) /\ ~(m < m)
        BY TypeFacts DEF OrderInv, QueueInv
      <4> QED BY <2>0, <4>1
    <3>2. /\ \A e \in Dispatcher : ~(Holding(e)' /\ held'[e] = n)
          /\ \A v \in Worker : n \notin At(queue'[v])
          /\ \A v \in Worker : v # w => ~(Busy(v)' /\ cur'[v][1] = n)
      BY <2>3, <2>4, <2>5, <2>6, <2>7, <3>1 DEF Unique
    <3> QED BY <3>2 DEF Unique
  <2>8. CASE n # m
    <3>1. \A v \in Worker : Busy(v)' /\ cur'[v][1] = n => Busy(v) /\ cur[v][1] = n
      BY <2>5, <2>8
    <3> QED BY <2>3, <2>4, <2>6, <3>1 DEF Unique
  <2> QED BY <2>7, <2>8
<1> QED BY <1>2, <1>3, <1>4, <1>5, <1>6, <1>7, <1>8, <1>9, <1>10, <1>11, Steps

\* Before any context ends, a message leaves a place for the next one, or is settled.
LEMMA KeptStep ==
  ManagerAssumption /\ TypeInv /\ LifeInv /\ RouteInv /\ DoneInv /\ KeptInv /\ [Next]_vars => KeptInv'
<1> SUFFICES ASSUME ManagerAssumption, TypeInv, LifeInv, RouteInv, DoneInv, KeptInv, [Next]_vars,
                    ctxDone' = {}, NEW m \in Published'
             PROVE  Somewhere(m)' \/ Settled(m)'
  BY DEF KeptInv
<1>k. ctxDone = {} /\ m \in Published => Somewhere(m) \/ Settled(m)
  BY DEF KeptInv
<1>s. ASSUME \A p : Done(p) => Done(p)', skipped \subseteq skipped', Settled(m) PROVE Settled(m)'
  BY <1>s DEF Settled
<1>a. ASSUME UNCHANGED <<busQ, held, queue>>, \A d \in Dispatcher : Holding(d) => Holding(d)',
             \A w \in Worker : Busy(w) => Busy(w)' /\ cur'[w] = cur[w], Somewhere(m)
      PROVE  Somewhere(m)'
  BY <1>a DEF Somewhere
<1>1. ASSUME NEW s \in Sender, SendWithRetry(s) PROVE Somewhere(m)' \/ Settled(m)'
  <2>0. /\ Busy(s) /\ UNCHANGED elsewhere /\ cur[s] \in Piece
        /\ \A t \in Sender : t # s => spc'[t] = spc[t] /\ cur'[t] = cur[t]
        /\ \/ cur'[s] = cur[s] /\ spc'[s] \in {"send", "wait"}
           \/ spc'[s] = "limiter" /\ cur'[s] = <<cur[s][1], cur[s][2] + 1>>
           \/ cur[s][2] = Chunks[cur[s][1]] /\ spc'[s] = IF s \in Worker THEN "idle" ELSE "returned"
    BY <1>1, SendFacts
  <2>1. UNCHANGED <<ctxDone, busQ, disp, held, queue, offered, skipped>>
    BY <2>0 DEF elsewhere, lifeVars, dispVars
  <2>2. /\ \A p : Done(p) => Done(p)'
        /\ spc'[s] \in {"send", "wait"} \/ Cancelled(s) \/ \A p : p = cur[s] => Done(p)'
    BY <1>1, DoneFacts
  <2>3. ctxDone = {} /\ m \in Published /\ \A t : ~Cancelled(t)
    BY <2>1 DEF Published, Cancelled
  <2>4. CASE Settled(m)
    BY <1>s, <2>1, <2>2, <2>4
  <2>5. CASE (\E l \in Lane : m \in At(busQ[l])) \/ (\E d \in Dispatcher : Holding(d) /\ held[d] = m)
             \/ (\E w \in Worker : m \in At(queue[w]))
    BY <2>1, <2>5 DEF Somewhere, Holding
  <2>6. ASSUME NEW w \in Worker, Busy(w), cur[w][1] = m PROVE Somewhere(m)' \/ Settled(m)'
    <3>1. CASE w # s
      <4>1. Busy(w)' /\ cur'[w] = cur[w]
        BY <2>0, <2>6, <3>1, Ids DEF Busy
      <4> QED BY <2>6, <4>1 DEF Somewhere
    <3>2. CASE w = s /\ spc'[s] \in {"send", "wait", "limiter"}
      <4>1. Busy(w)' /\ cur'[w][1] = m
        BY <2>0, <2>6, <3>2 DEF Busy
      <4> QED BY <2>6, <4>1 DEF Somewhere
    <3>3. CASE w = s /\ cur[s][2] = Chunks[cur[s][1]] /\ spc'[s] \notin {"send", "wait", "limiter"}
      <4>1. m \in Message /\ Chunks[m] \in Nat /\ cur[s] = <<m, Chunks[m]>>
        BY <2>0, <2>6, <3>3, Pieces
      <4>2. \A p : p = <<m, Chunks[m]>> => Done(p)'
        BY <2>2, <2>3, <3>3, <4>1
      <4>3. \A k \in 1..Chunks[m] - 1 : Done(<<m, k>>)
        BY <2>0, <2>3, <4>1 DEF DoneInv
      <4>4. \A k \in 1..Chunks[m] : \A p : p = <<m, k>> => Done(p)'
        <5>1. \A k \in 1..Chunks[m] : k \in 1..Chunks[m] - 1 \/ k = Chunks[m]
          BY <4>1
        <5> QED BY <2>2, <4>2, <4>3, <5>1
      <4>5. \A k \in 1..Chunks[m] : Done(<<m, k>>)'
        BY <4>4 DEF Done, Sent
      <4> QED BY <4>5 DEF Settled
    <3> QED BY <2>0, <2>6, <3>1, <3>2, <3>3
  <2> QED BY <1>k, <2>3, <2>4, <2>5, <2>6 DEF Somewhere
<1>2. ASSUME Still, ctxDone = {}, m \in Published => Somewhere(m) \/ Settled(m),
             m \notin Published => \E l \in Lane : m \in At(busQ'[l]),
             Somewhere(m) => Somewhere(m)' \/ m \in skipped'
      PROVE  Somewhere(m)' \/ Settled(m)'
  <2>1. \A p : Done(p) => Done(p)'
    BY <1>2 DEF Still, Done, Sent
  <2>2. Settled(m) => Settled(m)'
    BY <1>2, <1>s, <2>1 DEF Still
  <2>3. m \in skipped' => Settled(m)'
    BY DEF Settled
  <2> QED BY <1>2, <2>2, <2>3 DEF Somewhere
<1>3. CASE ~ \E s \in Sender : SendWithRetry(s)
  <2>1. Still
    BY <1>3, SendOrStill
  <2>2. ctxDone = {}
    BY <2>1 DEF Still
  <2>q. ASSUME m \in Published, Somewhere(m) => Somewhere(m)' \/ m \in skipped'
        PROVE  Somewhere(m)' \/ Settled(m)'
    BY <1>2, <1>k, <2>1, <2>2, <2>q
  <2>3. CASE Boot \/ Restart
    <3>1. /\ \A d \in Dispatcher : Holding(d)' <=> Holding(d)
          /\ \A w \in Worker : ~Busy(w)
          /\ UNCHANGED <<busQ, held, queue, offered>>
      BY <2>3, StartFacts
    <3> QED BY <1>a, <2>q, <3>1 DEF Published
  <2>4. CASE Quiet
    <3>1. UNCHANGED <<busQ, disp, held, spc, cur, queue, offered>>
      BY <2>4 DEF Quiet, dispVars, sendVars
    <3> QED BY <1>a, <2>q, <3>1 DEF Published, Holding, Busy
  <2>5. ASSUME NEW n \in Message, Publish(n) PROVE Somewhere(m)' \/ Settled(m)'
    <3>0. /\ offered' = offered \cup {n} /\ LaneOf[n] \in Lane
          /\ \A l \in Lane : l # LaneOf[n] => busQ'[l] = busQ[l]
          /\ At(busQ'[LaneOf[n]]) = At(busQ[LaneOf[n]]) \cup {n}
          /\ UNCHANGED <<disp, held, spc, cur, queue>>
      BY <2>5, PublishFacts DEF sendVars
    <3>1. CASE m = n
      BY <3>0, <3>1 DEF Somewhere
    <3>2. CASE m # n
      <4>1. m \in Published
        BY <3>0, <3>2 DEF Published
      <4>2. Somewhere(m) => Somewhere(m)'
        BY <3>0 DEF Somewhere, Holding, Busy
      <4> QED BY <2>q, <4>1, <4>2
    <3> QED BY <3>1, <3>2
  <2>6. ASSUME NEW d \in Dispatcher, Subscribe(d) PROVE Somewhere(m)' \/ Settled(m)'
    <3>0. /\ d[2] \in Lane /\ ~Holding(d) /\ Holding(d)'
          /\ At(busQ[d[2]]) = At(busQ'[d[2]]) \cup {held'[d]}
          /\ \A l \in Lane : l # d[2] => busQ'[l] = busQ[l]
          /\ \A e \in Dispatcher : e # d => held'[e] = held[e] /\ disp'[e] = disp[e]
          /\ UNCHANGED <<spc, cur, queue, offered>>
      BY <2>6, SubscribeFacts DEF sendVars
    <3>1. Somewhere(m) => Somewhere(m)'
      <4>1. ASSUME NEW l \in Lane, m \in At(busQ[l]) PROVE Somewhere(m)'
        <5>1. m \in At(busQ'[l]) \/ (Holding(d)' /\ held'[d] = m)
          BY <3>0, <4>1
        <5> QED BY <5>1 DEF Somewhere
      <4>2. ASSUME NEW e \in Dispatcher, Holding(e), held[e] = m PROVE Somewhere(m)'
        <5>1. Holding(e)' /\ held'[e] = m
          BY <3>0, <4>2 DEF Holding
        <5> QED BY <5>1 DEF Somewhere
      <4>3. ASSUME NEW w \in Worker, m \in At(queue[w]) \/ (Busy(w) /\ cur[w][1] = m) PROVE Somewhere(m)'
        BY <3>0, <4>3 DEF Somewhere, Busy
      <4> QED BY <4>1, <4>2, <4>3 DEF Somewhere
    <3> QED BY <2>q, <3>0, <3>1 DEF Published
  <2>7. ASSUME NEW d \in Dispatcher, Drops(d) \/ Finds(d) PROVE Somewhere(m)' \/ Settled(m)'
    <3>0. /\ UNCHANGED <<busQ, held, spc, cur, queue, offered>>
          /\ \A e \in Dispatcher : e # d => disp'[e] = disp[e]
          /\ Holding(d) => Holding(d)' \/ held[d] \in skipped'
      BY <2>2, <2>7, TypeFacts DEF Drops, Finds, sendVars, Holding
    <3>1. Somewhere(m) => Somewhere(m)' \/ m \in skipped'
      <4>1. ASSUME NEW e \in Dispatcher, Holding(e), held[e] = m PROVE Somewhere(m)' \/ m \in skipped'
        <5>1. (Holding(e)' /\ held'[e] = m) \/ m \in skipped'
          BY <3>0, <4>1 DEF Holding
        <5> QED BY <5>1 DEF Somewhere
      <4>2. ASSUME \/ \E l \in Lane : m \in At(busQ[l])
                   \/ \E w \in Worker : m \in At(queue[w]) \/ (Busy(w) /\ cur[w][1] = m)
            PROVE  Somewhere(m)'
        BY <3>0, <4>2 DEF Somewhere, Busy
      <4> QED BY <4>1, <4>2 DEF Somewhere
    <3> QED BY <2>q, <3>0, <3>1 DEF Published
  <2>8. ASSUME NEW d \in Dispatcher, Enqueue(d) PROVE Somewhere(m)' \/ Settled(m)'
    <3>0. PICK w \in Worker :
         /\ At(queue'[w]) = At(queue[w]) \cup {held[d]}
         /\ \A v \in Worker : v # w => queue'[v] = queue[v]
         /\ \A e \in Dispatcher : e # d => disp'[e] = disp[e]
         /\ UNCHANGED <<lifeVars, busQ, held, sendVars, offered, skipped>>
      BY <2>8, EnqueueFacts
    <3>1. UNCHANGED <<busQ, held, spc, cur, offered>>
      BY <3>0 DEF sendVars
    <3>2. Somewhere(m) => Somewhere(m)'
      <4>1. ASSUME NEW e \in Dispatcher, Holding(e), held[e] = m PROVE Somewhere(m)'
        <5>1. (Holding(e)' /\ held'[e] = m) \/ m \in At(queue'[w])
          BY <3>0, <3>1, <4>1 DEF Holding
        <5> QED BY <5>1 DEF Somewhere
      <4>2. ASSUME NEW v \in Worker, m \in At(queue[v]) \/ (Busy(v) /\ cur[v][1] = m) PROVE Somewhere(m)'
        <5>1. m \in At(queue'[v]) \/ (Busy(v)' /\ cur'[v][1] = m)
          BY <3>0, <3>1, <4>2 DEF Busy
        <5> QED BY <5>1 DEF Somewhere
      <4>3. ASSUME \E l \in Lane : m \in At(busQ[l]) PROVE Somewhere(m)'
        BY <3>1, <4>3 DEF Somewhere
      <4> QED BY <4>1, <4>2, <4>3 DEF Somewhere
    <3> QED BY <2>q, <3>1, <3>2 DEF Published
  <2>9. ASSUME NEW w \in Worker, TakeMessage(w) PROVE Somewhere(m)' \/ Settled(m)'
    <3>0. PICK n \in Message :
         /\ ~Busy(w) /\ At(queue[w]) = At(queue'[w]) \cup {n}
         /\ \A v \in Worker : v # w => queue'[v] = queue[v]
         /\ \A s \in Sender : s # w => spc'[s] = spc[s] /\ cur'[s] = cur[s]
         /\ n \in skipped' \/ (spc'[w] = "limiter" /\ cur'[w] = <<n, 1>>)
         /\ UNCHANGED <<lifeVars, dispVars, log, failed, offered>>
      BY <2>9, TakeFacts
    <3>1. UNCHANGED <<busQ, disp, held, offered>>
      BY <3>0 DEF dispVars
    <3>2. Somewhere(m) => Somewhere(m)' \/ m \in skipped'
      <4>1. ASSUME NEW v \in Worker, m \in At(queue[v]) PROVE Somewhere(m)' \/ m \in skipped'
        <5>1. m \in At(queue'[v]) \/ m \in skipped' \/ (Busy(w)' /\ cur'[w][1] = m)
          BY <3>0, <4>1 DEF Busy
        <5> QED BY <5>1 DEF Somewhere
      <4>2. ASSUME NEW v \in Worker, Busy(v) /\ cur[v][1] = m PROVE Somewhere(m)'
        <5>1. Busy(v)' /\ cur'[v][1] = m
          BY <3>0, <4>2, Ids DEF Busy
        <5> QED BY <5>1 DEF Somewhere
      <4>3. ASSUME \/ \E l \in Lane : m \in At(busQ[l])
                   \/ \E d \in Dispatcher : Holding(d) /\ held[d] = m
            PROVE  Somewhere(m)'
        BY <3>1, <4>3 DEF Somewhere, Holding
      <4> QED BY <4>1, <4>2, <4>3 DEF Somewhere
    <3> QED BY <2>q, <3>1, <3>2 DEF Published
  <2>10. ASSUME NEW w \in Worker, WorkerExit(w) PROVE Somewhere(m)' \/ Settled(m)'
    <3>1. UNCHANGED <<busQ, disp, held, cur, queue, offered>> /\ spc[w] = "idle" /\ spc' = [spc EXCEPT ![w] = "exited"]
      BY <2>10 DEF WorkerExit, dispVars
    <3>2. \A v \in Worker : Busy(v) => Busy(v)'
      BY <3>1, TypeFacts DEF Busy
    <3> QED BY <1>a, <2>q, <3>1, <3>2 DEF Published, Holding
  <2>11. ASSUME NEW n \in Direct, SendMessage(n) PROVE Somewhere(m)' \/ Settled(m)'
    <3>1. /\ UNCHANGED <<dispVars, queue>> /\ offered' = offered \cup {n}
          /\ \A s \in Sender : s # <<n>> => spc'[s] = spc[s] /\ cur'[s] = cur[s]
      BY <2>11, SendMessageFacts
    <3>2. \A v \in Worker : spc'[v] = spc[v] /\ cur'[v] = cur[v]
      BY <3>1, Ids
    <3>3. m \in Published /\ UNCHANGED <<busQ, disp, held, queue>>
      BY <3>1 DEF Published, dispVars
    <3> QED BY <1>a, <2>q, <3>2, <3>3 DEF Holding, Busy
  <2> QED BY <1>3, <2>3, <2>4, <2>5, <2>6, <2>7, <2>8, <2>9, <2>10, <2>11, Steps
<1> QED BY <1>1, <1>3
-----------------------------------------------------------------------------
(* The theorems.                                                           *)

ManagerInv ==
    TypeInv /\ LifeInv /\ RouteInv /\ OrderInv /\ DirectInv /\ DoneInv /\ CopyInv /\ PiecesInOrder
    /\ UniqueInv /\ KeptInv

LEMMA ManagerInit == ManagerAssumption /\ Init => ManagerInv
<1> SUFFICES ASSUME ManagerAssumption, Init PROVE ManagerInv
  OBVIOUS
<1>1. /\ offered = {} /\ \A s \in Sender : ~Busy(s)
      /\ \A c \in Channel, l \in Lane : log[c][l] = <<>> /\ DOMAIN log[c][l] = {} /\ At(log[c][l]) = {}
  BY EmptySeq DEF Init, Busy, At
<1>2. Dest \in [Message -> Channel \cup Internal] /\ "text" \in Lane /\ \A m \in Direct : Dest[m] \in Channel
  BY DEF ManagerAssumption
<1>3. DirectInv /\ DoneInv /\ CopyInv
  BY <1>1, <1>2 DEF DirectInv, DoneInv, CopyInv
<1>4. ChannelOrder /\ SendMessageFirst /\ NoHole
  BY <1>1, <1>2 DEF ChannelOrder, SendMessageFirst, NoHole
<1>5. CopiesBounded
  <2>1. \A c \in Channel, l \in Lane : \A p \in At(log[c][l]) : Copies(log[c][l], p) <= MaxRetries + 1
    BY <1>1
  <2> QED BY <2>1 DEF CopiesBounded, Copies, At
<1>6. UniqueInv /\ KeptInv
  BY <1>1 DEF UniqueInv, KeptInv, Published
<1> QED BY <1>3, <1>4, <1>5, <1>6, TypeInit, LifeInit, RouteInit, OrderInit DEF ManagerInv, PiecesInOrder

LEMMA ManagerStep == ManagerAssumption /\ ManagerInv /\ [Next]_vars => ManagerInv'
<1> SUFFICES ASSUME ManagerAssumption, ManagerInv, [Next]_vars PROVE ManagerInv'
  OBVIOUS
<1>0. TypeInv /\ LifeInv /\ RouteInv /\ OrderInv /\ DirectInv /\ DoneInv /\ CopyInv /\ PiecesInOrder /\ UniqueInv /\ KeptInv
  BY DEF ManagerInv
<1>1. TypeInv' /\ LifeInv' /\ RouteInv' /\ OrderInv'
  BY <1>0, TypeStep, LifeStep, RouteStep, OrderStep
<1>2. DirectInv' /\ DoneInv' /\ UniqueInv' /\ KeptInv'
  BY <1>0, DirectStep, DoneStep, UniqueStep, KeptStep
<1>3. CopyInv'
  BY <1>0, <1>1, <1>2, CopyStep DEF OrderInv
<1>4. PiecesInOrder'
  BY <1>0, PiecesStep
<1> QED BY <1>1, <1>2, <1>3, <1>4 DEF ManagerInv

LEMMA Inductive == Spec => []ManagerInv
<1>1. Init => ManagerInv
  BY ManagerAssumption, ManagerInit
<1>2. ManagerInv /\ [Next]_vars => ManagerInv'
  BY ManagerAssumption, ManagerStep
<1> QED BY <1>1, <1>2, PTL DEF Spec

\* The values of the manager, its dispatchers, workers and callers are of the kinds the
\* code declares, for any configuration and any number of reloads.
THEOREM ManagerTypeCorrect == Spec => []TypeOK
<1>1. ManagerInv => TypeOK
  BY DEF ManagerInv, TypeInv
<1> QED BY <1>1, Inductive, PTL

\* When StopAll has returned, or a reload has gone on to the next manager, no worker of the
\* stopped manager is in a Send or begins one.
THEOREM ManagerQuiet == Spec => []QuietAfterStop
<1>1. ManagerInv => QuietAfterStop
  <2>1. LifeInv => QuietAfterStop
    BY DEF LifeInv, Over, QuietAfterStop
  <2> QED BY <2>1 DEF ManagerInv
<1> QED BY <1>1, Inductive, PTL

\* A platform sees published messages in the order of their publication and the chunks of
\* each in order, nothing of what was published after a SendMessage before it, no chunk
\* without those before it, and no chunk more often than it was attempted.
THEOREM ManagerOrder == Spec => []PiecesInOrder
<1>1. ManagerInv => PiecesInOrder
  BY DEF ManagerInv
<1> QED BY <1>1, Inductive, PTL

LEMMA AtMostOne ==
  ASSUME NEW S, \A x, y \in S : x = y
  PROVE  Cardinality(S) <= 1
<1>1. CASE S = {}
  BY <1>1, FS_EmptySet
<1>2. CASE S # {}
  <2>1. PICK x \in S : S = {x}
    BY <1>2
  <2>2. Cardinality(S) = 1
    BY <2>1, FS_Singleton
  <2> QED BY <2>2
<1> QED BY <1>1, <1>2

\* the places of a message, by kind
LEMMA PlaceFacts ==
  ASSUME ManagerAssumption, TypeInv, NEW m
  PROVE  /\ \A x \in Places(m) :
               \/ x \in Lane /\ m \in At(busQ[x])
               \/ x \in Dispatcher /\ Holding(x) /\ held[x] = m
               \/ x \in Worker /\ m \in At(queue[x])
               \/ \E w \in Worker : x = <<w>> /\ Busy(w) /\ cur[w][1] = m
         /\ Somewhere(m) => Places(m) # {}
<1>1. \A w \in Worker : Busy(w) <=> cur[w] # <<>>
  BY TypeFacts, Pieces
<1>2. ASSUME NEW x \in Places(m)
      PROVE  \/ x \in Lane /\ m \in At(busQ[x])
             \/ x \in Dispatcher /\ Holding(x) /\ held[x] = m
             \/ x \in Worker /\ m \in At(queue[x])
             \/ \E w \in Worker : x = <<w>> /\ Busy(w) /\ cur[w][1] = m
  BY <1>1 DEF Places, At, Holding
<1>3. ASSUME NEW l \in Lane, m \in At(busQ[l]) PROVE l \in Places(m)
  BY <1>3 DEF Places, At
<1>4. ASSUME NEW d \in Dispatcher, Holding(d) /\ held[d] = m PROVE d \in Places(m)
  BY <1>4 DEF Places, Holding
<1>5. ASSUME NEW w \in Worker, m \in At(queue[w]) PROVE w \in Places(m)
  BY <1>5 DEF Places, At
<1>6. ASSUME NEW w \in Worker, Busy(w) /\ cur[w][1] = m PROVE <<w>> \in Places(m)
  BY <1>1, <1>6 DEF Places
<1> QED BY <1>2, <1>3, <1>4, <1>5, <1>6 DEF Somewhere

\* Two managers' dispatchers read the same bus, and yet a published message is in one place
\* only; until a context is cancelled it is somewhere, or it was sent or reported as failed.
THEOREM ManagerAccounted == Spec => []Accounted
<1>1. ManagerInv => Accounted
  <2> SUFFICES ASSUME ManagerInv, NEW m \in Published
               PROVE  /\ Cardinality(Places(m)) <= 1
                      /\ ctxDone = {} /\ Places(m) = {} => Settled(m)
    BY DEF Accounted, Published
  <2>0. ManagerAssumption /\ TypeInv /\ RouteInv /\ OrderInv /\ Unique(m) /\ KeptInv
    BY ManagerAssumption DEF ManagerInv, UniqueInv
  <2>1. ASSUME NEW x \in Places(m), NEW y \in Places(m) PROVE x = y
    <3>1. CASE x \in Lane /\ m \in At(busQ[x])
      <4>1. LaneOf[m] = x /\ OffRoad(m)
        BY <2>0, <3>1, BusOnly
      <4>2. \A l \in Lane : m \in At(busQ[l]) => l = x
        BY <2>0, <4>1, BusOnly
      <4> QED BY <2>0, <4>1, <4>2, PlaceFacts DEF OffRoad
    <3>2. CASE y \in Lane /\ m \in At(busQ[y])
      <4>1. LaneOf[m] = y /\ OffRoad(m)
        BY <2>0, <3>2, BusOnly
      <4>2. \A l \in Lane : m \in At(busQ[l]) => l = y
        BY <2>0, <4>1, BusOnly
      <4> QED BY <2>0, <4>1, <4>2, PlaceFacts DEF OffRoad
    <3>3. CASE ~(x \in Lane /\ m \in At(busQ[x])) /\ ~(y \in Lane /\ m \in At(busQ[y]))
      <4>1. \A z \in {x, y} : \/ z \in Dispatcher /\ Holding(z) /\ held[z] = m
                              \/ z \in Worker /\ m \in At(queue[z])
                              \/ \E w \in Worker : z = <<w>> /\ Busy(w) /\ cur[w][1] = m
        BY <2>0, <2>1, <3>3, PlaceFacts
      <4> QED BY <2>0, <4>1 DEF Unique
    <3> QED BY <3>1, <3>2, <3>3
  <2>2. Cardinality(Places(m)) <= 1
    BY <2>1, AtMostOne
  <2>3. ctxDone = {} /\ Places(m) = {} => Settled(m)
    BY <2>0, PlaceFacts DEF KeptInv
  <2> QED BY <2>2, <2>3
<1> QED BY <1>1, Inductive, PTL
=============================================================================
