--------------------------- MODULE AdapterProofs ---------------------------
(***************************************************************************)
(* Proofs about the channel adapters: Pico's sockets, the numbers of QQ's  *)
(* answers, the typing indicator of a chat, whom an adapter listens to,    *)
(* the tables that keep a message from being handled twice, the links of   *)
(* OneBot and native WhatsApp, and WeCom's streams, each for any value of  *)
(* its constants.  The modules share no state, and each theorem is about   *)
(* one of them alone.                                                      *)
(***************************************************************************)
EXTENDS PicoSockets, AdapterCaches, QQReplies, ChannelPresence, ChannelIntake, OneBotLink, NativeLink, WeComStreams,
        FiniteSetTheorems, WellFoundedInduction, TLAPS
-----------------------------------------------------------------------------
(* The sockets of the web chat (PicoSockets).                              *)

PicoPlaces == {"none", "refused", "upgrade", "store", "count", "read", "done"}
Reading(places) == {c \in Conns : places[c] = "read"}

\* The counter is the number of read loops, of which there are finitely many, and a connection
\* is open or in the map only while somebody is at hand who removes it.
PicoInv ==
    /\ socket \in [Conns -> PicoPlaces]
    /\ IsFiniteSet(Reading(socket)) /\ connCount = Cardinality(Reading(socket))
    /\ stored \subseteq Conns /\ open \subseteq Conns
    /\ NoneForgotten

LEMMA PicoInvInit == PicoInit => PicoInv
<1> SUFFICES ASSUME PicoInit PROVE PicoInv
  OBVIOUS
<1>1. Reading(socket) = {}
  BY DEF PicoInit, Reading
<1> QED BY <1>1, FS_EmptySet DEF PicoInit, PicoInv, PicoPlaces, NoneForgotten

\* A step that leaves everybody where he is, or moves c between places where nothing is read,
\* changes nothing about the read loops.
LEMMA ReadingKept ==
  ASSUME PicoInv, NEW c \in Conns, NEW place \in PicoPlaces \ {"read"}, socket[c] # "read",
         socket' = [socket EXCEPT ![c] = place]
  PROVE  socket' \in [Conns -> PicoPlaces] /\ Reading(socket') = Reading(socket)
BY DEF PicoInv, Reading

LEMMA PicoInvStep == PicoInv /\ [PicoNext]_picoVars => PicoInv'
<1> SUFFICES ASSUME PicoInv, [PicoNext]_picoVars PROVE PicoInv'
  OBVIOUS
<1>1. ASSUME UNCHANGED <<socket, open, stored, connCount>> PROVE PicoInv'
  BY <1>1 DEF PicoInv, NoneForgotten, Reading
<1>2. ASSUME NEW c \in Conns, PicoAccept(c) PROVE PicoInv'
  <2>1. PICK place \in PicoPlaces \ {"read"} : socket' = [socket EXCEPT ![c] = place]
    BY <1>2 DEF PicoAccept, PicoPlaces
  <2>2. socket[c] = "none" /\ UNCHANGED <<open, stored, connCount>>
    BY <1>2 DEF PicoAccept
  <2>3. socket' \in [Conns -> PicoPlaces] /\ Reading(socket') = Reading(socket)
    BY <2>1, <2>2, ReadingKept
  <2> QED BY <2>1, <2>2, <2>3 DEF PicoInv, NoneForgotten
<1>3. ASSUME NEW c \in Conns, PicoUpgrade(c) PROVE PicoInv'
  <2>1. PICK place \in {"store", "refused"} : /\ socket' = [socket EXCEPT ![c] = place]
                                              /\ open' = IF place = "store" THEN open \cup {c} ELSE open
    BY <1>3 DEF PicoUpgrade
  <2>2. socket[c] = "upgrade" /\ UNCHANGED <<stored, connCount>>
    BY <1>3 DEF PicoUpgrade
  <2>3. socket' \in [Conns -> PicoPlaces] /\ Reading(socket') = Reading(socket)
    BY <2>1, <2>2, ReadingKept DEF PicoPlaces
  <2> QED BY <2>1, <2>2, <2>3 DEF PicoInv, NoneForgotten
<1>4. ASSUME NEW c \in Conns, PicoStore(c) PROVE PicoInv'
  <2>1. /\ socket[c] = "store" /\ socket' = [socket EXCEPT ![c] = "count"]
        /\ stored' = stored \cup {c} /\ UNCHANGED <<open, connCount>>
    BY <1>4 DEF PicoStore
  <2>2. socket' \in [Conns -> PicoPlaces] /\ Reading(socket') = Reading(socket)
    BY <2>1, ReadingKept DEF PicoPlaces
  <2> QED BY <2>1, <2>2 DEF PicoInv, NoneForgotten
<1>5. ASSUME NEW c \in Conns, PicoCount(c) PROVE PicoInv'
  <2>1. /\ socket[c] = "count" /\ socket' = [socket EXCEPT ![c] = "read"] /\ connCount' = connCount + 1
        /\ UNCHANGED <<open, stored>>
    BY <1>5 DEF PicoCount
  <2>2. Reading(socket') = Reading(socket) \cup {c} /\ c \notin Reading(socket)
    BY <2>1 DEF PicoInv, Reading
  <2>3. IsFiniteSet(Reading(socket)) /\ connCount = Cardinality(Reading(socket))
    BY DEF PicoInv
  <2>4. /\ IsFiniteSet(Reading(socket) \cup {c})
        /\ Cardinality(Reading(socket) \cup {c}) = Cardinality(Reading(socket)) + 1
    BY <2>2, <2>3, FS_AddElement
  <2>5. IsFiniteSet(Reading(socket')) /\ connCount' = Cardinality(Reading(socket'))
    BY <2>1, <2>2, <2>3, <2>4
  <2> QED BY <2>1, <2>5 DEF PicoInv, NoneForgotten, PicoPlaces
<1>6. ASSUME NEW c \in Conns, PicoReadEnds(c) PROVE PicoInv'
  <2>1. /\ socket[c] = "read" /\ socket' = [socket EXCEPT ![c] = "done"] /\ connCount' = connCount - 1
        /\ open' = open \ {c} /\ stored' = stored \ {c}
    BY <1>6 DEF PicoReadEnds
  <2>2. Reading(socket') = Reading(socket) \ {c} /\ c \in Reading(socket)
    BY <2>1 DEF PicoInv, Reading
  <2>3. IsFiniteSet(Reading(socket')) /\ connCount' = Cardinality(Reading(socket'))
    BY <2>1, <2>2, FS_RemoveElement DEF PicoInv
  <2> QED BY <2>1, <2>3 DEF PicoInv, NoneForgotten, PicoPlaces
<1>7. ASSUME NEW c \in Conns, PicoHangUp(c) \/ PicoSweep(c) PROVE PicoInv'
  BY <1>7 DEF PicoHangUp, PicoSweep, PicoInv, NoneForgotten
<1>8. ASSUME PicoStart \/ PicoStop \/ PicoStopped \/ PicoSent PROVE PicoInv'
  BY <1>1, <1>8 DEF PicoStart, PicoStop, PicoStopped, PicoSent
<1>9. ASSUME NEW c \in Conns, PicoWrite(c) PROVE PicoInv'
  BY <1>1, <1>9 DEF PicoWrite
<1>10. ASSUME NEW s \in Sessions, PicoSend(s) PROVE PicoInv'
  BY <1>1, <1>10 DEF PicoSend
<1>11. CASE UNCHANGED picoVars
  BY <1>1, <1>11 DEF picoVars
<1> QED BY <1>2, <1>3, <1>4, <1>5, <1>6, <1>7, <1>8, <1>9, <1>10, <1>11 DEF PicoNext, PicoGoes

\* The counter behind the limit is the number of connections that are read, and no socket is
\* left open that nobody will close: Stop, hang-ups and late handlers in any order
\* (pico.go:244, 274, 316).
THEOREM SeatsKept == PicoSpec => []PicoSound
<1>1. PicoInv => PicoSound
  BY DEF PicoInv, PicoSound, SeatsCounted, Reading
<1> QED BY PicoInvInit, PicoInvStep, <1>1, PTL DEF PicoSpec
-----------------------------------------------------------------------------
(* The numbers of QQ's answers (QQReplies).                                *)

\* Message ids and counters are those of messages that arrived; 0 is none.
ReplyTypes ==
    /\ arrived \in 0..Deliveries /\ lastMsgID \in 0..Deliveries /\ counter \in 0..Deliveries
    /\ handling \in [Handlers -> 0..Deliveries] /\ value \in [0..Deliveries -> Nat]
    /\ replying \in [Senders -> [at : {"id", "seq", "post", "done"}, id : 0..Deliveries, seq : Nat, of : 0..Deliveries]]

\* A number is one that its counter has counted to, and no two calls of Send have the same one.
NumberInv ==
    /\ \A s \in Senders : replying[s].of # 0 => replying[s].seq <= value[replying[s].of]
    /\ \A s, u \in Senders : s # u /\ replying[s].of # 0 /\ replying[s].of = replying[u].of
                               => replying[s].seq # replying[u].seq

\* What was posted is what a Send that is done has read.
PostedInv ==
    \A p \in posted : \E s \in Senders :
        replying[s].at = "done" /\ p = <<s, replying[s].id, replying[s].seq, replying[s].of>>

RepliesInv == ReplyTypes /\ NumberInv /\ PostedInv

LEMMA RepliesInvInit == RepliesAssumption /\ RepliesInit => RepliesInv
BY DEF RepliesAssumption, RepliesInit, RepliesInv, ReplyTypes, NumberInv, PostedInv

LEMMA RepliesInvStep == RepliesAssumption /\ RepliesInv /\ [RepliesNext]_repliesVars => RepliesInv'
<1> SUFFICES ASSUME RepliesAssumption, RepliesInv, [RepliesNext]_repliesVars PROVE RepliesInv'
  OBVIOUS
<1> USE DEF RepliesInv
<1>1. ASSUME NEW h \in Handlers, StoreMsgID(h) \/ StoreCounter(h) PROVE RepliesInv'
  <2>1. UNCHANGED <<value, replying, posted>>
    BY <1>1 DEF StoreMsgID, StoreCounter
  <2>2. arrived' \in 0..Deliveries /\ lastMsgID' \in 0..Deliveries /\ counter' \in 0..Deliveries
    BY <1>1 DEF StoreMsgID, StoreCounter, ReplyTypes, RepliesAssumption
  <2>3. \E n \in 0..Deliveries : handling' = [handling EXCEPT ![h] = n]
    BY <1>1 DEF StoreMsgID, StoreCounter, ReplyTypes, RepliesAssumption
  <2>4. ReplyTypes'
    BY <2>1, <2>2, <2>3 DEF ReplyTypes
  <2> QED BY <2>1, <2>4 DEF NumberInv, PostedInv
<1>2. ASSUME NEW s \in Senders, LoadMsgID(s) PROVE RepliesInv'
  <2>1. /\ replying[s].at = "id" /\ UNCHANGED <<arrived, handling, lastMsgID, counter, value, posted>>
        /\ replying' = [replying EXCEPT ![s] =
               [at |-> IF lastMsgID = 0 THEN "post" ELSE "seq", id |-> lastMsgID, seq |-> 0, of |-> 0]]
    BY <1>2 DEF LoadMsgID
  <2>2. replying'[s].of = 0 /\ \A u \in Senders \ {s} : replying'[u] = replying[u]
    BY <2>1 DEF ReplyTypes
  <2>3. /\ lastMsgID \in 0..Deliveries /\ 0 \in 0..Deliveries /\ 0 \in Nat
        /\ (IF lastMsgID = 0 THEN "post" ELSE "seq") \in {"id", "seq", "post", "done"}
    BY DEF ReplyTypes, RepliesAssumption
  <2>4. ReplyTypes'
    <3> DEFINE r == [at |-> IF lastMsgID = 0 THEN "post" ELSE "seq", id |-> lastMsgID, seq |-> 0, of |-> 0]
    <3>1. r \in [at : {"id", "seq", "post", "done"}, id : 0..Deliveries, seq : Nat, of : 0..Deliveries]
      BY <2>3
    <3>2. replying' = [replying EXCEPT ![s] = r]
      BY <2>1
    <3> HIDE DEF r
    <3> QED BY <2>1, <3>1, <3>2 DEF ReplyTypes
  <2>5. NumberInv'
    BY <2>1, <2>2 DEF NumberInv
  <2>6. PostedInv'
    BY <2>1, <2>2 DEF PostedInv
  <2> QED BY <2>4, <2>5, <2>6
<1>3. ASSUME NEW s \in Senders, LoadCounter(s) PROVE RepliesInv'
  <2>1. /\ replying[s].at = "seq" /\ UNCHANGED <<arrived, handling, lastMsgID, counter, posted>>
        /\ \A u \in Senders \ {s} : replying'[u] = replying[u]
    BY <1>3 DEF LoadCounter, ReplyTypes
  <2>2. CASE counter = 0
    <3>1. UNCHANGED value /\ replying' = [replying EXCEPT ![s].at = "post"]
      BY <1>3, <2>2 DEF LoadCounter
    <3>2. replying'[s].of = replying[s].of /\ replying'[s].seq = replying[s].seq
      BY <3>1 DEF ReplyTypes
    <3>3. ReplyTypes'
      BY <2>1, <3>1 DEF ReplyTypes
    <3>4. NumberInv'
      BY <2>1, <3>1, <3>2 DEF NumberInv
    <3>5. PostedInv'
      BY <2>1 DEF PostedInv
    <3> QED BY <3>3, <3>4, <3>5
  <2>3. CASE counter # 0
    <3>1. /\ value' = [value EXCEPT ![counter] = @ + 1]
          /\ replying' = [replying EXCEPT ![s] = [@ EXCEPT !.at = "post", !.seq = value[counter] + 1, !.of = counter]]
      BY <1>3, <2>3 DEF LoadCounter
    <3>2. replying'[s].of = counter /\ replying'[s].seq = value[counter] + 1
      BY <3>1 DEF ReplyTypes
    <3>3. ReplyTypes'
      <4>1. counter \in 0..Deliveries /\ value[counter] + 1 \in Nat /\ replying[s].id \in 0..Deliveries
        BY DEF ReplyTypes
      <4>2. value' \in [0..Deliveries -> Nat]
        BY <3>1, <4>1 DEF ReplyTypes
      <4> DEFINE r == [replying[s] EXCEPT !.at = "post", !.seq = value[counter] + 1, !.of = counter]
      <4>3. r \in [at : {"id", "seq", "post", "done"}, id : 0..Deliveries, seq : Nat, of : 0..Deliveries]
        BY <4>1 DEF ReplyTypes
      <4>4. replying' = [replying EXCEPT ![s] = r]
        BY <3>1
      <4> HIDE DEF r
      <4>5. replying' \in [Senders -> [at : {"id", "seq", "post", "done"}, id : 0..Deliveries, seq : Nat, of : 0..Deliveries]]
        BY <4>3, <4>4 DEF ReplyTypes
      <4> QED BY <2>1, <4>2, <4>5 DEF ReplyTypes
    <3>4. /\ value'[counter] = value[counter] + 1 /\ value[counter] \in Nat
          /\ \A k \in 0..Deliveries : value[k] \in Nat /\ value'[k] >= value[k]
      BY <3>1 DEF ReplyTypes
    <3>5. \A u \in Senders : replying[u].of \in 0..Deliveries /\ replying[u].seq \in Nat
      BY DEF ReplyTypes
    <3>6. ASSUME NEW u \in Senders, u # s, replying[u].of # 0
          PROVE  /\ replying'[u] = replying[u] /\ replying[u].seq <= value[replying[u].of]
                 /\ replying[u].seq <= value'[replying[u].of]
                 /\ replying[u].of = counter => replying[u].seq < value[counter] + 1
      <4>1. replying'[u] = replying[u] /\ replying[u].seq <= value[replying[u].of]
        BY <2>1, <3>6 DEF NumberInv
      <4>2. replying[u].of \in 0..Deliveries /\ replying[u].seq \in Nat
        BY <3>5
      <4>3. value[replying[u].of] \in Nat /\ value'[replying[u].of] \in Nat /\ value'[replying[u].of] >= value[replying[u].of]
        BY <3>3, <3>4, <4>2 DEF ReplyTypes
      <4> QED BY <4>1, <4>2, <4>3
    <3>7. \A u \in Senders : replying'[u].of # 0 => replying'[u].seq <= value'[replying'[u].of]
      BY <2>1, <3>2, <3>4, <3>6
    <3>8. ASSUME NEW u \in Senders, NEW v \in Senders, u # v, replying'[u].of # 0, replying'[u].of = replying'[v].of
          PROVE  replying'[u].seq # replying'[v].seq
      <4>1. CASE u = s
        BY <2>1, <2>3, <3>2, <3>4, <3>5, <3>6, <3>8, <4>1
      <4>2. CASE v = s
        BY <2>1, <2>3, <3>2, <3>4, <3>5, <3>6, <3>8, <4>2
      <4>3. CASE u # s /\ v # s
        BY <3>6, <3>8, <4>3, <2>1 DEF NumberInv
      <4> QED BY <4>1, <4>2, <4>3
    <3>9. NumberInv'
      BY <3>7, <3>8 DEF NumberInv
    <3>10. PostedInv'
      BY <2>1 DEF PostedInv
    <3> QED BY <3>3, <3>9, <3>10
  <2> QED BY <2>2, <2>3
<1>4. ASSUME NEW s \in Senders, PostMessage(s) PROVE RepliesInv'
  <2>1. /\ replying[s].at = "post" /\ UNCHANGED <<arrived, handling, lastMsgID, counter, value>>
        /\ posted' = posted \cup {<<s, replying[s].id, replying[s].seq, replying[s].of>>}
        /\ replying' = [replying EXCEPT ![s].at = "done"]
    BY <1>4 DEF PostMessage
  <2>2. /\ \A u \in Senders : /\ replying'[u].id = replying[u].id /\ replying'[u].seq = replying[u].seq
                              /\ replying'[u].of = replying[u].of
                              /\ replying[u].at = "done" => replying'[u].at = "done"
        /\ replying'[s].at = "done"
    BY <2>1 DEF ReplyTypes
  <2>3. ReplyTypes'
    BY <2>1 DEF ReplyTypes
  <2>4. NumberInv'
    BY <2>1, <2>2 DEF NumberInv
  <2>5. PostedInv'
    BY <2>1, <2>2 DEF PostedInv
  <2> QED BY <2>3, <2>4, <2>5
<1>5. CASE UNCHANGED repliesVars
  BY <1>5 DEF repliesVars, ReplyTypes, NumberInv, PostedInv
<1> QED BY <1>1, <1>2, <1>3, <1>4, <1>5 DEF RepliesNext

\* Answers to one message that its own counter numbered have numbers of their own, so that the
\* platform drops none of them (qq.go:208), whatever handlers and sends cross.
THEOREM RepliesNumbered == ASSUME RepliesAssumption PROVE RepliesSpec => []NumbersUnique
<1>1. ASSUME RepliesInv PROVE NumbersUnique
  <2> SUFFICES ASSUME NEW p \in posted, NEW q \in posted,
                      p[1] # q[1], p[2] = q[2], p[4] = p[2], q[4] = q[2], p[2] # 0
               PROVE  p[3] # q[3]
    BY DEF NumbersUnique
  <2>1. PICK s \in Senders : p = <<s, replying[s].id, replying[s].seq, replying[s].of>>
    BY <1>1 DEF RepliesInv, PostedInv
  <2>2. PICK u \in Senders : q = <<u, replying[u].id, replying[u].seq, replying[u].of>>
    BY <1>1 DEF RepliesInv, PostedInv
  <2>3. s # u /\ replying[s].of # 0 /\ replying[s].of = replying[u].of
    BY <2>1, <2>2
  <2> QED BY <1>1, <2>1, <2>2, <2>3 DEF RepliesInv, NumberInv
<1>2. RepliesAssumption
  OBVIOUS
<1> QED BY <1>1, <1>2, RepliesInvInit, RepliesInvStep, PTL DEF RepliesSpec
-----------------------------------------------------------------------------
(* The typing indicator of a chat (ChannelPresence).                       *)

Entries == Incoming \cup {NoEntry}
HandlerRec == [at : Kinds \cup {"record typing", "record reaction", "record placeholder", "stop previous", "publish"},
               old : Entries]
AnswerRec  == [at : Kinds \cup {"publish"}, took : Entries]
PresenceTypes ==
    /\ adapter \in {"per_call", "per_session", "per_chat"}
    /\ handler \in [Incoming -> HandlerRec]
    /\ recorded \in [Kinds -> Entries] /\ aged \subseteq Incoming
    /\ showing \in [Kinds -> SUBSET Incoming]
    /\ answer \in [Answerers -> AnswerRec]
    /\ janitor \in {<<>>} \cup (Kinds \X Incoming)

\* Only who has replaced an entry holds one.
HeldInv == \A m \in Incoming : handler[m].at # "stop previous" => handler[m].old = NoEntry

\* Who still has to end the typing indicator of m, the janitor not counted: what it has seen is
\* still recorded, or somebody else has it by now.
Charged(m, h, r, a) ==
    \/ r["typing"] = m
    \/ h[m].at = "record typing"
    \/ \E n \in Incoming : h[n].old = m
    \/ \E w \in Answerers : a[w].at = "typing" /\ a[w].took = m

ChargedInv ==
    \A m \in showing["typing"] : Charged(m, handler, recorded, answer) \/ <<"typing", m>> \in swept

PresenceInv == PresenceTypes /\ HeldInv /\ ChargedInv

LEMMA PresenceInvInit == PresenceInit => PresenceInv
<1> SUFFICES ASSUME PresenceInit PROVE PresenceInv
  OBVIOUS
<1>1. handler \in [Incoming -> HandlerRec] /\ answer \in [Answerers -> AnswerRec]
  BY DEF PresenceInit, HandlerRec, AnswerRec, Entries, Kinds
<1>2. recorded \in [Kinds -> Entries] /\ showing \in [Kinds -> SUBSET Incoming] /\ showing["typing"] = {}
  BY DEF PresenceInit, Entries, Kinds
<1>3. PresenceTypes
  BY <1>1, <1>2 DEF PresenceInit, PresenceTypes
<1> QED BY <1>2, <1>3 DEF PresenceInit, PresenceInv, HeldInv, ChargedInv

\* What ends an indicator leaves at most the indicators of the other messages.
LEMMA EndedLess ==
  ASSUME PresenceTypes, NEW k \in Kinds, NEW m
  PROVE  /\ Ended(k, m) \in [Kinds -> SUBSET Incoming]
         /\ Ended(k, m)["typing"] \subseteq showing["typing"]
         /\ k = "typing" => m \notin Ended(k, m)["typing"]
BY DEF PresenceTypes, Ended, Stopped, Kinds

LEMMA PresenceInvStep == PresenceAssumption /\ PresenceInv /\ [PresenceNext]_presenceVars => PresenceInv'
<1> SUFFICES ASSUME PresenceAssumption, PresenceInv, [PresenceNext]_presenceVars PROVE PresenceInv'
  OBVIOUS
<1> USE DEF PresenceInv
<1>k. Kinds = {"typing", "reaction", "placeholder"}
  BY DEF Kinds
<1>0. \A m \in showing["typing"] : m \in Incoming /\ m # NoEntry
  BY <1>k DEF PresenceTypes, PresenceAssumption
<1>h. ASSUME NEW m \in Incoming, NEW place, handler' = [handler EXCEPT ![m].at = place]
      PROVE  /\ handler'[m].at = place
             /\ \A n \in Incoming : handler'[n].old = handler[n].old
             /\ \A n \in Incoming \ {m} : handler'[n] = handler[n]
             /\ place \in Kinds \cup {"record typing", "record reaction", "record placeholder", "publish"} =>
                  handler' \in [Incoming -> HandlerRec]
  <2>1. handler \in [Incoming -> HandlerRec]
    BY DEF PresenceTypes
  <2>2. \A n \in Incoming : handler'[n] = IF n = m THEN [handler[n] EXCEPT !.at = place] ELSE handler[n]
    BY <1>h, <2>1
  <2>3. handler[m].old \in Entries /\ handler'[m].at = place /\ handler'[m].old = handler[m].old
    BY <2>1, <2>2 DEF HandlerRec
  <2>4. ASSUME place \in Kinds \cup {"record typing", "record reaction", "record placeholder", "publish"}
        PROVE  handler' \in [Incoming -> HandlerRec]
    <3>1. [handler[m] EXCEPT !.at = place] \in HandlerRec
      BY <2>1, <2>4 DEF HandlerRec
    <3> QED BY <1>h, <2>1, <3>1
  <2> QED BY <2>2, <2>3, <2>4
<1>1. ASSUME NEW m \in Incoming, Show(m) PROVE PresenceInv'
  <2>1. handler[m].at \in Kinds /\ UNCHANGED <<adapter, recorded, aged, answer, janitor, swept>>
    BY <1>1 DEF Show
  <2>2. \/ /\ showing' = [showing EXCEPT ![handler[m].at] =
                            IF handler[m].at = "typing" THEN Started(m) ELSE @ \cup {m}]
           /\ handler' = [handler EXCEPT ![m].at = Records[handler[m].at]]
        \/ handler' = [handler EXCEPT ![m].at = Follows(handler[m].at)] /\ UNCHANGED showing
    BY <1>1 DEF Show
  <2>3. /\ Records["typing"] = "record typing" /\ Records["reaction"] = "record reaction"
        /\ Records["placeholder"] = "record placeholder" /\ Follows("typing") = "reaction"
        /\ Follows("reaction") = "placeholder" /\ Follows("placeholder") = "publish"
    BY DEF Records, Follows
  <2>4. PICK next \in Kinds \cup {"record typing", "record reaction", "record placeholder", "publish"} :
            handler' = [handler EXCEPT ![m].at = next]
    BY <2>1, <2>2, <2>3, <1>k
  <2>5. /\ \A n \in Incoming : handler'[n].old = handler[n].old
        /\ \A n \in Incoming \ {m} : handler'[n] = handler[n]
        /\ handler'[m].at = next /\ handler[m].at # "stop previous" /\ handler[m].at # "record typing"
    BY <2>1, <2>4, <1>k, <1>h
  <2>6. PresenceTypes'
    <3>1. showing' \in [Kinds -> SUBSET Incoming]
      <4>1. showing \in [Kinds -> SUBSET Incoming] /\ Started(m) \subseteq Incoming
        BY <1>k DEF PresenceTypes, Started
      <4>2. \E T \in SUBSET Incoming : showing' = [showing EXCEPT ![handler[m].at] = T] \/ UNCHANGED showing
        <5>1. showing[handler[m].at] \subseteq Incoming
          BY <2>1, <4>1
        <5> QED BY <2>2, <4>1, <5>1
      <4> QED BY <4>1, <4>2
    <3>2. handler' \in [Incoming -> HandlerRec]
      BY <2>4, <1>h
    <3> QED BY <2>1, <3>1, <3>2 DEF PresenceTypes
  <2>7. HeldInv'
    BY <2>5, <1>k DEF HeldInv
  <2>8. ASSUME NEW n \in showing'["typing"]
        PROVE  Charged(n, handler', recorded', answer') \/ <<"typing", n>> \in swept'
    <3>1. n \in Incoming
      BY <2>6, <1>k DEF PresenceTypes
    <3>2. CASE n \in showing["typing"]
      <4>1. Charged(n, handler, recorded, answer) \/ <<"typing", n>> \in swept
        BY <3>2 DEF ChargedInv
      <4>2. handler[n].at = "record typing" => handler'[n].at = "record typing"
        BY <2>5, <3>1
      <4> QED BY <4>1, <4>2, <2>1, <2>5 DEF Charged
    <3>3. CASE n \notin showing["typing"]
      <4>1. /\ handler' = [handler EXCEPT ![m].at = Records[handler[m].at]]
            /\ showing' = [showing EXCEPT ![handler[m].at] =
                            IF handler[m].at = "typing" THEN Started(m) ELSE @ \cup {m}]
        BY <2>2, <3>3
      <4>2. handler[m].at = "typing"
        BY <2>1, <3>3, <4>1, <1>k DEF PresenceTypes
      <4>3. n = m
        BY <3>3, <4>1, <4>2, <1>k DEF PresenceTypes, Started
      <4>4. handler'[n].at = "record typing"
        BY <4>1, <4>2, <4>3, <2>3, <1>h
      <4> QED BY <4>4 DEF Charged
    <3> QED BY <3>2, <3>3
  <2>9. ChargedInv'
    BY <2>8 DEF ChargedInv
  <2> QED BY <2>6, <2>7, <2>9
<1>2. ASSUME NEW m \in Incoming, RecordTypingStop(m), handler[m].at = "record typing" PROVE PresenceInv'
  <2>1. /\ recorded' = [recorded EXCEPT !["typing"] = m]
        /\ UNCHANGED <<adapter, aged, showing, answer, janitor, swept>>
        /\ handler' = [handler EXCEPT ![m] =
              [at |-> IF recorded["typing"] = NoEntry THEN "reaction" ELSE "stop previous", old |-> recorded["typing"]]]
    BY <1>2 DEF RecordTypingStop
  <2>2. /\ handler'[m].old = recorded["typing"] /\ recorded'["typing"] = m
        /\ handler'[m].at = IF recorded["typing"] = NoEntry THEN "reaction" ELSE "stop previous"
        /\ \A n \in Incoming \ {m} : handler'[n] = handler[n]
        /\ handler[m].old = NoEntry
    BY <2>1, <1>2, <1>k DEF PresenceTypes, HeldInv
  <2>3. PresenceTypes'
    <3> DEFINE r == [at |-> IF recorded["typing"] = NoEntry THEN "reaction" ELSE "stop previous", old |-> recorded["typing"]]
    <3>1. r \in HandlerRec
      BY <1>k DEF PresenceTypes, HandlerRec
    <3>2. handler' = [handler EXCEPT ![m] = r] /\ m \in Entries
      BY <2>1 DEF Entries
    <3> HIDE DEF r
    <3>3. handler' \in [Incoming -> HandlerRec]
      BY <3>1, <3>2 DEF PresenceTypes
    <3> QED BY <2>1, <3>2, <3>3 DEF PresenceTypes
  <2>4. HeldInv'
    BY <2>2 DEF HeldInv
  <2>5. ASSUME NEW n \in showing["typing"]
        PROVE  Charged(n, handler', recorded', answer') \/ <<"typing", n>> \in swept'
    <3>1. Charged(n, handler, recorded, answer) \/ <<"typing", n>> \in swept
      BY DEF ChargedInv
    <3>2. n \in Incoming /\ n # NoEntry
      BY <1>0
    <3>3. CASE \E q \in Incoming : handler[q].old = n
      BY <2>2, <3>2, <3>3 DEF Charged
    <3>4. CASE handler[n].at = "record typing"
      BY <2>2, <3>2, <3>4 DEF Charged
    <3> QED BY <2>1, <2>2, <3>1, <3>3, <3>4 DEF Charged
  <2>6. ChargedInv'
    BY <2>1, <2>5 DEF ChargedInv
  <2> QED BY <2>3, <2>4, <2>6
<1>3. ASSUME NEW m \in Incoming, RecordTypingStop(m), handler[m].at # "record typing" PROVE PresenceInv'
  <2>1. /\ handler[m].at = "stop previous" /\ showing' = Ended("typing", handler[m].old)
        /\ UNCHANGED <<adapter, recorded, aged, answer, janitor, swept>>
        /\ handler' = [handler EXCEPT ![m] = [at |-> "reaction", old |-> NoEntry]]
    BY <1>3 DEF RecordTypingStop
  <2>2. /\ handler'[m].old = NoEntry /\ handler'[m].at = "reaction"
        /\ \A n \in Incoming \ {m} : handler'[n] = handler[n]
    BY <2>1 DEF PresenceTypes
  <2>3. /\ showing' \in [Kinds -> SUBSET Incoming] /\ showing'["typing"] \subseteq showing["typing"]
        /\ handler[m].old \notin showing'["typing"]
    BY <2>1, <1>k, EndedLess
  <2>4. PresenceTypes'
    <3>1. handler' \in [Incoming -> HandlerRec]
      BY <2>1 DEF PresenceTypes, Entries, Kinds, HandlerRec
    <3> QED BY <2>1, <2>3, <3>1 DEF PresenceTypes
  <2>5. HeldInv'
    BY <2>2 DEF HeldInv
  <2>6. ASSUME NEW n \in showing'["typing"]
        PROVE  Charged(n, handler', recorded', answer') \/ <<"typing", n>> \in swept'
    <3>1. Charged(n, handler, recorded, answer) \/ <<"typing", n>> \in swept
      BY <2>3 DEF ChargedInv
    <3>2. n \in Incoming /\ n # handler[m].old
      BY <1>0, <2>3
    <3>3. handler[n].at = "record typing" => handler'[n].at = "record typing"
      BY <2>1, <2>2, <3>2
    <3> QED BY <2>1, <2>2, <3>1, <3>2, <3>3 DEF Charged
  <2>7. ChargedInv'
    BY <2>6 DEF ChargedInv
  <2> QED BY <2>4, <2>5, <2>7
<1>4. ASSUME NEW m \in Incoming, RecordReactionUndo(m) \/ RecordPlaceholder(m) PROVE PresenceInv'
  <2>1. PICK k \in {"reaction", "placeholder"}, next \in {"placeholder", "publish"} :
            /\ handler[m].at \in {"record reaction", "record placeholder"} /\ handler' = [handler EXCEPT ![m].at = next]
            /\ recorded' = [recorded EXCEPT ![k] = m] /\ UNCHANGED <<adapter, aged, showing, answer, janitor, swept>>
    BY <1>4 DEF RecordReactionUndo, RecordPlaceholder
  <2>2. /\ \A n \in Incoming : handler'[n].old = handler[n].old
        /\ \A n \in Incoming \ {m} : handler'[n] = handler[n]
        /\ handler'[m].at = next
    BY <2>1, <1>h
  <2>3. recorded'["typing"] = recorded["typing"] /\ recorded' \in [Kinds -> Entries]
    BY <2>1, <1>k DEF PresenceTypes, Entries
  <2>4. next \in Kinds \cup {"record typing", "record reaction", "record placeholder", "publish"}
    BY <2>1, <1>k
  <2>5. handler' \in [Incoming -> HandlerRec]
    BY <2>1, <2>4, <1>h
  <2>6. PresenceTypes'
    BY <2>1, <2>3, <2>5 DEF PresenceTypes
  <2>7. HeldInv'
    BY <2>1, <2>2 DEF HeldInv
  <2>8. ASSUME NEW n \in showing["typing"]
        PROVE  Charged(n, handler', recorded', answer') \/ <<"typing", n>> \in swept'
    <3>1. Charged(n, handler, recorded, answer) \/ <<"typing", n>> \in swept
      BY DEF ChargedInv
    <3>2. handler[n].at = "record typing" => handler'[n].at = "record typing"
      BY <1>0, <2>1, <2>2
    <3> QED BY <2>1, <2>2, <2>3, <3>1, <3>2 DEF Charged
  <2>9. ChargedInv'
    BY <2>1, <2>8 DEF ChargedInv
  <2> QED BY <2>6, <2>7, <2>9
<1>5. ASSUME NEW w \in Answerers, PreSend(w) PROVE PresenceInv'
  <2> DEFINE k == answer[w].at
  <2>1. k \in Kinds /\ UNCHANGED <<adapter, handler, aged, janitor, swept>>
    BY <1>5 DEF PreSend
  <2>2. Follows(k) \in Kinds \cup {"publish"}
    BY <2>1, <1>k DEF Follows
  <2>3. CASE /\ answer[w].took = NoEntry /\ recorded[k] # NoEntry
             /\ answer' = [answer EXCEPT ![w].took = recorded[k]]
             /\ recorded' = [recorded EXCEPT ![k] = NoEntry] /\ UNCHANGED showing
    <3>1. /\ answer'[w].at = k /\ answer'[w].took = recorded[k] /\ recorded'[k] = NoEntry
          /\ \A v \in Answerers \ {w} : answer'[v] = answer[v]
          /\ \A j \in Kinds \ {k} : recorded'[j] = recorded[j]
      BY <2>1, <2>3 DEF PresenceTypes
    <3>2. PresenceTypes'
      <4>1. recorded' \in [Kinds -> Entries]
        BY <2>1, <2>3 DEF PresenceTypes, Entries
      <4>2. recorded[k] \in Entries
        BY <2>1 DEF PresenceTypes
      <4>3. answer' \in [Answerers -> AnswerRec]
        BY <2>3, <4>2 DEF PresenceTypes, AnswerRec
      <4> QED BY <2>1, <2>3, <4>1, <4>3 DEF PresenceTypes
    <3>3. HeldInv'
      BY <2>1 DEF HeldInv
    <3>4. ASSUME NEW n \in showing["typing"]
          PROVE  Charged(n, handler', recorded', answer') \/ <<"typing", n>> \in swept'
      <4>1. Charged(n, handler, recorded, answer) \/ <<"typing", n>> \in swept
        BY DEF ChargedInv
      <4>2. n # NoEntry
        BY <1>0
      <4>3. CASE recorded["typing"] = n
        BY <2>1, <3>1, <4>3, <1>k DEF Charged
      <4>4. CASE \E v \in Answerers : answer[v].at = "typing" /\ answer[v].took = n
        BY <2>3, <3>1, <4>2, <4>4 DEF Charged
      <4> QED BY <2>1, <4>1, <4>3, <4>4 DEF Charged
    <3>5. ChargedInv'
      BY <2>3, <3>4 DEF ChargedInv
    <3> QED BY <3>2, <3>3, <3>5
  <2>4. CASE /\ answer[w].took = NoEntry /\ answer' = [answer EXCEPT ![w].at = Follows(k)]
             /\ UNCHANGED <<recorded, showing>>
    <3>1. \A v \in Answerers \ {w} : answer'[v] = answer[v]
      BY <2>4 DEF PresenceTypes
    <3>2. PresenceTypes'
      BY <2>1, <2>2, <2>4 DEF PresenceTypes, AnswerRec
    <3>3. HeldInv'
      BY <2>1 DEF HeldInv
    <3>4. ASSUME NEW n \in showing["typing"]
          PROVE  Charged(n, handler', recorded', answer') \/ <<"typing", n>> \in swept'
      <4>1. Charged(n, handler, recorded, answer) \/ <<"typing", n>> \in swept
        BY DEF ChargedInv
      <4>2. n # NoEntry
        BY <1>0
      <4> QED BY <2>1, <2>4, <3>1, <4>1, <4>2 DEF Charged
    <3>5. ChargedInv'
      BY <2>4, <3>4 DEF ChargedInv
    <3> QED BY <3>2, <3>3, <3>5
  <2>5. CASE /\ answer[w].took # NoEntry /\ answer' = [answer EXCEPT ![w] = [at |-> Follows(k), took |-> NoEntry]]
             /\ (showing' = Ended(k, answer[w].took) \/ (k = "placeholder" /\ UNCHANGED showing))
             /\ UNCHANGED recorded
    <3>1. \A v \in Answerers \ {w} : answer'[v] = answer[v]
      BY <2>5 DEF PresenceTypes
    <3>2. /\ showing' \in [Kinds -> SUBSET Incoming] /\ showing'["typing"] \subseteq showing["typing"]
          /\ k = "typing" => answer[w].took \notin showing'["typing"]
      BY <2>1, <2>5, EndedLess DEF PresenceTypes
    <3>3. PresenceTypes'
      <4>1. answer' \in [Answerers -> AnswerRec]
        BY <2>2, <2>5 DEF PresenceTypes, Entries, AnswerRec
      <4> QED BY <2>1, <2>5, <3>2, <4>1 DEF PresenceTypes
    <3>4. HeldInv'
      BY <2>1 DEF HeldInv
    <3>5. ASSUME NEW n \in showing'["typing"]
          PROVE  Charged(n, handler', recorded', answer') \/ <<"typing", n>> \in swept'
      <4>1. Charged(n, handler, recorded, answer) \/ <<"typing", n>> \in swept
        BY <3>2 DEF ChargedInv
      <4> QED BY <2>1, <2>5, <3>1, <3>2, <4>1 DEF Charged
    <3>6. ChargedInv'
      BY <3>5 DEF ChargedInv
    <3> QED BY <3>3, <3>4, <3>6
  <2> HIDE DEF k
  <2>6. QED
    <3> USE DEF k
    <3> QED BY <1>5, <2>3, <2>4, <2>5 DEF PreSend
<1>6. CASE Ages
  <2>1. aged' \subseteq Incoming
    <3>1. aged' = {recorded[k] : k \in Kinds} \ {NoEntry}
      BY <1>6 DEF Ages
    <3>2. \A k \in Kinds : recorded[k] \in Incoming \cup {NoEntry}
      BY DEF PresenceTypes, Entries
    <3> QED BY <3>1, <3>2
  <2> QED BY <1>6, <2>1 DEF Ages, PresenceTypes, HeldInv, ChargedInv, Charged
<1>7. ASSUME NEW k \in Kinds, JanitorSees(k) PROVE PresenceInv'
  <2>1. /\ recorded[k] \in aged /\ UNCHANGED <<adapter, handler, aged, showing, answer, swept>>
        /\ \/ k = "placeholder" /\ recorded' = [recorded EXCEPT ![k] = NoEntry] /\ UNCHANGED janitor
           \/ janitor' = <<k, recorded[k]>> /\ UNCHANGED recorded
    BY <1>7 DEF JanitorSees
  <2>2. recorded'["typing"] = recorded["typing"]
    BY <2>1, <1>k DEF PresenceTypes
  <2>3. recorded' \in [Kinds -> Entries]
    BY <2>1 DEF PresenceTypes, Entries
  <2>4. janitor' \in {<<>>} \cup (Kinds \X Incoming)
    BY <2>1 DEF PresenceTypes
  <2>5. PresenceTypes'
    BY <2>1, <2>3, <2>4 DEF PresenceTypes
  <2> QED BY <2>1, <2>2, <2>5 DEF HeldInv, ChargedInv, Charged
<1>8. CASE JanitorTakes
  <2> DEFINE k == janitor[1]
             m == janitor[2]
  <2>1. k \in Kinds /\ m \in Incoming
    BY <1>8 DEF JanitorTakes, PresenceTypes
  <2>2. UNCHANGED <<adapter, handler, aged, answer>> /\ janitor' = <<>>
    BY <1>8 DEF JanitorTakes
  <2>3. CASE recorded[k] = NoEntry
    <3>1. UNCHANGED <<recorded, showing, swept>>
      BY <1>8, <2>3 DEF JanitorTakes
    <3> QED BY <2>2, <3>1 DEF PresenceTypes, HeldInv, ChargedInv
  <2>4. CASE recorded[k] # NoEntry
    <3>1. /\ recorded' = [recorded EXCEPT ![k] = NoEntry] /\ showing' = Ended(k, m)
          /\ swept' = swept \cup ({<<k, recorded[k]>>} \ {<<k, m>>})
      BY <1>8, <2>4 DEF JanitorTakes
    <3> HIDE DEF k, m
    <3>2. /\ showing' \in [Kinds -> SUBSET Incoming] /\ showing'["typing"] \subseteq showing["typing"]
          /\ k = "typing" => m \notin showing'["typing"]
      BY <2>1, <3>1, EndedLess
    <3>3. PresenceTypes'
      BY <2>1, <2>2, <3>1, <3>2 DEF PresenceTypes, Entries
    <3>4. HeldInv'
      BY <2>2 DEF HeldInv
    <3>5. ASSUME NEW n \in showing'["typing"]
          PROVE  Charged(n, handler', recorded', answer') \/ <<"typing", n>> \in swept'
      <4>1. Charged(n, handler, recorded, answer) \/ <<"typing", n>> \in swept
        BY <3>2 DEF ChargedInv
      <4>2. CASE recorded["typing"] = n /\ k = "typing"
        <5>1. <<k, recorded[k]>> = <<"typing", n>> /\ n # m
          BY <3>2, <4>2
        <5> QED BY <3>1, <5>1
      <4>3. CASE ~(recorded["typing"] = n /\ k = "typing")
        <5>1. recorded["typing"] = n => recorded'["typing"] = n
          BY <2>1, <3>1, <4>3, <1>k DEF PresenceTypes
        <5> QED BY <2>2, <3>1, <4>1, <5>1 DEF Charged
      <4> QED BY <4>2, <4>3
    <3>6. ChargedInv'
      BY <3>5 DEF ChargedInv
    <3> QED BY <3>3, <3>4, <3>6
  <2> QED BY <2>3, <2>4
<1>9. ASSUME NEW m \in Incoming, TypingFades(m) PROVE PresenceInv'
  <2>1. /\ showing' = [showing EXCEPT !["typing"] = @ \ {m}]
        /\ UNCHANGED <<adapter, handler, recorded, aged, answer, janitor, swept>>
    BY <1>9 DEF TypingFades
  <2>2. showing' \in [Kinds -> SUBSET Incoming] /\ showing'["typing"] \subseteq showing["typing"]
    BY <2>1, <1>k DEF PresenceTypes
  <2> QED BY <2>1, <2>2 DEF PresenceTypes, HeldInv, ChargedInv, Charged
<1>10. CASE UNCHANGED presenceVars
  BY <1>10 DEF presenceVars, PresenceTypes, HeldInv, ChargedInv, Charged
<1> QED BY <1>1, <1>2, <1>3, <1>4, <1>5, <1>6, <1>7, <1>8, <1>9, <1>10 DEF PresenceNext, Handling

\* A typing indicator is never left running with nobody to stop it, whatever handlers, answers
\* and janitor cross (manager.go:128), except for the one the janitor takes for another.
THEOREM TypingEnds == ASSUME PresenceAssumption PROVE PresenceSpec => []NoneLeftTyping
<1>1. PresenceInv => NoneLeftTyping
  BY DEF PresenceInv, ChargedInv, Charged, NoneLeftTyping, InCharge, Records
<1>2. PresenceAssumption
  OBVIOUS
<1> QED BY <1>1, <1>2, PresenceInvInit, PresenceInvStep, PTL DEF PresenceSpec
-----------------------------------------------------------------------------
(* What the adapters let through (ChannelIntake).                          *)

\* Only a platform's event that was handled has anything to answer for.
IntakeInv == event \in Events /\ (willAnswer = Nothing \/ IntakeSound)

\* HandleMessage publishes nothing of a stranger, and downloads only what the adapter hands it.
LEMMA OnlyListedPublished ==
  ASSUME NEW e, NEW chat, NEW id, NEW text, NEW media
  PROVE  /\ HandleMessage(e, chat, id, text, media).out # {} => e.listed
         /\ ~HandleMessage(e, chat, id, text, media).noted
BY DEF HandleMessage

LEMMA IntakeInvStep == IntakeInv /\ [IntakeNext]_intakeVars => IntakeInv'
<1> SUFFICES ASSUME IntakeInv, [IntakeNext]_intakeVars PROVE IntakeInv'
  OBVIOUS
<1>0. CASE UNCHANGED intakeVars
  BY <1>0 DEF intakeVars, IntakeInv, IntakeSound, OnlyInvited, NothingForStrangers
<1>e. IntakeNext => event' = event
  BY DEF IntakeNext, Handle, Telegram, Discord, Slack, SlackApp, SlackCmd, Line, QQ, IRC,
         DingTalk, MaixCam, Feishu, WhatsApp, Native, Pico, OneBot, Matrix, WeCom, WeComApp, AIBot
<1> SUFFICES ASSUME IntakeNext PROVE IntakeSound'
  BY <1>0, <1>e DEF IntakeInv
<1>1. event \in Events /\ event' = event
  BY <1>e DEF IntakeInv
<1>2. /\ event.self \in BOOLEAN /\ event.listed \in BOOLEAN /\ event.group \in BOOLEAN
      /\ event.mention \in BOOLEAN /\ event.prefix \in BOOLEAN
  BY <1>1 DEF Events
<1> DEFINE Sound(a, r) ==
      /\ r.out # {} /\ a \notin {"whatsapp", "whatsapp_native", "matrix_unsure"} =>
           /\ event.listed /\ ~event.self
           /\ event.group => event.mention \/ event.trigger = "open" \/ event.prefix \/ a = "slack_command"
      /\ a \in {"telegram", "discord", "slack", "slack_mention", "feishu", "onebot", "irc"} /\ ~event.listed =>
           r.out = {} /\ ~r.fetched /\ ~r.noted
<1>3. ASSUME NEW a, NEW r, Handle(a, r), Sound(a, r) PROVE IntakeSound'
  BY <1>1, <1>3 DEF Handle, IntakeSound, OnlyInvited, NothingForStrangers
<1> HIDE DEF Sound
<1> USE <1>1, <1>2, <1>3, OnlyListedPublished DEF Ignored, ShouldRespondInGroup
<1>4. CASE Telegram
  <2>1. Sound("telegram", TelegramMessage(event))
    BY <1>4 DEF Telegram, TelegramMessage, Sound
  <2> QED BY <1>4, <2>1 DEF Telegram
<1>5. CASE Discord
  <2>1. Sound("discord", DiscordMessage(event))
    BY <1>5 DEF Discord, DiscordMessage, Sound
  <2> QED BY <1>5, <2>1 DEF Discord
<1>6. CASE Slack
  <2>1. Sound("slack", SlackMessage(event))
    BY <1>6 DEF Slack, SlackMessage, Sound
  <2> QED BY <1>6, <2>1 DEF Slack
<1>7. CASE SlackApp
  <2>1. Sound("slack_mention", SlackMention(event))
    BY <1>7 DEF SlackApp, SlackMention, Sound
  <2> QED BY <1>7, <2>1 DEF SlackApp
<1>8. CASE SlackCmd
  <2>1. Sound("slack_command", SlackSlash(event))
    BY <1>8 DEF SlackCmd, SlackSlash, Sound
  <2> QED BY <1>8, <2>1 DEF SlackCmd
<1>9. CASE Line
  <2>1. Sound("line", LineEvent(event))
    BY <1>9 DEF Line, LineEvent, Sound
  <2> QED BY <1>9, <2>1 DEF Line
<1>10. CASE QQ
  <2>1. Sound("qq", QQMessage(event))
    BY <1>10 DEF QQ, QQMessage, Sound
  <2> QED BY <1>10, <2>1 DEF QQ
<1>11. CASE IRC
  <2>1. Sound("irc", IRCMessage(event))
    BY <1>11 DEF IRC, IRCMessage, Sound
  <2> QED BY <1>11, <2>1 DEF IRC
<1>12. CASE DingTalk
  <2>1. Sound("dingtalk", DingTalkMessage(event))
    BY <1>12 DEF DingTalk, DingTalkMessage, Sound
  <2> QED BY <1>12, <2>1 DEF DingTalk
<1>13. CASE MaixCam
  <2>1. Sound("maixcam", MaixCamDetection(event))
    BY <1>13 DEF MaixCam, MaixCamDetection, Sound
  <2> QED BY <1>13, <2>1 DEF MaixCam
<1>14. CASE Feishu
  <2>1. Sound("feishu", FeishuMessage(event))
    BY <1>14 DEF Feishu, FeishuMessage, Sound
  <2> QED BY <1>14, <2>1 DEF Feishu
<1>15. CASE WhatsApp
  <2>1. Sound("whatsapp", WhatsAppMessage(event))
    BY DEF Sound
  <2> QED BY <1>15, <2>1 DEF WhatsApp
<1>16. CASE Native
  <2>1. Sound("whatsapp_native", WhatsAppNativeMessage(event))
    BY DEF Sound
  <2> QED BY <1>16, <2>1 DEF Native
<1>17. CASE Pico
  <2>1. Sound("pico", PicoMessageSend(event))
    BY <1>17 DEF Pico, PicoMessageSend, Sound
  <2> QED BY <1>17, <2>1 DEF Pico
<1>18. CASE OneBot
  <2>1. Sound("onebot", OneBotMessage(event))
    BY <1>18 DEF OneBot, OneBotMessage, Sound
  <2> QED BY <1>18, <2>1 DEF OneBot
<1>19. CASE Matrix
  <2>1. Sound("matrix", MatrixMessage(event))
    BY <1>19 DEF Matrix, MatrixMessage, Sound
  <2>2. \A r : Sound("matrix_unsure", r)
    BY DEF Sound
  <2> QED BY <1>19, <2>1, <2>2 DEF Matrix
<1>20. CASE WeCom
  <2>1. Sound("wecom", WeComBotMessage(event))
    BY <1>20 DEF WeCom, WeComBotMessage, Sound
  <2> QED BY <1>20, <2>1 DEF WeCom
<1>21. CASE WeComApp
  <2>1. Sound("wecom_app", WeComAppMessage(event))
    BY <1>21 DEF WeComApp, WeComAppMessage, HandleMessage, Sound
  <2> QED BY <1>21, <2>1 DEF WeComApp
<1>22. CASE AIBot
  <2>1. Sound("wecom_aibot", WeComAIBotText(event))
    BY <1>22 DEF AIBot, WeComAIBotText, HandleMessage, Sound
  <2> QED BY <1>22, <2>1 DEF AIBot
<1> QED BY <1>4, <1>5, <1>6, <1>7, <1>8, <1>9, <1>10, <1>11, <1>12, <1>13, <1>14, <1>15, <1>16, <1>17, <1>18,
           <1>19, <1>20, <1>21, <1>22 DEF IntakeNext

\* Of every event of every platform, in every configuration of group_trigger and allow list: an
\* adapter publishes only what it was invited to, and those that look at the list first do nothing
\* for a stranger (base.go:123).
THEOREM OnlyInvitedHeard == IntakeSpec => []IntakeSound
<1>1. IntakeInit => IntakeInv
  BY DEF IntakeInit, IntakeInv
<1>2. IntakeInv => IntakeSound
  BY DEF IntakeInv, IntakeSound, OnlyInvited, NothingForStrangers, Nothing
<1> QED BY <1>1, <1>2, IntakeInvStep, PTL DEF IntakeSpec
-----------------------------------------------------------------------------
(* What the adapters remember (AdapterCaches).                             *)

\* The place after the last one is the first one.
LEMMA NextPlace ==
  ASSUME CachesAssumption, NEW x \in 0..Size - 1
  PROVE  (x + 1) % Size = IF x + 1 = Size THEN 0 ELSE x + 1
<1>1. CASE x + 1 = Size
  BY <1>1 DEF CachesAssumption
<1>2. CASE x + 1 < Size
  BY <1>2 DEF CachesAssumption
<1> QED BY <1>1, <1>2 DEF CachesAssumption

\* The slot at place i holds the message that was let through when the ring last passed there.
SlotHolds(log, place, i) ==
    IF i < place THEN log[Len(log) - place + i + 1]
    ELSE IF Len(log) >= Size THEN log[Len(log) - place - Size + i + 1] ELSE NoName

\* The slots are the last messages of the log, once around, and no two of these are the same.
RingInv ==
    /\ ringLog \in Seq(Ids) /\ idx \in 0..Size - 1 /\ idx <= Len(ringLog)
    /\ Len(ringLog) < Size => idx = Len(ringLog)
    /\ slots \in [0..Size - 1 -> Ids \cup {NoName}]
    /\ \A i \in 0..Size - 1 : slots[i] = SlotHolds(ringLog, idx, i)
    /\ \A i, j \in 1..Len(ringLog) :
          i > Len(ringLog) - Size /\ j > Len(ringLog) - Size /\ i # j => ringLog[i] # ringLog[j]
    /\ RingRemembers

LEMMA RingInvInit == CachesAssumption /\ CachesInit => RingInv
<1> SUFFICES ASSUME CachesAssumption, CachesInit PROVE RingInv
  OBVIOUS
<1>1. ringLog \in Seq(Ids) /\ Len(ringLog) = 0 /\ ringLog = <<>>
  BY DEF CachesInit
<1>2. DOMAIN ringLog = {}
  BY <1>1
<1>3. RingRemembers
  BY <1>2 DEF RingRemembers, LastPassed, CachesInit
<1>4. \A i \in 0..Size - 1 : slots[i] = SlotHolds(ringLog, idx, i)
  BY <1>1 DEF CachesInit, CachesAssumption, SlotHolds
<1> QED BY <1>1, <1>3, <1>4 DEF RingInv, CachesInit, CachesAssumption

LEMMA RingInvStep ==
  ASSUME CachesAssumption, RingInv, NEW m \in Ids, MarkMessageProcessed(m)
  PROVE  RingInv'
<1>1. CASE m \in msgs
  BY <1>1 DEF MarkMessageProcessed, RingInv, RingRemembers
<1>2. CASE m \notin msgs
  <2> DEFINE n == Len(ringLog)
  <2>1. /\ msgs' = (msgs \ {slots[idx]}) \cup {m} /\ slots' = [slots EXCEPT ![idx] = m]
        /\ idx' = (idx + 1) % Size /\ ringLog' = Append(ringLog, m)
    BY <1>2 DEF MarkMessageProcessed
  <2>2. /\ ringLog' \in Seq(Ids) /\ Len(ringLog') = n + 1 /\ ringLog'[n + 1] = m /\ n \in Nat
        /\ \A i \in 1..n : ringLog'[i] = ringLog[i]
    BY <2>1 DEF RingInv
  <2>3. Size \in Nat \ {0} /\ idx \in 0..Size - 1 /\ idx <= n /\ (n < Size => idx = n)
    BY DEF RingInv, CachesAssumption
  <2>4. idx' = IF idx + 1 = Size THEN 0 ELSE idx + 1
    BY <2>1, <2>3, NextPlace
  <2>5. DOMAIN ringLog = 1..n /\ DOMAIN ringLog' = 1..(n + 1)
    BY <2>2 DEF RingInv
  <2> HIDE DEF n
  <2>6. /\ idx' \in 0..Size - 1 /\ idx' <= n + 1 /\ (n + 1 < Size => idx' = n + 1)
        /\ slots' \in [0..Size - 1 -> Ids \cup {NoName}]
    BY <2>1, <2>2, <2>3, <2>4 DEF RingInv
  <2>7. ASSUME NEW i \in 0..Size - 1 PROVE slots'[i] = SlotHolds(ringLog', idx', i)
    <3>1. slots[i] = IF i < idx THEN ringLog[n - idx + i + 1]
                     ELSE IF n >= Size THEN ringLog[n - idx - Size + i + 1] ELSE NoName
      BY DEF RingInv, SlotHolds, n
    <3>2. SlotHolds(ringLog', idx', i) =
            IF i < idx' THEN ringLog'[n + 1 - idx' + i + 1]
            ELSE IF n + 1 >= Size THEN ringLog'[n + 1 - idx' - Size + i + 1] ELSE NoName
      <4>1. Len(ringLog') = n + 1
        BY <2>2
      <4>2. n \in Nat /\ Size \in Nat /\ idx' \in Int /\ i \in Int
        BY <2>2, <2>3, <2>6
      <4>3. SlotHolds(ringLog', idx', i) =
              IF i < idx' THEN ringLog'[Len(ringLog') - idx' + i + 1]
              ELSE IF Len(ringLog') >= Size THEN ringLog'[Len(ringLog') - idx' - Size + i + 1] ELSE NoName
        BY Zenon DEF SlotHolds
      <4>4. /\ Len(ringLog') - idx' + i + 1 = n + 1 - idx' + i + 1
            /\ Len(ringLog') - idx' - Size + i + 1 = n + 1 - idx' - Size + i + 1
        <5> DEFINE len == Len(ringLog')  at1 == idx'
        <5>1. len = n + 1 /\ n \in Int /\ at1 \in Int /\ Size \in Int /\ i \in Int
          BY <4>1, <4>2
        <5> HIDE DEF len, at1
        <5>2. len - at1 + i + 1 = n + 1 - at1 + i + 1 /\ len - at1 - Size + i + 1 = n + 1 - at1 - Size + i + 1
          BY <5>1
        <5> QED BY <5>2 DEF len, at1
      <4>5. CASE i < idx'
        <5>1. SlotHolds(ringLog', idx', i) = ringLog'[Len(ringLog') - idx' + i + 1]
          BY <4>3, <4>5
        <5> QED BY <4>4, <4>5, <5>1
      <4>6. CASE ~(i < idx') /\ n + 1 >= Size
        <5>1. Len(ringLog') >= Size
          BY <4>1, <4>6
        <5>2. SlotHolds(ringLog', idx', i) = ringLog'[Len(ringLog') - idx' - Size + i + 1]
          BY <4>3, <4>6, <5>1, Zenon
        <5> QED BY <4>4, <4>6, <5>2, Zenon
      <4>7. CASE ~(i < idx') /\ ~(n + 1 >= Size)
        BY <4>1, <4>3, <4>7
      <4> QED BY <4>5, <4>6, <4>7
    <3>3. CASE i = idx
      <4>1. slots'[i] = m
        BY <2>1, <2>3, <3>3 DEF RingInv
      <4>2. CASE idx + 1 = Size
        <5>1. idx' = 0 /\ n + 1 >= Size /\ n + 1 - idx' - Size + i + 1 = n + 1 /\ ~(i < idx')
          BY <2>2, <2>3, <2>4, <3>3, <4>2
        <5> QED BY <2>2, <3>2, <4>1, <5>1
      <4>3. CASE idx + 1 # Size
        <5>1. idx' = idx + 1 /\ n + 1 - idx' + i + 1 = n + 1 /\ i < idx'
          BY <2>2, <2>3, <2>4, <3>3, <4>3
        <5> QED BY <2>2, <3>2, <4>1, <5>1
      <4> QED BY <4>2, <4>3
    <3>4. CASE i < idx
      <4>1. slots'[i] = ringLog[n - idx + i + 1] /\ n - idx + i + 1 \in 1..n
        BY <2>1, <2>2, <2>3, <3>1, <3>4 DEF RingInv
      <4>2. slots'[i] = ringLog'[n - idx + i + 1]
        BY <2>2, <4>1
      <4>3. CASE idx + 1 = Size
        <5>1. idx' = 0 /\ n + 1 >= Size /\ n + 1 - idx' - Size + i + 1 = n - idx + i + 1 /\ ~(i < idx')
          BY <2>2, <2>3, <2>4, <3>4, <4>3
        <5> QED BY <3>2, <4>2, <5>1
      <4>4. CASE idx + 1 # Size
        <5>1. idx' = idx + 1 /\ n + 1 - idx' + i + 1 = n - idx + i + 1 /\ i < idx'
          BY <2>2, <2>3, <2>4, <3>4, <4>4
        <5> QED BY <3>2, <4>2, <5>1
      <4> QED BY <4>3, <4>4
    <3>5. CASE i > idx
      <4>1. idx' = idx + 1 /\ ~(i < idx') /\ slots'[i] = slots[i]
        BY <2>1, <2>3, <2>4, <3>5 DEF RingInv
      <4>2. CASE n >= Size
        <5>1. n - idx - Size + i + 1 \in 1..n /\ n + 1 - idx' - Size + i + 1 = n - idx - Size + i + 1
          <6>1. n \in Nat /\ idx \in Int /\ i \in Int /\ Size \in Int /\ i > idx /\ i < Size /\ idx >= 0 /\ n >= Size
            BY <2>2, <2>3, <3>5, <4>2
          <6>2. n - idx - Size + i + 1 \in Int /\ n - idx - Size + i + 1 >= 1 /\ n - idx - Size + i + 1 <= n
            BY <6>1
          <6>3. n + 1 - (idx + 1) - Size + i + 1 = n - idx - Size + i + 1
            BY <6>1
          <6> QED BY <4>1, <6>1, <6>2, <6>3
        <5>2. slots[i] = ringLog[n - idx - Size + i + 1]
          BY <3>1, <3>5, <4>2, <2>3
        <5>3. ringLog'[n - idx - Size + i + 1] = ringLog[n - idx - Size + i + 1]
          BY <2>2, <5>1
        <5>4. n + 1 >= Size
          BY <2>2, <2>3, <4>2
        <5> QED BY <3>2, <4>1, <5>1, <5>2, <5>3, <5>4
      <4>3. CASE n < Size
        <5>1. n + 1 < Size /\ slots[i] = NoName
          BY <2>2, <2>3, <3>1, <3>5, <4>3
        <5> QED BY <2>2, <2>3, <3>2, <4>1, <5>1
      <4> QED BY <2>2, <2>3, <4>2, <4>3
    <3> QED BY <2>3, <3>3, <3>4, <3>5
  <2>8. msgs = {ringLog[j] : j \in {i \in 1..n : i > n - Size}}
    BY <2>5 DEF RingInv, RingRemembers, LastPassed, n
  <2>9. \A i, j \in 1..n : i > n - Size /\ j > n - Size /\ i # j => ringLog[i] # ringLog[j]
    BY DEF RingInv, n
  <2>10. \A i \in 1..n : i > n - Size => ringLog[i] # m
    BY <1>2, <2>8
  <2>11. ASSUME NEW i \in 1..(n + 1), NEW j \in 1..(n + 1), i > n + 1 - Size, j > n + 1 - Size, i # j
         PROVE  ringLog'[i] # ringLog'[j]
    <3>1. CASE i = n + 1
      <4>1. j \in 1..n /\ j > n - Size
        BY <2>2, <2>3, <2>11, <3>1
      <4> QED BY <2>2, <2>10, <3>1, <4>1
    <3>2. CASE j = n + 1
      <4>1. i \in 1..n /\ i > n - Size
        BY <2>2, <2>3, <2>11, <3>2
      <4> QED BY <2>2, <2>10, <3>2, <4>1
    <3>3. CASE i # n + 1 /\ j # n + 1
      <4>1. i \in 1..n /\ i > n - Size /\ j \in 1..n /\ j > n - Size
        BY <2>2, <2>3, <2>11, <3>3
      <4> QED BY <2>2, <2>9, <2>11, <4>1
    <3> QED BY <3>1, <3>2, <3>3
  <2>12. msgs \ {slots[idx]} = {ringLog[j] : j \in {i \in 1..n : i > n + 1 - Size}}
    <3>1. slots[idx] = SlotHolds(ringLog, idx, idx)
      BY <2>3 DEF RingInv
    <3>2. CASE n >= Size
      <4>1. slots[idx] = ringLog[n + 1 - Size] /\ n + 1 - Size \in 1..n
        <5>1. n - idx - Size + idx + 1 = n + 1 - Size /\ ~(idx < idx) /\ n + 1 - Size \in 1..n
          BY <2>2, <2>3, <3>2
        <5> QED BY <3>1, <3>2, <5>1 DEF SlotHolds, n
      <4>2. \A i \in 1..n : i > n - Size <=> i = n + 1 - Size \/ i > n + 1 - Size
        BY <2>2, <2>3
      <4>3. \A i \in 1..n : i > n + 1 - Size => ringLog[i] # slots[idx]
        BY <2>2, <2>3, <2>9, <4>1, <4>2
      <4> QED BY <2>8, <4>1, <4>2, <4>3
    <3>3. CASE n < Size
      <4>1. slots[idx] = NoName
        BY <2>2, <2>3, <3>1, <3>3 DEF SlotHolds, n
      <4>2. \A i \in 1..n : i > n - Size /\ i > n + 1 - Size /\ ringLog[i] # NoName
        <5>1. \A i \in 1..n : ringLog[i] \in Ids
          BY DEF RingInv, n
        <5> QED BY <2>2, <2>3, <3>3, <5>1 DEF CachesAssumption
      <4> QED BY <2>8, <4>1, <4>2
    <3> QED BY <2>2, <2>3, <3>2, <3>3
  <2>13. msgs' = {ringLog'[j] : j \in {i \in 1..(n + 1) : i > n + 1 - Size}}
    <3>1. \A j : j \in {i \in 1..(n + 1) : i > n + 1 - Size} <=>
                 j = n + 1 \/ j \in {i \in 1..n : i > n + 1 - Size}
      BY <2>2, <2>3
    <3>2. \A j \in {i \in 1..n : i > n + 1 - Size} : ringLog'[j] = ringLog[j]
      BY <2>2
    <3>3. {ringLog'[j] : j \in {i \in 1..(n + 1) : i > n + 1 - Size}} =
            {ringLog[j] : j \in {i \in 1..n : i > n + 1 - Size}} \cup {m}
      BY <2>2, <3>1, <3>2
    <3> QED BY <2>1, <2>12, <3>3
  <2>14. RingRemembers'
    BY <2>2, <2>5, <2>13 DEF RingRemembers, LastPassed
  <2> QED BY <2>2, <2>6, <2>7, <2>11, <2>14 DEF RingInv
<1> QED BY <1>1, <1>2

\* Without forgets the entries of ks.
LEMMA WithoutTold ==
  ASSUME NEW f, NEW ks
  PROVE  DOMAIN Without(f, ks) = DOMAIN f \ ks /\ \A k \in DOMAIN f \ ks : Without(f, ks)[k] = f[k]
BY DEF Without

Bounded(f) == IsFiniteSet(DOMAIN f) /\ Cardinality(DOMAIN f) <= Size

\* A table stays within its size when it forgets, and when it makes room before it learns.
LEMMA ForgetsBounded ==
  ASSUME CachesAssumption, NEW f, Bounded(f), NEW ks
  PROVE  Bounded(Without(f, ks))
<1>1. DOMAIN Without(f, ks) \in SUBSET DOMAIN f
  BY WithoutTold
<1>2. IsFiniteSet(DOMAIN Without(f, ks)) /\ Cardinality(DOMAIN Without(f, ks)) <= Cardinality(DOMAIN f)
  BY <1>1, FS_Subset DEF Bounded
<1>3. Cardinality(DOMAIN f) \in Nat /\ Cardinality(DOMAIN Without(f, ks)) \in Nat
  BY <1>2, FS_CardinalityType DEF Bounded
<1> QED BY <1>2, <1>3 DEF Bounded, CachesAssumption

LEMMA LearnsBounded ==
  ASSUME CachesAssumption, NEW f, Bounded(f), NEW k, NEW v, NEW old \in Oldest(f) \cup {NoName},
         (old = NoName) = (Cardinality(DOMAIN f) < Size)
  PROVE  Bounded(Entered(Without(f, {old}), k, v))
<1> DEFINE kept == DOMAIN Without(f, {old})
           now  == DOMAIN Entered(Without(f, {old}), k, v)
<1>0. kept = DOMAIN f \ {old}
  BY WithoutTold
<1>1. kept = DOMAIN f \ {old} /\ now = kept \cup {k}
  BY <1>0 DEF Entered
<1> HIDE DEF kept, now
<1>2. IsFiniteSet(DOMAIN f) /\ Cardinality(DOMAIN f) <= Size /\ Cardinality(DOMAIN f) \in Nat
  BY FS_CardinalityType DEF Bounded
<1>3. /\ IsFiniteSet(kept)
      /\ Cardinality(kept) = IF old \in DOMAIN f THEN Cardinality(DOMAIN f) - 1 ELSE Cardinality(DOMAIN f)
  BY <1>1, <1>2, FS_RemoveElement
<1>4. IsFiniteSet(now) /\ Cardinality(now) = IF k \in kept THEN Cardinality(kept) ELSE Cardinality(kept) + 1
  BY <1>1, <1>3, FS_AddElement
<1>5. Cardinality(kept) < Size
  <2>1. CASE old = NoName
    <3>1. Cardinality(DOMAIN f) < Size
      BY <2>1
    <3> QED BY <1>2, <1>3, <3>1 DEF CachesAssumption
  <2>2. CASE old # NoName
    <3>1. old \in DOMAIN f
      BY <2>2 DEF Oldest
    <3> QED BY <1>2, <1>3, <3>1 DEF CachesAssumption
  <2> QED BY <2>1, <2>2
<1>6. Cardinality(kept) \in Nat
  BY <1>3, FS_CardinalityType
<1>7. Cardinality(now) <= Size
  BY <1>4, <1>5, <1>6 DEF CachesAssumption
<1> QED BY <1>4, <1>7 DEF Bounded, now

\* What is logged was let through at growing times, none of them to come.
LogInv(t, log) ==
    /\ log \in Seq(Ids \X Nat) /\ \A i \in 1..Len(log) : log[i][2] <= t
    /\ \A i, j \in 1..Len(log) : i < j => log[i][2] < log[j][2]
\* A known id was let through when the table says ...
KnownLogged(d, log) == \A k \in DOMAIN d : \E i \in 1..Len(log) : log[i] = <<k, d[k]>>
\* ... and of the last Size that were let through, those that are young are known with their latest time.
YoungKnown(t, d, log) ==
    \A i \in 1..Len(log) : i > Len(log) - Size /\ t - log[i][2] < EntryTTL =>
        log[i][1] \in DOMAIN d /\ d[log[i][1]] >= log[i][2]
DedupInv(t, d, log) ==
    /\ t \in Nat /\ DOMAIN d \subseteq Ids /\ \A k \in DOMAIN d : d[k] \in Nat
    /\ LogInv(t, log) /\ KnownLogged(d, log) /\ YoungKnown(t, d, log) /\ Bounded(d)

\* The oldest of a full table was let through before the last Size - 1 others.
LEMMA OldestPassed ==
  ASSUME CachesAssumption, NEW t, NEW d, NEW log, DedupInv(t, d, log), Cardinality(DOMAIN d) >= Size,
         NEW o \in Oldest(d), NEW i \in 1..Len(log), log[i][2] <= d[o]
  PROVE  i <= Len(log) - Size + 1
<1> DEFINE Passed == i..Len(log)
           f == [k \in DOMAIN d |-> CHOOSE j \in 1..Len(log) : log[j] = <<k, d[k]>>]
<1>0. Len(log) \in Nat /\ \A j \in 1..Len(log) : log[j][2] \in Nat
  <2>1. log \in Seq(Ids \X Nat)
    BY DEF DedupInv, LogInv
  <2>2. Len(log) \in Nat /\ \A j \in 1..Len(log) : log[j] \in Ids \X Nat
    BY <2>1
  <2> QED BY <2>2
<1>1. \A k \in DOMAIN d : f[k] \in 1..Len(log) /\ log[f[k]] = <<k, d[k]>>
  BY DEF DedupInv, KnownLogged
<1>3. DOMAIN f = DOMAIN d /\ f = [k \in DOMAIN d |-> f[k]]
  OBVIOUS
<1> HIDE DEF f
<1>p. \A k \in DOMAIN d : log[f[k]][1] = k /\ log[f[k]][2] = d[k]
  BY <1>1
<1>2. ASSUME NEW k \in DOMAIN d PROVE f[k] \in Passed
  <2>0. o \in DOMAIN d /\ d[o] <= d[k]
    BY <1>2 DEF Oldest
  <2>1. log[f[k]][2] = d[k] /\ d[o] <= d[k] /\ d[o] \in Nat /\ d[k] \in Nat
    BY <1>p, <1>2, <2>0 DEF DedupInv
  <2>2. log[i][2] <= log[f[k]][2] /\ log[i][2] \in Nat
    BY <1>0, <2>1
  <2>3. CASE f[k] < i
    <3>1. log[f[k]][2] < log[i][2]
      BY <1>1, <1>2, <2>3 DEF DedupInv, LogInv
    <3> QED BY <2>1, <2>2, <3>1
  <2>4. CASE f[k] >= i
    BY <1>0, <1>1, <1>2, <2>4
  <2> QED BY <1>0, <1>1, <1>2, <2>3, <2>4
<1>4. f \in [DOMAIN d -> Passed] /\ \A k, q \in DOMAIN d : k # q => f[k] # f[q]
  BY <1>2, <1>3, <1>p
<1>5. IsFiniteSet(Passed) /\ Cardinality(Passed) = Len(log) - i + 1
  BY <1>0, FS_Interval
<1>6. IsFiniteSet(DOMAIN d) /\ Cardinality(DOMAIN d) \in Nat
  BY FS_CardinalityType DEF DedupInv, Bounded
<1> HIDE DEF Passed
<1>7. ~(Cardinality(Passed) < Cardinality(DOMAIN d))
  BY <1>4, <1>5, <1>6, FS_PigeonHole
<1> QED BY <1>0, <1>5, <1>6, <1>7 DEF CachesAssumption

\* Time passes, and the janitor takes what is old.
LEMMA OlderDedup ==
  ASSUME CachesAssumption, NEW t, NEW d, NEW log, DedupInv(t, d, log)
  PROVE  DedupInv(t + 1, d, log)
<1>1. log \in Seq(Ids \X Nat) /\ t \in Nat
  BY DEF DedupInv, LogInv
<1>2. \A j \in 1..Len(log) : log[j] \in Ids \X Nat /\ log[j][2] \in Nat
  BY <1>1
<1>3. LogInv(t + 1, log)
  BY <1>1, <1>2 DEF DedupInv, LogInv
<1>4. YoungKnown(t + 1, d, log)
  <2> SUFFICES ASSUME NEW i \in 1..Len(log), i > Len(log) - Size, (t + 1) - log[i][2] < EntryTTL
               PROVE  log[i][1] \in DOMAIN d /\ d[log[i][1]] >= log[i][2]
    BY DEF YoungKnown
  <2>1. t - log[i][2] < EntryTTL
    <3>1. log[i][2] \in Nat
      BY <1>2
    <3> QED BY <1>1, <3>1 DEF CachesAssumption
  <2> QED BY <2>1 DEF DedupInv, YoungKnown
<1> QED BY <1>1, <1>3, <1>4 DEF DedupInv

LEMMA SweptDedup ==
  ASSUME CachesAssumption, NEW t, NEW d, NEW log, DedupInv(t, d, log)
  PROVE  DedupInv(t, Without(d, {m \in DOMAIN d : t - d[m] >= EntryTTL}), log)
<1> DEFINE old == {m \in DOMAIN d : t - d[m] >= EntryTTL}
<1>1. DOMAIN Without(d, old) = DOMAIN d \ old /\ \A k \in DOMAIN d \ old : Without(d, old)[k] = d[k]
  BY WithoutTold
<1>2. Bounded(Without(d, old))
  BY ForgetsBounded DEF DedupInv
<1>3. log \in Seq(Ids \X Nat) /\ t \in Nat
  BY DEF DedupInv, LogInv
<1>4. \A j \in 1..Len(log) : log[j] \in Ids \X Nat
  BY <1>3
<1>5. YoungKnown(t, Without(d, old), log)
  <2> SUFFICES ASSUME NEW i \in 1..Len(log), i > Len(log) - Size, t - log[i][2] < EntryTTL
               PROVE  log[i][1] \in DOMAIN Without(d, old) /\ Without(d, old)[log[i][1]] >= log[i][2]
    BY DEF YoungKnown
  <2>1. log[i][1] \in DOMAIN d /\ d[log[i][1]] >= log[i][2] /\ d[log[i][1]] \in Nat
    BY DEF DedupInv, YoungKnown
  <2>2. t - d[log[i][1]] < EntryTTL
    BY <1>3, <1>4, <2>1 DEF CachesAssumption
  <2>3. log[i][1] \notin old
    BY <1>3, <2>1, <2>2 DEF CachesAssumption
  <2> QED BY <1>1, <2>1, <2>3
<1>6. KnownLogged(Without(d, old), log)
  BY <1>1 DEF DedupInv, KnownLogged
<1>7. DOMAIN Without(d, old) \subseteq Ids /\ \A k \in DOMAIN Without(d, old) : Without(d, old)[k] \in Nat
  BY <1>1 DEF DedupInv
<1> QED BY <1>2, <1>5, <1>6, <1>7 DEF DedupInv

\* A message that is let through makes room for itself, and takes nobody's place who is young.
LEMMA PassedDedup ==
  ASSUME CachesAssumption, NEW t, NEW d, NEW log, DedupInv(t, d, log), \A k \in DOMAIN d : d[k] < t,
         NEW m \in Ids, NEW old \in Oldest(d) \cup {NoName}, (old = NoName) = (Cardinality(DOMAIN d) < Size)
  PROVE  DedupInv(t, Entered(Without(d, {old}), m, t), Append(log, <<m, t>>))
<1> DEFINE n == Len(log)
           e == Entered(Without(d, {old}), m, t)
           new == Append(log, <<m, t>>)
<1>1. /\ DOMAIN e = (DOMAIN d \ {old}) \cup {m} /\ e[m] = t
      /\ \A k \in DOMAIN d \ {old, m} : e[k] = d[k]
  <2> DEFINE w == Without(d, {old})
  <2>1. DOMAIN w = DOMAIN d \ {old} /\ \A k \in DOMAIN d \ {old} : w[k] = d[k]
    BY WithoutTold
  <2> HIDE DEF w
  <2>2. /\ DOMAIN Entered(w, m, t) = DOMAIN w \cup {m} /\ Entered(w, m, t)[m] = t
        /\ \A x \in DOMAIN w \ {m} : Entered(w, m, t)[x] = w[x]
    BY DEF Entered
  <2>3. e = Entered(w, m, t)
    BY DEF w
  <2> QED BY <2>1, <2>2, <2>3
<1>2. Bounded(e)
  BY LearnsBounded DEF DedupInv
<1>3. log \in Seq(Ids \X Nat) /\ t \in Nat
  BY DEF DedupInv, LogInv
<1>4. n \in Nat /\ \A j \in 1..n : log[j] \in Ids \X Nat
  BY <1>3
<1>5. /\ new \in Seq(Ids \X Nat) /\ Len(new) = n + 1 /\ new[n + 1] = <<m, t>>
      /\ \A j \in 1..n : new[j] = log[j]
  BY <1>3
<1> HIDE DEF n, e, new
<1>6. ASSUME NEW i \in 1..n PROVE log[i][2] < t
  <2>1. n > 0 /\ n > n - Size /\ n \in 1..n
    BY <1>4 DEF CachesAssumption
  <2>2. log[i][2] <= log[n][2] /\ log[n][2] <= t /\ log[n][2] \in Nat /\ log[i][2] \in Nat
    <3>1. log[n] \in Ids \X Nat /\ log[i] \in Ids \X Nat
      BY <1>4, <2>1
    <3>2. log[n][2] \in Nat /\ log[i][2] \in Nat
      BY <3>1
    <3>3. LogInv(t, log)
      BY DEF DedupInv
    <3>4. log[n][2] <= t
      BY <2>1, <3>3 DEF LogInv, n
    <3>5. i < n => log[i][2] < log[n][2]
      BY <2>1, <3>3 DEF LogInv, n
    <3>6. i = n \/ i < n
      BY <1>4
    <3> QED BY <3>2, <3>4, <3>5, <3>6
  <2>3. CASE log[n][2] = t
    <3>1. t - log[n][2] < EntryTTL
      BY <1>3, <2>3 DEF CachesAssumption
    <3>2. log[n][1] \in DOMAIN d /\ d[log[n][1]] >= log[n][2]
      BY <2>1, <3>1 DEF DedupInv, YoungKnown, n
    <3> QED BY <1>3, <2>3, <3>2 DEF DedupInv
  <2> QED BY <1>3, <2>2, <2>3
<1>7. LogInv(t, new)
  <2>1. \A i \in 1..(n + 1) : i = n + 1 \/ i \in 1..n
    BY <1>4
  <2>2. \A i \in 1..Len(new) : new[i][2] <= t
    <3> SUFFICES ASSUME NEW i \in 1..Len(new) PROVE new[i][2] <= t
      OBVIOUS
    <3>1. CASE i = n + 1
      BY <1>3, <1>5, <3>1
    <3>2. CASE i \in 1..n
      <4>1. log[i][2] < t /\ new[i] = log[i] /\ log[i] \in Ids \X Nat
        BY <1>4, <1>5, <1>6, <3>2
      <4>2. log[i][2] \in Nat
        BY <4>1
      <4> QED BY <1>3, <4>1, <4>2
    <3> QED BY <1>5, <2>1, <3>1, <3>2
  <2>3. ASSUME NEW i \in 1..Len(new), NEW j \in 1..Len(new), i < j PROVE new[i][2] < new[j][2]
    <3>1. i \in 1..n
      BY <1>4, <1>5, <2>3
    <3>2. CASE j = n + 1
      BY <1>5, <1>6, <3>1, <3>2
    <3>3. CASE j \in 1..n
      <4>1. log[i][2] < log[j][2]
        BY <2>3, <3>1, <3>3 DEF DedupInv, LogInv, n
      <4> QED BY <1>5, <3>1, <3>3, <4>1
    <3> QED BY <1>5, <2>1, <3>2, <3>3
  <2> QED BY <1>5, <2>2, <2>3 DEF LogInv
<1>8. KnownLogged(e, new)
  <2> SUFFICES ASSUME NEW k \in DOMAIN e PROVE \E i \in 1..Len(new) : new[i] = <<k, e[k]>>
    BY DEF KnownLogged
  <2>1. CASE k = m
    <3>1. n + 1 \in 1..Len(new)
      BY <1>4, <1>5
    <3> QED BY <1>1, <1>5, <2>1, <3>1
  <2>2. CASE k # m
    <3>1. k \in DOMAIN d /\ e[k] = d[k]
      BY <1>1, <2>2
    <3>2. PICK i \in 1..n : log[i] = <<k, d[k]>>
      BY <3>1 DEF DedupInv, KnownLogged, n
    <3>3. i \in 1..Len(new) /\ new[i] = log[i]
      BY <1>4, <1>5
    <3> QED BY <3>1, <3>2, <3>3
  <2> QED BY <2>1, <2>2
<1>9. YoungKnown(t, e, new)
  <2> SUFFICES ASSUME NEW i \in 1..(n + 1), i > n + 1 - Size, t - new[i][2] < EntryTTL
               PROVE  new[i][1] \in DOMAIN e /\ e[new[i][1]] >= new[i][2]
    <3>1. Len(new) = n + 1
      BY <1>5
    <3>2. Len(new) - Size = n + 1 - Size
      BY <1>4, <3>1 DEF CachesAssumption
    <3> QED BY <3>1, <3>2 DEF YoungKnown
  <2>1. CASE i = n + 1
    BY <1>1, <1>3, <1>5, <2>1
  <2>2. CASE i # n + 1
    <3>1. i \in 1..n /\ i > n - Size
      BY <1>4, <2>2 DEF CachesAssumption
    <3>2. new[i] = log[i] /\ log[i][2] \in Nat
      BY <1>4, <1>5, <3>1
    <3>3. log[i][1] \in DOMAIN d /\ d[log[i][1]] >= log[i][2]
      BY <3>1, <3>2 DEF DedupInv, YoungKnown, n
    <3>4. CASE log[i][1] = m
      <4>1. log[i][2] <= t
        BY <1>3, <1>6, <3>1, <3>2
      <4> QED BY <1>1, <1>3, <3>2, <3>4, <4>1
    <3>5. CASE log[i][1] # m /\ log[i][1] # old
      BY <1>1, <3>2, <3>3, <3>5
    <3>6. CASE log[i][1] = old
      <4>1. old # NoName
        BY <3>3, <3>6 DEF DedupInv, CachesAssumption
      <4>2. old \in Oldest(d) /\ ~(Cardinality(DOMAIN d) < Size)
        BY <4>1
      <4>3. Cardinality(DOMAIN d) >= Size
        BY <4>2, FS_CardinalityType DEF DedupInv, Bounded, CachesAssumption
      <4>4. log[i][2] <= d[old]
        BY <3>2, <3>3, <3>6 DEF DedupInv
      <4>5. i <= n - Size + 1
        BY <3>1, <4>2, <4>3, <4>4, OldestPassed DEF n
      <4> QED BY <1>4, <3>1, <4>5 DEF CachesAssumption
    <3> QED BY <3>4, <3>5, <3>6
  <2> QED BY <2>1, <2>2
<1>10. DOMAIN e \subseteq Ids /\ \A k \in DOMAIN e : e[k] \in Nat
  BY <1>1, <1>3 DEF DedupInv
<1> QED BY <1>2, <1>3, <1>7, <1>8, <1>9, <1>10 DEF DedupInv, e, new

CachesInv == RingInv /\ DedupInv(time, dedup, qqLog) /\ Bounded(rooms)

LEMMA CachesInvInit == CachesAssumption /\ CachesInit => CachesInv
<1> SUFFICES ASSUME CachesAssumption, CachesInit PROVE CachesInv
  OBVIOUS
<1>1. DOMAIN dedup = {} /\ DOMAIN rooms = {} /\ qqLog \in Seq(Ids \X Nat) /\ Len(qqLog) = 0 /\ time = 0
  <2>1. \A f : f = <<>> => DOMAIN f = {}
    <3>1. \A f : f = <<>> => f \in Seq({}) /\ Len(f) = 0
      OBVIOUS
    <3> QED BY <3>1
  <2> QED BY <2>1 DEF CachesInit
<1>2. \A f : DOMAIN f = {} => Bounded(f)
  BY FS_EmptySet DEF Bounded, CachesAssumption
<1>3. DedupInv(time, dedup, qqLog)
  BY <1>1, <1>2 DEF DedupInv, LogInv, KnownLogged, YoungKnown
<1> QED BY <1>1, <1>2, <1>3, RingInvInit DEF CachesInv

LEMMA CachesInvStep == CachesAssumption /\ CachesInv /\ [CachesNext]_tableVars => CachesInv'
<1> SUFFICES ASSUME CachesAssumption, CachesInv, [CachesNext]_tableVars PROVE CachesInv'
  OBVIOUS
<1>1. ASSUME UNCHANGED <<slots, idx, msgs, ringLog>> PROVE RingInv'
  BY <1>1 DEF CachesInv, RingInv, RingRemembers
<1>2. CASE CacheTick
  <2>1. time' = time + 1 /\ UNCHANGED <<slots, idx, msgs, dedup, rooms, ringLog, qqLog>>
    BY <1>2 DEF CacheTick
  <2>2. DedupInv(time + 1, dedup, qqLog)
    BY OlderDedup DEF CachesInv
  <2> QED BY <1>1, <2>1, <2>2 DEF CachesInv
<1>3. CASE DedupJanitor
  <2>1. /\ dedup' = Without(dedup, {m \in DOMAIN dedup : time - dedup[m] >= EntryTTL})
        /\ UNCHANGED <<time, slots, idx, msgs, rooms, ringLog, qqLog>>
    BY <1>3 DEF DedupJanitor
  <2>2. DedupInv(time, Without(dedup, {m \in DOMAIN dedup : time - dedup[m] >= EntryTTL}), qqLog)
    BY SweptDedup DEF CachesInv
  <2> QED BY <1>1, <2>1, <2>2 DEF CachesInv
<1>4. CASE RoomJanitor
  <2>1. rooms' = Without(rooms, TooOld) /\ UNCHANGED <<time, slots, idx, msgs, dedup, ringLog, qqLog>>
    BY <1>4 DEF RoomJanitor
  <2>2. Bounded(Without(rooms, TooOld))
    BY ForgetsBounded DEF CachesInv
  <2> QED BY <1>1, <2>1, <2>2 DEF CachesInv
<1>5. ASSUME NEW m \in Ids, Deliver(m) PROVE CachesInv'
  <2>1. /\ \A d \in DOMAIN dedup : dedup[d] < time
        /\ MarkMessageProcessed(m) /\ IsDuplicate(m) /\ UNCHANGED <<time, rooms>>
    BY <1>5 DEF Deliver
  <2>2. RingInv'
    BY <2>1, RingInvStep DEF CachesInv
  <2>3. DedupInv(time, dedup', qqLog')
    <3>1. CASE UNCHANGED <<dedup, qqLog>>
      BY <3>1 DEF CachesInv
    <3>2. CASE ~UNCHANGED <<dedup, qqLog>>
      <4>1. PICK old \in Oldest(dedup) \cup {NoName} :
              /\ (old = NoName) = (Cardinality(DOMAIN dedup) < Size)
              /\ dedup' = Entered(Without(dedup, {old}), m, time) /\ qqLog' = Append(qqLog, <<m, time>>)
        BY <2>1, <3>2 DEF IsDuplicate
      <4>2. DedupInv(time, Entered(Without(dedup, {old}), m, time), Append(qqLog, <<m, time>>))
        BY <2>1, <4>1, PassedDedup DEF CachesInv
      <4> QED BY <4>1, <4>2
    <3> QED BY <3>1, <3>2
  <2> QED BY <2>1, <2>2, <2>3 DEF CachesInv
<1>6. ASSUME NEW r \in Ids, IsGroupRoom(r) PROVE CachesInv'
  <2>1. UNCHANGED <<time, slots, idx, msgs, dedup, ringLog, qqLog>>
    BY <1>6 DEF IsGroupRoom
  <2>2. Bounded(rooms')
    <3>1. CASE UNCHANGED rooms
      BY <3>1 DEF CachesInv
    <3>2. CASE rooms' = Without(rooms, {r})
      BY <3>2, ForgetsBounded DEF CachesInv
    <3>3. CASE \E old \in Oldest(Without(rooms, TooOld)) \cup {NoName} :
                 /\ (old = NoName) = (Cardinality(DOMAIN Without(rooms, TooOld)) < Size)
                 /\ rooms' = Entered(Without(Without(rooms, TooOld), {old}), r, time)
      <4>1. Bounded(Without(rooms, TooOld))
        BY ForgetsBounded DEF CachesInv
      <4> QED BY <3>3, <4>1, LearnsBounded
    <3> QED BY <1>6, <3>1, <3>2, <3>3 DEF IsGroupRoom
  <2> QED BY <1>1, <2>1, <2>2 DEF CachesInv
<1>7. CASE UNCHANGED tableVars
  BY <1>7 DEF tableVars, CachesInv, RingInv, RingRemembers
<1> QED BY <1>2, <1>3, <1>4, <1>5, <1>6, <1>7 DEF CachesNext

\* The ring knows exactly the last messages that it let through (dedupe.go:31, onebot.go:1077), and
\* QQ's table knows a young one unless as many as it holds passed since (qq.go:531, 559): no janitor
\* and no eviction opens the door to a second delivery, and the tables stay within their size.
THEOREM TablesRemember == ASSUME CachesAssumption PROVE CachesSpec => []TablesSound
<1>1. ASSUME CachesInv PROVE TablesSound
  <2>1. qqLog \in Seq(Ids \X Nat) /\ DOMAIN qqLog = 1..Len(qqLog)
    BY <1>1 DEF CachesInv, DedupInv, LogInv
  <2>2. \A e \in LastPassed(qqLog, Size) : time - e[2] < EntryTTL => e[1] \in DOMAIN dedup
    BY <1>1, <2>1 DEF CachesInv, DedupInv, YoungKnown, LastPassed
  <2> QED BY <1>1, <2>2 DEF CachesInv, RingInv, DedupInv, Bounded, TablesSound, QQRemembers
<1>2. CachesAssumption
  OBVIOUS
<1> QED BY <1>1, <1>2, CachesInvInit, CachesInvStep, PTL DEF CachesSpec

-----------------------------------------------------------------------------
(* The reconnections of native WhatsApp (NativeLink).                      *)

RecPlaces == {"none", "check", "connect", "reset", "done"}
NativeLives == {"opening", "connecting", "failed", "up", "marked", "waiting", "stopped"}

\* Before the first connection nothing is lost and nobody connects again; a goroutine that does is
\* counted; and who stops has said so.
NativeInv ==
    /\ life \in NativeLives /\ rec \in [Rec -> RecPlaces]
    /\ life \in {"opening", "connecting", "failed"} =>
          ~connected /\ notice = 0 /\ counted = {} /\ \A k \in Rec : rec[k] = "none"
    /\ \A k \in Rec : rec[k] \in {"check", "connect", "reset"} => k \in counted
    /\ life \in {"marked", "waiting", "stopped"} => stopping
    /\ field => store
    /\ life = "stopped" => ~field
    /\ StoreOpenBelow

LEMMA NativeInvInit == NativeInit => NativeInv
  BY DEF NativeInit, NativeInv, NativeLives, RecPlaces, StoreOpenBelow

LEMMA NativeInvStep == NativeInv /\ [NativeNext]_nativeVars => NativeInv'
<1> SUFFICES ASSUME NativeInv, [NativeNext]_nativeVars PROVE NativeInv'
  OBVIOUS
<1> USE DEF NativeInv, NativeLives, RecPlaces, StoreOpenBelow
<1>1. CASE Opens
  BY <1>1 DEF Opens
<1>2. CASE Connects
  BY <1>2 DEF Connects
<1>3. CASE StartFails
  BY <1>3 DEF StartFails
<1>4. CASE QREnds
  \* zero is the goroutine that shows the codes, and no reconnection
  BY <1>4 DEF QREnds, Rec
<1>5. CASE Loses
  BY <1>5 DEF Loses
<1>6. CASE EventHandler
  <2>1. CASE reconnecting \/ stopping
    BY <1>6, <2>1 DEF EventHandler
  <2>2. CASE ~(reconnecting \/ stopping)
    <3>1. PICK k : counted' = counted \cup {k} /\ rec' = [rec EXCEPT ![k] = "check"]
      BY <1>6, <2>2 DEF EventHandler
    <3>2. rec' \in [Rec -> RecPlaces] /\ \A j \in Rec : rec'[j] = IF j = k THEN "check" ELSE rec[j]
      BY <3>1
    <3>3. /\ UNCHANGED <<life, stopping, field, store, connected, timedOut>>
          /\ life \notin {"opening", "connecting", "failed", "marked", "waiting", "stopped"}
      BY <1>6, <2>2 DEF EventHandler
    <3> QED BY <3>1, <3>2, <3>3
  <2> QED BY <2>1, <2>2
<1>7. CASE StopMarks
  BY <1>7 DEF StopMarks
<1>8. CASE StopDisconnects
  BY <1>8 DEF StopDisconnects
<1>9. CASE CloseStore
  BY <1>9 DEF CloseStore
<1>10. CASE \E k \in Rec : ReconnectStep(k)
  <2> SUFFICES ASSUME NEW k \in Rec, ReconnectStep(k) PROVE NativeInv'
    BY <1>10
  <2>1. UNCHANGED <<life, stopping, field, store, notice, timedOut>>
    BY DEF ReconnectStep
  <2>2. CASE /\ rec[k] = "check" /\ rec' = [rec EXCEPT ![k] = IF runDone \/ ~field THEN "reset" ELSE "connect"]
             /\ UNCHANGED <<reconnecting, counted, connected>>
    BY <2>1, <2>2
  <2>3. CASE /\ rec[k] = "connect" /\ rec' = [rec EXCEPT ![k] = "reset"] /\ UNCHANGED counted
    BY <2>1, <2>3
  <2>4. CASE /\ rec[k] = "connect" /\ rec' = [rec EXCEPT ![k] = IF runDone THEN "reset" ELSE "check"]
             /\ UNCHANGED counted
    BY <2>1, <2>4
  <2>5. CASE rec[k] = "reset" /\ rec' = [rec EXCEPT ![k] = "done"] /\ UNCHANGED counted
    BY <2>1, <2>5
  <2>6. CASE rec[k] = "done" /\ k \in counted /\ counted' = counted \ {k} /\ UNCHANGED rec
    BY <2>1, <2>6
  <2> QED BY <2>2, <2>3, <2>4, <2>5, <2>6 DEF ReconnectStep, Reconnect
<1>11. CASE UNCHANGED nativeVars
  BY <1>11 DEF nativeVars
<1> QED BY <1>1, <1>2, <1>3, <1>4, <1>5, <1>6, <1>7, <1>8, <1>9, <1>10, <1>11 DEF NativeNext

\* Once Stop waits, nobody is added to the wait group.
LEMMA CountedFalls ==
  NativeInv /\ [NativeNext]_nativeVars => (life \in {"waiting", "stopped"} => counted' \subseteq counted)
<1> SUFFICES ASSUME NativeInv, [NativeNext]_nativeVars, life \in {"waiting", "stopped"} PROVE counted' \subseteq counted
  OBVIOUS
<1>1. stopping
  BY DEF NativeInv
<1> QED BY <1>1 DEF NativeNext, Opens, Connects, StartFails, QREnds, Loses, EventHandler, StopMarks,
                    StopDisconnects, CloseStore, ReconnectStep, Reconnect, nativeVars

\* While a goroutine connects, the store that it uses is open, unless Stop ran out of time; and
\* once Stop waits, the wait group only gets smaller, so that the wait covers every reconnection
\* (eventHandler, reconnectWithBackoff, Stop).
THEOREM StopAwaitsReconnects == NativeSpec => NativeSound
<1>1. NativeInv /\ NativeInv' /\ [NativeNext]_nativeVars =>
        [/\ StoreOpenBelow' /\ (life \in {"waiting", "stopped"} => counted' \subseteq counted)]_nativeVars
  BY CountedFalls DEF NativeInv
<1> QED BY <1>1, NativeInvInit, NativeInvStep, PTL DEF NativeSpec, NativeSound

-----------------------------------------------------------------------------
(* The connection of OneBot (OneBotLink).                                  *)

\* Connections are numbered as they are dialled.
LinkTypes ==
    /\ dialled \in 0..Dials /\ alive \subseteq 1..dialled /\ conn \in 0..dialled
    /\ dialer \in [at : {"dial", "store", "listen", "wait", "end"}, new : 0..dialled]
    /\ reader \in [Conn -> {"none", "start", "read", "gone"}]
    /\ stopped \in BOOLEAN /\ (closing => stopped)

\* The dialler holds a connection from the dial to the start of its listener; nobody reads that one
\* yet, and until Stop nobody else puts one into the field or takes it out.
DialInv ==
    /\ \A k \in Conn : k > dialled => reader[k] = "none"
    /\ dialer.at \in {"store", "listen"} => dialer.new # NoConn /\ reader[dialer.new] = "none"
    /\ dialer.at \in {"dial", "wait", "end"} => dialer.new = NoConn
    /\ ~stopped => /\ dialer.at \in {"dial", "store"} => conn = NoConn
                   /\ dialer.at = "listen" => conn = dialer.new
LinkInv == LinkTypes /\ DialInv /\ LinkHeard

LEMMA LinkInvInit == LinkAssumption /\ LinkInit => LinkInv
<1> SUFFICES ASSUME LinkAssumption, LinkInit PROVE LinkInv
  OBVIOUS
<1>1. /\ dialled = 0 /\ alive = {} /\ conn = 0 /\ dialer = [at |-> "dial", new |-> 0]
      /\ reader = [k \in Conn |-> "none"] /\ stopped = FALSE /\ closing = FALSE /\ Dials \in Nat
  BY DEF LinkAssumption, LinkInit, NoConn
<1>2. dialer.at = "dial" /\ dialer.new = 0 /\ dialer \in [at : {"dial", "store", "listen", "wait", "end"}, new : 0..0]
  BY <1>1
<1>3. LinkTypes
  <2>1. dialled \in 0..Dials /\ conn \in 0..dialled /\ alive \subseteq 1..dialled
    BY <1>1
  <2>2. reader \in [Conn -> {"none", "start", "read", "gone"}]
    BY <1>1
  <2> QED BY <1>1, <1>2, <2>1, <2>2 DEF LinkTypes
<1>4. DialInv
  BY <1>1, <1>2 DEF DialInv, NoConn
<1> QED BY <1>1, <1>3, <1>4 DEF LinkInv, LinkHeard, NoConn

LEMMA LinkInvStep ==
  ASSUME LinkAssumption, LinkInv, [LinkNext]_linkVars
  PROVE  LinkInv'
<1> USE DEF LinkInv, LinkTypes, DialInv, LinkHeard, Conn, NoConn, LinkAssumption
<1>1. CASE Dial
  <2>1. CASE /\ dialled < Dials /\ dialled' = dialled + 1 /\ alive' = alive \cup {dialled + 1}
             /\ dialer' = [at |-> "store", new |-> dialled + 1]
    <3>1. dialer.at = "dial" /\ dialer.new = 0 /\ UNCHANGED <<conn, reader, stopped, closing>>
      BY <1>1 DEF Dial
    <3>2. dialer'.at = "store" /\ dialer'.new = dialled + 1 /\ dialled + 1 \in Conn
      BY <2>1
    <3>3. LinkTypes'
      BY <2>1, <3>1, <3>2
    <3> QED BY <2>1, <3>1, <3>2, <3>3
  <2>2. CASE dialer' = [at |-> "wait", new |-> NoConn] /\ UNCHANGED <<dialled, alive>>
    BY <1>1, <2>2 DEF Dial
  <2> QED BY <1>1, <2>1, <2>2 DEF Dial
<1>2. CASE StoreConn
  BY <1>2 DEF StoreConn
<1>3. CASE GoListen
  BY <1>3 DEF GoListen
<1>4. CASE ReconnectTick
  BY <1>4 DEF ReconnectTick
<1>5. CASE LinkStop
  BY <1>5 DEF LinkStop
<1>6. CASE StopCloses
  BY <1>6 DEF StopCloses
<1>7. ASSUME NEW k \in Conn, ListenLoads(k) PROVE LinkInv'
  BY <1>7 DEF ListenLoads
<1>8. ASSUME NEW k \in Conn, ListenEnds(k) PROVE LinkInv'
  BY <1>8 DEF ListenEnds
<1>9. ASSUME NEW k \in Conn, Lost(k) PROVE LinkInv'
  BY <1>9 DEF Lost
<1>10. ASSUME NEW r \in Requests, Ask(r) \/ Answered(r) \/ GivesUp(r) PROVE LinkInv'
  BY <1>10 DEF Ask, Answered, GivesUp
<1>11. CASE UNCHANGED linkVars
  BY <1>11 DEF linkVars
<1> QED BY <1>1, <1>2, <1>3, <1>4, <1>5, <1>6, <1>7, <1>8, <1>9, <1>10, <1>11
        DEF LinkNext, Dialling, Listening

\* Until Stop, the connection that the channel uses has a listener of its own, or the dialler is
\* about to start it, and no socket is open that the channel has given up (connect, listen,
\* reconnectLoop).  This is the first part of LinkSound.
THEOREM LinkIsHeard == ASSUME LinkAssumption PROVE LinkSpec => []LinkHeard
<1>1. LinkInv => LinkHeard
  BY DEF LinkInv
<1>2. LinkInit => LinkInv
  BY LinkInvInit
<1>3. LinkInv /\ [LinkNext]_linkVars => LinkInv'
  BY LinkInvStep
<1> QED BY <1>1, <1>2, <1>3, PTL DEF LinkSpec

-----------------------------------------------------------------------------
(* The streams of WeCom (WeComStreams).                                    *)

\* Whatever is under way for a task is under way for a text that has come, and only such texts are
\* in a table or finished.
StreamInv ==
    /\ came \in 0..Texts
    /\ chatTasks \subseteq 1..came /\ streamTasks \subseteq 1..came /\ finished \subseteq 1..came
    /\ DOMAIN poll = Stream /\ \A t \in Stream : poll[t] # "none" => t \in 1..came
    /\ send.at # "idle" => send.task \in 1..came
    /\ NoneStranded

LEMMA StreamInvInit == StreamsAssumption /\ StreamsInit => StreamInv
  BY DEF StreamsAssumption, StreamsInit, StreamInv, NoneStranded, NotSending, Stream

\* A task that is removed is finished, cancelled and in no table.
LEMMA StreamRemoves ==
  ASSUME StreamInv, NEW t \in 1..came, RemoveTask(t), came' = came
  PROVE  /\ chatTasks' \subseteq 1..came /\ streamTasks' \subseteq 1..came /\ finished' \subseteq 1..came
         /\ NoneStranded'
  BY DEF StreamInv, NoneStranded, RemoveTask, Spliced

\* The queue has a first task, if it has one.
LEMMA FirstOfQueue ==
  ASSUME NEW queue, queue # {}, queue \subseteq Nat
  PROVE  (CHOOSE t \in queue : \A u \in queue : t <= u) \in queue
<1> DEFINE Below == {ss \in Nat \X Nat : ss[1] < ss[2]}
<1>1. Below = OpToRel(<, Nat)
  BY DEF OpToRel
<1>2. IsWellFoundedOn(Below, Nat)
  BY <1>1, NatLessThanWellFounded
<1>3. PICK t \in queue : \A u \in queue : ~(<<u, t>> \in Below)
  <2> HIDE DEF Below
  <2> QED BY <1>2, WFMin
<1>4. \A u \in queue : t <= u
  <2> SUFFICES ASSUME NEW u \in queue, u < t PROVE FALSE
    OBVIOUS
  <2> QED BY <1>3
<1> QED BY <1>4

LEMMA StreamInvStep == StreamsAssumption /\ StreamInv /\ [StreamsNext]_streamVars => StreamInv'
<1> SUFFICES ASSUME StreamsAssumption, StreamInv, [StreamsNext]_streamVars PROVE StreamInv'
  OBVIOUS
<1>1. came \in 0..Texts /\ Texts \in Nat
  BY DEF StreamInv, StreamsAssumption
<1>2. CASE HandleText
  <2>1. came + 1 \in Stream /\ came' = came + 1 /\ came' \in 0..Texts
    BY <1>1, <1>2 DEF HandleText, Stream
  <2>2. /\ chatTasks' = chatTasks \cup {came + 1} /\ streamTasks' = streamTasks \cup {came + 1}
        /\ UNCHANGED <<finished, cancelled, send>> /\ poll' = [poll EXCEPT ![came + 1] = "look"]
    BY <1>2 DEF HandleText
  <2>3. 1..came' = (1..came) \cup {came + 1} /\ came + 1 \notin 1..came
    BY <1>1, <2>1
  <2>4. NoneStranded'
    BY <2>2, <2>3 DEF StreamInv, NoneStranded
  <2>5. DOMAIN poll' = Stream /\ \A t \in Stream : poll'[t] # "none" => t \in 1..came'
    BY <2>1, <2>2, <2>3 DEF StreamInv
  <2> QED BY <2>1, <2>2, <2>3, <2>4, <2>5 DEF StreamInv
<1>3. ASSUME NEW t \in Stream, PublishText(t) PROVE StreamInv'
  BY <1>3 DEF PublishText, StreamInv, NoneStranded
<1>4. ASSUME NEW t \in Stream, PollFinds(t) PROVE StreamInv'
  BY <1>4 DEF PollFinds, StreamInv, NoneStranded
<1>5. ASSUME NEW t \in Stream, PollLooks(t) PROVE StreamInv'
  BY <1>5 DEF PollLooks, StreamInv, NoneStranded
<1>6. ASSUME NEW t \in Stream, PollEnds(t) PROVE StreamInv'
  <2>1. t \in 1..came /\ poll' = [poll EXCEPT ![t] = "none"] /\ UNCHANGED <<came, send>>
    BY <1>6 DEF PollEnds, StreamInv
  <2>2. CASE RemoveTask(t)
    BY <2>1, <2>2, StreamRemoves DEF StreamInv
  <2>3. CASE streamTasks' = streamTasks \ {t} /\ UNCHANGED <<chatTasks, finished, cancelled>>
    BY <2>1, <2>3 DEF StreamInv, NoneStranded
  <2> QED BY <1>6, <2>2, <2>3 DEF PollEnds
<1>7. ASSUME NEW t \in Stream, DeadlinePasses(t) PROVE StreamInv'
  BY <1>7 DEF DeadlinePasses, StreamInv, NoneStranded
<1>8. CASE SendBegins
  <2> DEFINE queue == chatTasks \ finished
             first == CHOOSE t \in queue : \A u \in queue : t <= u
  <2>1. queue # {} => first \in 1..came
    <3>1. queue \subseteq 1..came /\ queue \subseteq Nat
      BY <1>1 DEF StreamInv
    <3> HIDE DEF queue
    <3> QED BY <3>1, FirstOfQueue
  <2>2. send'.at # "idle" => send'.task = first /\ queue # {}
    BY <1>8 DEF SendBegins, NotSending
  <2> HIDE DEF queue, first
  <2>3. UNCHANGED <<came, streamTasks, chatTasks, finished, cancelled, poll>>
    BY <1>8 DEF SendBegins
  <2> QED BY <2>1, <2>2, <2>3 DEF StreamInv, NoneStranded
<1>9. CASE SendPosts
  BY <1>9, StreamRemoves DEF SendPosts, StreamInv, NotSending
<1>10. CASE SendPuts
  BY <1>10 DEF SendPuts, StreamInv, NoneStranded, NotSending
<1>11. ASSUME NEW old \in SUBSET Stream, CleanupOldTasks(old) PROVE StreamInv'
  BY <1>11 DEF CleanupOldTasks, StreamInv, NoneStranded
<1>12. CASE UNCHANGED streamVars
  BY <1>12 DEF streamVars, StreamInv, NoneStranded
<1> QED BY <1>2, <1>3, <1>4, <1>5, <1>6, <1>7, <1>8, <1>9, <1>10, <1>11, <1>12
        DEF StreamsNext, Polling, Sending

\* A task leaves the queue in the step that finishes it, and what is out of the queue is cancelled
\* and found by no poll, whichever of polls, Send and the clean-up comes first (removeTask,
\* cleanupOldTasks).  This is the first part of StreamsSound.
THEOREM StreamsNotStranded == ASSUME StreamsAssumption PROVE StreamsSpec => []NoneStranded
<1>1. StreamInv => NoneStranded
  BY DEF StreamInv
<1> QED BY <1>1, StreamInvInit, StreamInvStep, PTL DEF StreamsSpec
=============================================================================
