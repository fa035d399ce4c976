----------------------------- MODULE QQReplies ------------------------------
(***************************************************************************)
(* The QQ adapter answers a message under its id and a running number      *)
(* (pkg/channels/qq/qq.go).  The handler of a message stores the id and    *)
(* then a new counter, both in maps without a lock around the two; Send    *)
(* reads the id, then the counter, and adds one to it.  Handlers and sends *)
(* of one chat run at the same time.                                       *)
(***************************************************************************)
EXTENDS Integers, FiniteSets

CONSTANTS Deliveries,   \* bound: messages that arrive in the chat, 1..Deliveries
          Senders,      \* calls of Send
          Handlers      \* goroutines of the client library that call the handlers

ASSUME RepliesAssumption == Deliveries \in Nat

VARIABLES arrived,     \* messages handed to a handler so far
          handling,    \* handling[h]: the message whose counter h has still to store, or 0
          lastMsgID,   \* 0: none
          counter,     \* the counter in the map; counters are named after their message
          value,       \* value[k]: what counter k has counted
          replying,    \* replying[s]: where a Send is, and what it has read
          posted       \* the answers: the Send, msg_id, msg_seq, and whose counter gave the number
repliesVars == <<arrived, handling, lastMsgID, counter, value, replying, posted>>

RepliesInit ==
    /\ arrived = 0 /\ handling = [h \in Handlers |-> 0] /\ lastMsgID = 0 /\ counter = 0
    /\ value = [k \in 0..Deliveries |-> 0] /\ posted = {}
    /\ replying = [s \in Senders |-> [at |-> "id", id |-> 0, seq |-> 0, of |-> 0]]

StoreMsgID(h) ==
    /\ handling[h] = 0 /\ arrived < Deliveries /\ arrived' = arrived + 1
    /\ handling' = [handling EXCEPT ![h] = arrived + 1] /\ lastMsgID' = arrived + 1
    /\ UNCHANGED <<counter, value, replying, posted>>
StoreCounter(h) ==
    /\ handling[h] # 0 /\ counter' = handling[h] /\ handling' = [handling EXCEPT ![h] = 0]
    /\ UNCHANGED <<arrived, lastMsgID, value, replying, posted>>

LoadMsgID(s) ==
    /\ replying[s].at = "id"
    /\ replying' = [replying EXCEPT ![s] = [at |-> IF lastMsgID = 0 THEN "post" ELSE "seq", id |-> lastMsgID, seq |-> 0, of |-> 0]]
    /\ UNCHANGED <<arrived, handling, lastMsgID, counter, value, posted>>
\* a number that is read, and counted only when the answer is out
LoadCounter_Peeks(s) ==
    /\ replying[s].at = "seq"
    /\ replying' = [replying EXCEPT ![s] = [@ EXCEPT !.at = "post", !.seq = IF counter = 0 THEN 0 ELSE value[counter] + 1,
                                                      !.of = counter]]
    /\ UNCHANGED <<arrived, handling, lastMsgID, counter, value, posted>>
LoadCounter(s) ==
    /\ replying[s].at = "seq"
    /\ IF counter = 0 THEN replying' = [replying EXCEPT ![s].at = "post"] /\ UNCHANGED value
       ELSE /\ value' = [value EXCEPT ![counter] = @ + 1]
            /\ replying' = [replying EXCEPT ![s] = [@ EXCEPT !.at = "post", !.seq = value[counter] + 1, !.of = counter]]
    /\ UNCHANGED <<arrived, handling, lastMsgID, counter, posted>>
PostMessage(s) ==
    /\ replying[s].at = "post" /\ posted' = posted \cup {<<s, replying[s].id, replying[s].seq, replying[s].of>>}
    /\ replying' = [replying EXCEPT ![s].at = "done"]
    /\ UNCHANGED <<arrived, handling, lastMsgID, counter, value>>

RepliesNext ==
    \/ \E h \in Handlers : StoreMsgID(h) \/ StoreCounter(h)
    \/ \E s \in Senders : LoadMsgID(s) \/ LoadCounter(s) \/ PostMessage(s)
RepliesSpec == RepliesInit /\ [][RepliesNext]_repliesVars
-----------------------------------------------------------------------------
\* The platform drops a second answer with the same message id and number
\* (qq.go:208, "Increment msg_seq atomically for multi-part replies"): answers to one
\* message that its own counter numbered have numbers of their own.
NumbersUnique ==
    \A p, q \in posted : (p[1] # q[1] /\ p[2] = q[2] /\ p[4] = p[2] /\ q[4] = q[2] /\ p[2] # 0) => p[3] # q[3]

\* The same of all numbered answers.  (Does not hold: a Send between the two stores of a
\* handler numbers an answer to the new message with the counter of the one before.)
PairsUnique ==
    \A p, q \in posted : p[1] # q[1] /\ p[3] # 0 => <<p[2], p[3]>> # <<q[2], q[3]>>
=============================================================================
