-------------------------- MODULE ChannelPresence ---------------------------
(***************************************************************************)
(* What a chat shows while the agent thinks: a typing indicator, a         *)
(* reaction to the message, a placeholder (pkg/channels/base.go,           *)
(* HandleMessage, and manager.go).  The handler of a message starts them   *)
(* and records in the manager how to end them, under the key of the chat;  *)
(* an answer to the chat takes what is recorded and ends it, and a janitor *)
(* does it for what has grown old.  One chat of one channel is modelled;   *)
(* what an indicator does depends on the adapter.                          *)
(***************************************************************************)
EXTENDS Integers, FiniteSets

CONSTANTS Incoming,  \* the messages that users write in the chat
          Answerers  \* workers and SendMessage calls with an answer to it

Kinds == {"typing", "reaction", "placeholder"}
NoEntry  == "none"
ASSUME PresenceAssumption == NoEntry \notin Incoming

VARIABLES adapter,   \* how its typing indicators work, see Started and Stopped
          handler,   \* handler[m]: the next step of HandleMessage, and the entry it replaced
          recorded,  \* recorded[k]: the entry of the chat in the manager's map k
          aged,      \* the messages whose entries are older than typingStopTTL, placeholderTTL
          showing,   \* showing[k]: the messages for which the chat shows k
          answer,    \* answer[w]: the next step of preSend, and what it took
          janitor,   \* <<k, m>>: it has seen the old entry m in map k
          swept      \* entries that the janitor took without ending them
presenceVars == <<adapter, handler, recorded, aged, showing, answer, janitor, swept>>

PresenceInit ==
    /\ adapter \in {"per_call", "per_session", "per_chat"}
    /\ handler = [m \in Incoming |-> [at |-> "typing", old |-> NoEntry]]
    /\ recorded = [k \in Kinds |-> NoEntry] /\ aged = {}
    /\ showing = [k \in Kinds |-> {}]
    /\ answer = [w \in Answerers |-> [at |-> "typing", took |-> NoEntry]]
    /\ janitor = <<>> /\ swept = {}

\* telegram, line, qq: a goroutine for each call of StartTyping.  matrix: a new session
\* ends the one before.  discord, irc, pico: one indicator, whoever asked for it.
Started(m) == IF adapter = "per_call" THEN showing.typing \cup {m} ELSE {m}
Stopped(m) == IF adapter = "per_chat" THEN {} ELSE showing.typing \ {m}
Ended(k, m) == [showing EXCEPT ![k] = IF k = "typing" THEN Stopped(m) ELSE @ \ {m}]

Records == [typing |-> "record typing", reaction |-> "record reaction", placeholder |-> "record placeholder"]
Follows(k) == CASE k = "typing" -> "reaction" [] k = "reaction" -> "placeholder" [] OTHER -> "publish"

\* StartTyping, ReactToMessage, SendPlaceholder; an error, or a channel without it, goes on.
Show(m) ==
    /\ handler[m].at \in Kinds
    /\ LET k == handler[m].at
       IN  \/ /\ showing' = [showing EXCEPT ![k] = IF k = "typing" THEN Started(m) ELSE @ \cup {m}]
              /\ handler' = [handler EXCEPT ![m].at = Records[k]]
           \/ /\ handler' = [handler EXCEPT ![m].at = Follows(k)] /\ UNCHANGED showing
    /\ UNCHANGED <<adapter, recorded, aged, answer, janitor, swept>>

\* a RecordTypingStop that stores like the other two
RecordTypingStop_Stores(m) ==
    /\ handler[m].at = "record typing"
    /\ recorded' = [recorded EXCEPT !["typing"] = m]
    /\ handler' = [handler EXCEPT ![m].at = "reaction"]
    /\ UNCHANGED <<adapter, aged, showing, answer, janitor, swept>>
\* Swap, and then the stop of the previous entry.
RecordTypingStop(m) ==
    \/ /\ handler[m].at = "record typing"
       /\ recorded' = [recorded EXCEPT !["typing"] = m]
       /\ handler' = [handler EXCEPT ![m] =
              [at |-> IF recorded.typing = NoEntry THEN "reaction" ELSE "stop previous", old |-> recorded.typing]]
       /\ UNCHANGED <<adapter, aged, showing, answer, janitor, swept>>
    \/ /\ handler[m].at = "stop previous" /\ showing' = Ended("typing", handler[m].old)
       /\ handler' = [handler EXCEPT ![m] = [at |-> "reaction", old |-> NoEntry]]
       /\ UNCHANGED <<adapter, recorded, aged, answer, janitor, swept>>
RecordReactionUndo(m) ==
    /\ handler[m].at = "record reaction" /\ handler' = [handler EXCEPT ![m].at = "placeholder"]
    /\ recorded' = [recorded EXCEPT !["reaction"] = m]
    /\ UNCHANGED <<adapter, aged, showing, answer, janitor, swept>>
RecordPlaceholder(m) ==
    /\ handler[m].at = "record placeholder" /\ handler' = [handler EXCEPT ![m].at = "publish"]
    /\ recorded' = [recorded EXCEPT !["placeholder"] = m]
    /\ UNCHANGED <<adapter, aged, showing, answer, janitor, swept>>

\* preSend: LoadAndDelete of each map, and then stop, undo, or the edit that turns the
\* placeholder into the answer, which may fail.
PreSend(w) ==
    /\ answer[w].at \in Kinds
    /\ LET k == answer[w].at  m == answer[w].took
       IN  \/ /\ m = NoEntry /\ recorded[k] # NoEntry
              /\ answer' = [answer EXCEPT ![w].took = recorded[k]]
              /\ recorded' = [recorded EXCEPT ![k] = NoEntry] /\ UNCHANGED showing
           \/ /\ m = NoEntry /\ recorded[k] = NoEntry /\ answer' = [answer EXCEPT ![w].at = Follows(k)]
              /\ UNCHANGED <<recorded, showing>>
           \/ /\ m # NoEntry /\ answer' = [answer EXCEPT ![w] = [at |-> Follows(k), took |-> NoEntry]]
              /\ \/ showing' = Ended(k, m)
                 \/ k = "placeholder" /\ UNCHANGED showing
              /\ UNCHANGED recorded
    /\ UNCHANGED <<adapter, handler, aged, janitor, swept>>

Ages ==
    /\ aged' = {recorded[k] : k \in Kinds} \ {NoEntry} /\ aged' # aged
    /\ UNCHANGED <<adapter, handler, recorded, showing, answer, janitor, swept>>
\* runTTLJanitor: Range shows an entry, and LoadAndDelete removes what is there by then.
JanitorSees(k) ==
    /\ janitor = <<>> /\ recorded[k] \in aged
    /\ IF k = "placeholder" THEN recorded' = [recorded EXCEPT ![k] = NoEntry] /\ UNCHANGED janitor
       ELSE janitor' = <<k, recorded[k]>> /\ UNCHANGED recorded
    /\ UNCHANGED <<adapter, handler, aged, showing, answer, swept>>
JanitorTakes ==
    /\ janitor # <<>> /\ janitor' = <<>>
    /\ LET k == janitor[1]  m == janitor[2]
       IN  IF recorded[k] = NoEntry THEN UNCHANGED <<recorded, showing, swept>>
           ELSE /\ recorded' = [recorded EXCEPT ![k] = NoEntry] /\ showing' = Ended(k, m)
                /\ swept' = swept \cup ({<<k, recorded[k]>>} \ {<<k, m>>})
    /\ UNCHANGED <<adapter, handler, aged, answer>>
\* line and discord give an indicator up after an error or five minutes.
TypingFades(m) ==
    /\ m \in showing.typing /\ showing' = [showing EXCEPT !["typing"] = @ \ {m}]
    /\ UNCHANGED <<adapter, handler, recorded, aged, answer, janitor, swept>>

Handling(m) == Show(m) \/ RecordTypingStop(m) \/ RecordReactionUndo(m) \/ RecordPlaceholder(m)
PresenceNext ==
    \/ Ages \/ JanitorTakes
    \/ \E m \in Incoming : Handling(m) \/ TypingFades(m)
    \/ \E w \in Answerers : PreSend(w)
    \/ \E k \in Kinds : JanitorSees(k)
PresenceSpec == PresenceInit /\ [][PresenceNext]_presenceVars
-----------------------------------------------------------------------------
\* Whoever still has to end the indicator k of m.
InCharge(k, m) ==
    \/ recorded[k] = m
    \/ handler[m].at = Records[k]
    \/ k = "typing" /\ \E n \in Incoming : handler[n].old = m
    \/ \E w \in Answerers : answer[w].at = k /\ answer[w].took = m
    \/ janitor = <<k, m>>

\* A typing indicator is never left running with nobody to stop it, whatever messages
\* and answers cross (manager.go:128), except for the one that the janitor takes
\* for another (manager.go:762).
NoneLeftTyping == \A m \in showing.typing : InCharge("typing", m) \/ <<"typing", m>> \in swept

\* The same of a reaction: an answer undoes it (interfaces.go:39).  (Does not hold:
\* the undo of an earlier message in the chat is overwritten by the next one's.)
NoneLeftReacted == \A m \in showing.reaction : InCharge("reaction", m)
=============================================================================
