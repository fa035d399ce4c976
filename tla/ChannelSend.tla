---------------------------- MODULE ChannelSend -----------------------------
(***************************************************************************)
(* What happens to one outgoing message once the manager hands it to an    *)
(* adapter: the calls that each adapter under pkg/channels makes for it,   *)
(* which of them it gives up on, how it classifies an error, and how the   *)
(* manager's retry starts it from the beginning (manager.go, sendWithRetry *)
(* and sendMediaWithRetry).                                                *)
(*                                                                         *)
(* A message is a sequence of parts: chunks, lines or media.  An adapter's *)
(* plan says which parts go into one call to the platform (a unit), which  *)
(* calls are tried for a unit, one after the other, and what an error of   *)
(* the last one is called.  A call is answered, refused, or cut off after  *)
(* it arrived; one that is cut off may also arrive later, if nothing       *)
(* cancels it.                                                             *)
(***************************************************************************)
EXTENDS Integers, Sequences, FiniteSets

CONSTANTS Parts,       \* bound: parts of a message
          MaxRetries   \* manager.go: maxRetries, further attempts

ASSUME SendAssumption == Parts \in Nat \ {0} /\ MaxRetries \in Nat

VARIABLES message,   \* the adapter, the lane, and the state of each part
          token,     \* line: a fresh reply token is stored for the chat
          attempt,   \* attempts of the manager that have begun
          at, try,   \* the unit and the call of it that comes next
          shown,     \* shown[p]: how often the chat has seen part p
          cut,       \* cut[p]: calls with p whose answer did not come
          redone,    \* redone[p]: attempts that failed after p was accepted
          late,      \* calls that may still arrive
          outcome    \* "sending", "nil", or the class of the last error
sendVars == <<message, token, attempt, at, try, shown, cut, redone, late, outcome>>

\* A part is there, or its reference, file or upload is not.
PartState == {"there", "gone"}
Indices   == 1..Parts
Plan(units, tries, classes) == [units |-> units, tries |-> tries, classes |-> classes]
\* One call for each part that is there, in order, or one call for all of them.
Each(parts)    == LET There(i) == parts[i] = "there"
                  IN  [k \in 1..Cardinality({i \in DOMAIN parts : There(i)}) |->
                         {CHOOSE i \in DOMAIN parts : There(i) /\ Cardinality({j \in 1..i : There(j)}) = k}]
Together(parts) == LET there == {i \in DOMAIN parts : parts[i] = "there"}
                   IN  IF there = {} THEN <<>> ELSE <<there>>
Whole(parts)   == <<DOMAIN parts>>

Temporary    == {"temporary"}
\* An error of the adapter's own, such as no connection, has no class and is retried.
Unclassified == {"temporary", "raw"}
\* ClassifyNetError and ClassifySendError: 429, 5xx, 4xx, and anything else as it is.
Classified == {"temporary", "rate", "permanent", "raw"}

\* telegram: a chunk goes out as HTML, and after any error again as plain text.
TelegramSend(parts)      == Plan(Each(parts), 2, Temporary)
\* a loop that stops at the first reference that does not resolve, without an error
TelegramSendMedia_Breaks(parts) ==
    Plan(IF parts[1] = "gone" THEN <<>> ELSE Each(parts), 1, Temporary)
TelegramSendMedia(parts) == Plan(Each(parts), 1, Temporary)
\* discord: one call in a goroutine of its own, left behind after sendTimeout.
DiscordSend(parts)       == Plan(Whole(parts), 1, Unclassified)
DiscordSendMedia(parts)  == Plan(Together(parts), 1, Unclassified)
SlackSend(parts)         == Plan(Whole(parts), 1, Temporary)
SlackSendMedia(parts)    == Plan(Each(parts), 1, Temporary)
\* line: the reply token is used up by the first attempt; then the message is pushed.
LineSend(parts)          == Plan(Whole(parts), IF token THEN 2 ELSE 1, Classified)
\* It has no upload: every part is announced by its caption, resolved or not.
LineSendMedia(parts)     == Plan([i \in DOMAIN parts |-> {i}], 1, Classified)
QQSend(parts)            == Plan(Whole(parts), 1, Temporary)
QQSendMedia(parts)       == Plan(Each(parts), 1, Temporary)
\* irc: a line for each line of the text; the library's error is not looked at.
IRCSend(parts)           == Plan(Each(parts), 1, {"ignored"})
DingTalkSend(parts)      == Plan(Whole(parts), 1, Unclassified)
FeishuSend(parts)        == Plan(Whole(parts), 1, Temporary)
FeishuSendMedia(parts)   == Plan(Each(parts), 1, Temporary)
OneBotSend(parts)        == Plan(Whole(parts), 1, Unclassified)
OneBotSendMedia(parts)   == Plan(Together(parts), 1, Unclassified)
WhatsAppSend(parts)      == Plan(Whole(parts), 1, Temporary)
NativeSend(parts)        == Plan(Whole(parts), 1, Temporary)
MatrixSend(parts)        == Plan(Whole(parts), 1, Temporary)
MatrixSendMedia(parts)   == Plan(Each(parts), 1, Temporary)
WeComBotSend(parts)      == Plan(Whole(parts), 1, Classified)
WeComAppSend(parts)      == Plan(Whole(parts), 1, Classified)
\* wecom_app: a part whose upload fails is skipped, after its caption.
WeComAppSendMedia(parts) == Plan(Each(parts), 1, Classified)
\* maixcam: all devices that are connected, and again all after one error.
MaixCamSend(parts)       == Plan(Whole(parts), 1, Unclassified)

PlanOf(m, parts) ==
    CASE m.by = "telegram" -> IF m.lane = "text" THEN TelegramSend(parts) ELSE TelegramSendMedia(parts)
      [] m.by = "discord"  -> IF m.lane = "text" THEN DiscordSend(parts) ELSE DiscordSendMedia(parts)
      [] m.by = "slack"    -> IF m.lane = "text" THEN SlackSend(parts) ELSE SlackSendMedia(parts)
      [] m.by = "line"     -> IF m.lane = "text" THEN LineSend(parts) ELSE LineSendMedia(parts)
      [] m.by = "qq"       -> IF m.lane = "text" THEN QQSend(parts) ELSE QQSendMedia(parts)
      [] m.by = "feishu"   -> IF m.lane = "text" THEN FeishuSend(parts) ELSE FeishuSendMedia(parts)
      [] m.by = "onebot"   -> IF m.lane = "text" THEN OneBotSend(parts) ELSE OneBotSendMedia(parts)
      [] m.by = "matrix"   -> IF m.lane = "text" THEN MatrixSend(parts) ELSE MatrixSendMedia(parts)
      [] m.by = "wecom_app" -> IF m.lane = "text" THEN WeComAppSend(parts) ELSE WeComAppSendMedia(parts)
      [] m.by = "irc"      -> IRCSend(parts)
      [] m.by = "dingtalk" -> DingTalkSend(parts)
      [] m.by = "whatsapp" -> WhatsAppSend(parts)
      [] m.by = "whatsapp_native" -> NativeSend(parts)
      [] m.by = "wecom"    -> WeComBotSend(parts)
      [] OTHER             -> MaixCamSend(parts)
MediaSenders == {"telegram", "discord", "slack", "line", "qq", "feishu", "onebot", "matrix", "wecom_app"}
TextSenders  == MediaSenders \cup {"irc", "dingtalk", "whatsapp", "whatsapp_native", "wecom", "maixcam"}
\* The manager splits long texts; what an adapter still sends in several calls:
InPieces     == {"telegram", "irc"}
Untimed      == {"discord"}   \* its call does not end with the context

SendInit ==
    /\ message \in
         {[by |-> a, lane |-> "text", parts |-> [i \in 1..(IF a \in InPieces THEN Parts ELSE 1) |-> "there"]] :
              a \in TextSenders}
         \cup {[by |-> a, lane |-> "media", parts |-> p] : a \in MediaSenders, p \in [Indices -> PartState]}
    /\ token \in (IF message.by = "line" /\ message.lane = "text" THEN BOOLEAN ELSE {FALSE})
    /\ attempt = 1 /\ at = 1 /\ try = 1 /\ late = {} /\ outcome = "sending"
    /\ shown = [i \in Indices |-> 0] /\ cut = [i \in Indices |-> 0] /\ redone = [i \in Indices |-> 0]

Mine  == PlanOf(message, message.parts)
Unit  == Mine.units[at]
Calling == outcome = "sending" /\ at <= Len(Mine.units)
\* One more of each of the parts ps.
More(count, ps) == [i \in Indices |-> IF i \in ps THEN count[i] + 1 ELSE count[i]]
Before   == UNION {Mine.units[k] : k \in 1..at - 1}

\* The platform takes the call.
Accepted ==
    /\ Calling /\ shown' = More(shown, Unit)
    /\ at' = at + 1 /\ try' = 1 /\ token' = FALSE
    /\ UNCHANGED <<message, attempt, cut, redone, late, outcome>>

\* The loop of the manager after an error of class c: not running and send failed end
\* it, anything else is retried from the first part, until the attempts are used up.
AfterError(c) ==
    /\ redone' = More(redone, Before) /\ token' = FALSE
    /\ IF c = "permanent" \/ attempt > MaxRetries
       THEN outcome' = c /\ UNCHANGED <<attempt, at, try>>
       ELSE attempt' = attempt + 1 /\ at' = 1 /\ try' = 1 /\ UNCHANGED outcome

\* The call fails: the next kind of call for the unit, or the error is returned.
NotAccepted(reached) ==
    /\ Calling
    /\ IF reached
       THEN /\ cut' = More(cut, Unit)
            /\ \/ shown' = More(shown, Unit) /\ UNCHANGED late
               \/ message.by \in Untimed /\ late' = late \cup {<<attempt, at>>} /\ UNCHANGED shown
       ELSE UNCHANGED <<cut, shown, late>>
    /\ \/ /\ try < Mine.tries /\ try' = try + 1
          /\ UNCHANGED <<token, attempt, at, redone, outcome>>
       \/ /\ try = Mine.tries /\ "ignored" \in Mine.classes /\ at' = at + 1
          /\ UNCHANGED <<token, attempt, try, redone, outcome>>
       \/ /\ try = Mine.tries /\ \E c \in Mine.classes \ {"ignored"} : AfterError(c)
    /\ UNCHANGED message
Refused == NotAccepted(FALSE)
CutOff  == NotAccepted(TRUE)

\* A call that nobody waits for any more arrives.
ArrivesLate(k) ==
    /\ k \in late /\ late' = late \ {k} /\ shown' = More(shown, Mine.units[k[2]])
    /\ UNCHANGED <<message, token, attempt, at, try, cut, redone, outcome>>

\* Send returns nil after the last unit.
Returns ==
    /\ outcome = "sending" /\ at > Len(Mine.units) /\ outcome' = "nil"
    /\ UNCHANGED <<message, token, attempt, at, try, shown, cut, redone, late>>

SendNext == Accepted \/ Refused \/ CutOff \/ Returns \/ \E k \in late : ArrivesLate(k)
SendSpec == SendInit /\ [][SendNext]_sendVars
-----------------------------------------------------------------------------
\* When the manager takes a message for sent, the chat has seen every part that could
\* be resolved: a part is skipped only if it is gone.  IRC does not notice a line
\* that was not sent (irc.go:154), and LINE says something for what is gone too.
NilMeansShown ==
    outcome = "nil" /\ message.by # "irc" =>
        \A p \in DOMAIN message.parts : message.parts[p] = "there" => shown[p] > 0

\* A part is seen again only for a reason that the adapter cannot help: an answer that
\* did not come, or a later part of the same message that failed and made the manager
\* start again (manager.go:745 repeats the whole message).
RepeatsExplained == \A p \in Indices : shown[p] <= 1 + cut[p] + redone[p]

\* The two of above, of the Send and SendMedia of the adapters and sendWithRetry.
DeliverySound == NilMeansShown /\ RepeatsExplained
=============================================================================
