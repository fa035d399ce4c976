--------------------------- MODULE ChannelIntake ----------------------------
(***************************************************************************)
(* What the adapters under pkg/channels make of one message of their       *)
(* platform, from the handler of the event to BaseChannel.HandleMessage:   *)
(* whom they listen to, when they answer in a group, what they download,   *)
(* and what they publish on the bus.  One state is one event; each action  *)
(* is the handler of one adapter.                                          *)
(*                                                                         *)
(* Texts are "words", "note" (only what the adapter adds, such as          *)
(* "[image]"), "bare" (nothing but the mention of the bot, or the prefix)  *)
(* or "none".  A media scope is the pair of a chat and a message id.       *)
(***************************************************************************)
EXTENDS FiniteSets

VARIABLES event,   \* what the platform delivers, with the configuration it meets
          willAnswer   \* the adapter that handled it and what came of it
intakeVars == <<event, willAnswer>>

\* self: the bot's own message; listed: the sender is on the allow list, or there is
\* none; file: an attachment and whether it can be downloaded; trigger: group_trigger.
Events ==
    {e \in [self : BOOLEAN, listed : BOOLEAN, group : BOOLEAN, thread : BOOLEAN, mention : BOOLEAN,
            prefix : BOOLEAN, text : {"none", "bare", "words"}, file : {"none", "ok", "lost"},
            trigger : {"open", "mention", "prefix"}] :
        /\ e.thread => e.group
        /\ e.prefix => e.trigger = "prefix" /\ ~e.mention /\ e.text # "none"
        /\ e.mention => e.text # "none"
        /\ e.text = "bare" => e.mention \/ e.prefix}

Nothing  == [by |-> "nobody", out |-> {}, fetched |-> FALSE, noted |-> FALSE]
\* The handler ignores the event; `noted' if it has changed what it keeps about the
\* chat, `fetched' if it has downloaded the attachment.
Ignored(noted, fetched) == [out |-> {}, fetched |-> fetched, noted |-> noted]

IntakeInit == event \in Events /\ willAnswer = Nothing
Handle(adapter, r) ==
    /\ willAnswer = Nothing /\ UNCHANGED event
    /\ willAnswer' = [by |-> adapter, out |-> r.out, fetched |-> r.fetched, noted |-> r.noted]

ShouldRespondInGroup(e, mentioned) ==
    \/ mentioned \/ e.trigger = "open"
    \/ e.trigger = "prefix" /\ e.prefix
\* What TrimSpace and the removal of the mention or the prefix leave of a text.
Left(t)      == IF t = "bare" THEN "none" ELSE t
Noting(t, n) == IF t = "none" /\ n THEN "note" ELSE t
Chat(e)      == IF e.thread THEN "chat/thread" ELSE "chat"

\* BuildMediaScope; an adapter that has no message id passes "".
Scope(chat, id, call) == <<chat, IF id = "" THEN call ELSE id>>
Stored(e, scope)      == IF e.file = "ok" THEN {scope} ELSE {}

\* HandleMessage: only what an allowed sender wrote is published.
HandleMessage(e, chat, id, text, media) ==
    [out |-> IF e.listed THEN {[text |-> text, media |-> media, scope |-> Scope(chat, id, "own1")]} ELSE {},
     fetched |-> media # {}, noted |-> FALSE]

\* telegram: strangers first; the media scope names the chat without its topic.
TelegramMessage(e) ==
    LET fetched == e.file = "ok"
        content == Noting(e.text, TRUE)     \* "[photo]", or "[empty message]"
        cleaned == IF fetched /\ content = "bare" THEN "note" ELSE Left(content)
    IN  CASE ~e.listed -> Ignored(FALSE, FALSE)
          [] e.listed /\ e.group /\ ~ShouldRespondInGroup(e, e.mention) -> Ignored(FALSE, fetched)
          [] OTHER -> HandleMessage(e, Chat(e), "id", IF e.group THEN cleaned ELSE content,
                                    Stored(e, Scope("chat", "id", "own2")))

\* a handler that downloads before it looks at the list
DiscordMessage_LateList(e) ==
    IF e.self \/ ~e.listed THEN Ignored(FALSE, e.file = "ok")
    ELSE HandleMessage(e, "chat", "id", Noting(Left(e.text), e.file # "none"),
                       Stored(e, Scope("chat", "id", "own2")))
\* discord: an attachment that cannot be downloaded is named by its address.
DiscordMessage(e) ==
    LET text == Noting(Left(e.text), e.file # "none")
    IN  CASE e.self \/ ~e.listed -> Ignored(FALSE, FALSE)
          [] ~e.self /\ e.listed /\ e.group /\ ~ShouldRespondInGroup(e, e.mention) -> Ignored(FALSE, FALSE)
          [] ~e.self /\ e.listed /\ text = "none" -> Ignored(FALSE, FALSE)
          [] OTHER -> HandleMessage(e, "chat", "id", text, Stored(e, Scope("chat", "id", "own2")))

\* slack: a message in a channel counts as not addressed to the bot ...
SlackMessage(e) ==
    LET text == Noting(Left(e.text), e.file = "ok")
    IN  CASE e.self \/ ~e.listed -> Ignored(FALSE, FALSE)
          [] ~e.self /\ e.listed /\ e.group /\ ~ShouldRespondInGroup(e, FALSE) -> Ignored(TRUE, FALSE)
          [] ~e.self /\ e.listed /\ text = "none" -> Ignored(TRUE, FALSE)
          [] OTHER -> HandleMessage(e, Chat(e), "id", text, Stored(e, Scope(Chat(e), "id", "own2")))
\* ... and a mention arrives as an event of its own, which starts a thread.
SlackMention(e) ==
    IF e.self \/ ~e.listed \/ ~e.mention \/ Left(e.text) = "none" THEN Ignored(e.listed, FALSE)
    ELSE HandleMessage(e, "chat/thread", "id", "words", {})
SlackSlash(e) ==
    IF ~e.listed THEN Ignored(FALSE, FALSE)
    ELSE HandleMessage(e, "chat", "", IF e.text = "none" THEN "note" ELSE e.text, {})

\* line: the reply token and the attachment are taken from anybody.
LineEvent(e) ==
    LET fetched == e.file = "ok"
        text == IF e.file = "none" THEN (IF e.group THEN Left(e.text) ELSE e.text)
                ELSE IF fetched THEN "note" ELSE "none"
    IN  IF \/ text = "none" \/ ~e.listed
           \/ e.group /\ ~ShouldRespondInGroup(e, e.mention)
        THEN Ignored(TRUE, fetched)
        ELSE HandleMessage(e, "chat", "id", text, Stored(e, Scope("chat", "id", "own2")))

\* qq: private messages, and group messages that mention the bot; files are not read.
QQMessage(e) ==
    IF e.text = "none" \/ ~e.listed THEN Ignored(e.text # "none", FALSE)
    ELSE HandleMessage(e, "chat", "id", IF e.group THEN Left(e.text) ELSE e.text, {})

IRCMessage(e) ==
    LET text == IF e.group THEN Left(e.text) ELSE e.text
    IN  IF \/ e.self \/ ~e.listed \/ text = "none"
           \/ e.group /\ ~ShouldRespondInGroup(e, e.mention)
        THEN Ignored(FALSE, FALSE)
        ELSE HandleMessage(e, "chat", "id", text, {})

\* dingtalk: the webhook for answers is kept first; in a group nobody counts as mentioned.
DingTalkMessage(e) ==
    IF \/ e.text = "none" \/ ~e.listed
       \/ e.group /\ ~ShouldRespondInGroup(e, FALSE)
    THEN Ignored(e.text # "none", FALSE)
    ELSE HandleMessage(e, "chat", "", IF e.group THEN Left(e.text) ELSE e.text, {})

\* maixcam: a camera reports a person.
MaixCamDetection(e) == IF ~e.listed THEN Ignored(FALSE, FALSE) ELSE HandleMessage(e, "chat", "", "note", {})

\* feishu: the attachment is downloaded once the sender is known to be allowed.
FeishuMessage(e) ==
    LET fetched == e.file = "ok"
        content == Noting(IF fetched /\ e.text = "bare" THEN "note" ELSE e.text, TRUE)
    IN  CASE ~e.listed -> Ignored(FALSE, FALSE)
          [] e.listed /\ e.group /\ ~ShouldRespondInGroup(e, e.mention) -> Ignored(FALSE, fetched)
          [] OTHER -> HandleMessage(e, "chat", "id", IF e.group THEN Left(content) ELSE content,
                                    Stored(e, Scope("chat", "id", "own2")))

\* whatsapp: the bridge has no group trigger, and the paths of its media are passed on.
WhatsAppMessage(e) == IF ~e.listed THEN Ignored(FALSE, FALSE) ELSE HandleMessage(e, "chat", "id", e.text, {})

\* pico: the web chat.
PicoMessageSend(e) ==
    IF e.text = "none" \/ ~e.listed THEN Ignored(FALSE, FALSE) ELSE HandleMessage(e, "chat", "id", e.text, {})

\* onebot: files are fetched before the message is known to be for the bot.
OneBotMessage(e) ==
    LET fetched == e.file = "ok"
        text == Noting(IF e.group THEN Left(e.text) ELSE e.text, fetched)
    IN  CASE ~e.listed -> Ignored(FALSE, FALSE)
          [] e.listed /\ (text = "none" \/ (e.group /\ ~ShouldRespondInGroup(e, e.mention))) -> Ignored(TRUE, fetched)
          [] OTHER -> HandleMessage(e, "chat", "id", text, Stored(e, Scope("chat", "id", "own2")))

\* matrix: as LINE, the attachment comes before the list.  A room whose members cannot
\* be fetched counts as a private chat.
MatrixMessage(e) ==
    LET fetched == e.file = "ok"
        text == IF e.file # "none" THEN "note" ELSE Left(e.text)
    IN  IF \/ e.self \/ ~e.listed \/ text = "none"
           \/ e.group /\ ~ShouldRespondInGroup(e, e.mention)
        THEN Ignored(FALSE, ~e.self /\ fetched)
        ELSE HandleMessage(e, "chat", "id", text, Stored(e, Scope("chat", "id", "own2")))

\* wecom: a message is remembered as processed first; a picture is published as an
\* empty text, and nobody counts as mentioned in a group.
WeComBotMessage(e) ==
    IF (e.group /\ ~ShouldRespondInGroup(e, FALSE)) \/ ~e.listed THEN Ignored(TRUE, FALSE)
    ELSE HandleMessage(e, "chat", "id", IF e.file # "none" THEN "none" ELSE IF e.group THEN Left(e.text) ELSE e.text, {})
WeComAppMessage(e) ==
    [HandleMessage(e, "chat", "id", IF e.file # "none" THEN "none" ELSE e.text, {}) EXCEPT !.noted = TRUE]
\* The AI bot opens a stream for the text of anybody and reads no pictures.
WeComAIBotText(e) == [HandleMessage(e, "chat", "id", e.text, {}) EXCEPT !.noted = TRUE]

\* whatsapp_native: texts only; no group trigger and no look at who sent it.
WhatsAppNativeMessage(e) ==
    IF e.text = "none" \/ ~e.listed THEN Ignored(FALSE, FALSE) ELSE HandleMessage(e, "chat", "id", e.text, {})

\* The platforms that never hand a bot its own messages.
Telegram == ~event.self /\ Handle("telegram", TelegramMessage(event))
Discord  == ~event.thread /\ Handle("discord", DiscordMessage(event))
Slack    == Handle("slack", SlackMessage(event))
SlackApp == event.group /\ event.file = "none" /\ Handle("slack_mention", SlackMention(event))
SlackCmd == ~event.self /\ event.file = "none" /\ Handle("slack_command", SlackSlash(event))
Line     == ~event.self /\ ~event.thread /\ (event.file = "none" \/ event.text = "none") /\ Handle("line", LineEvent(event))
QQ       == ~event.self /\ ~event.thread /\ (event.group => event.mention) /\ Handle("qq", QQMessage(event))
IRC      == ~event.thread /\ event.file = "none" /\ Handle("irc", IRCMessage(event))
DingTalk == ~event.self /\ ~event.thread /\ Handle("dingtalk", DingTalkMessage(event))
MaixCam  == ~event.self /\ ~event.group /\ event.text = "none" /\ Handle("maixcam", MaixCamDetection(event))
Feishu   == ~event.self /\ ~event.thread /\ Handle("feishu", FeishuMessage(event))
WhatsApp == event.trigger = "open" /\ ~event.thread /\ Handle("whatsapp", WhatsAppMessage(event))
Native   == event.trigger = "open" /\ ~event.thread /\ Handle("whatsapp_native", WhatsAppNativeMessage(event))
Pico     == ~event.self /\ ~event.group /\ event.trigger = "open" /\ Handle("pico", PicoMessageSend(event))
OneBot   == ~event.self /\ ~event.thread /\ Handle("onebot", OneBotMessage(event))
Matrix   == /\ ~event.thread /\ (event.file = "none" \/ event.text # "bare")
            /\ \/ Handle("matrix", MatrixMessage(event))
               \/ event.group /\ Handle("matrix_unsure", MatrixMessage([event EXCEPT !.group = FALSE]))
WeCom    == ~event.self /\ ~event.thread /\ (event.file = "none" \/ event.text = "none") /\ Handle("wecom", WeComBotMessage(event))
WeComApp == ~event.self /\ ~event.group /\ (event.file = "none" \/ event.text = "none") /\ Handle("wecom_app", WeComAppMessage(event))
AIBot    == ~event.self /\ ~event.thread /\ (event.group => event.mention) /\ event.file = "none" /\ event.text # "none"
            /\ Handle("wecom_aibot", WeComAIBotText(event))

IntakeNext ==
    \/ Telegram \/ Discord \/ Slack \/ SlackApp \/ SlackCmd \/ Line \/ QQ \/ IRC \/ DingTalk \/ MaixCam
    \/ Feishu \/ WhatsApp \/ Native \/ Pico \/ OneBot \/ Matrix \/ WeCom \/ WeComApp \/ AIBot
IntakeSpec == IntakeInit /\ [][IntakeNext]_intakeVars
-----------------------------------------------------------------------------
\* Whatever the platform, an adapter publishes only what somebody on the allow list
\* wrote, never its own words, and in a group only what is meant for the bot: it is
\* mentioned, the prefix is there, or the configuration says that it answers
\* everything (base.go:123).  The two WhatsApp adapters have no group trigger and do
\* not look at the author; Matrix answers in a room that it takes for a private chat.
OnlyInvited ==
    willAnswer.out # {} /\ willAnswer.by \notin {"whatsapp", "whatsapp_native", "matrix_unsure"} =>
        /\ event.listed /\ ~event.self
        /\ event.group => \/ event.mention \/ event.trigger = "open" \/ event.prefix
                          \/ willAnswer.by = "slack_command"

\* The adapters that check the list early do nothing for a stranger: no download, and
\* nothing that a later answer in the chat would use (telegram.go:429).  LINE, QQ,
\* DingTalk, Matrix and the WeCom bots do.
NothingForStrangers ==
    willAnswer.by \in {"telegram", "discord", "slack", "slack_mention", "feishu", "onebot", "irc"} /\ ~event.listed =>
        willAnswer.out = {} /\ ~willAnswer.fetched /\ ~willAnswer.noted

\* The two of above, of BaseChannel.ShouldRespondInGroup and the handlers of the adapters.
IntakeSound == OnlyInvited /\ NothingForStrangers
=============================================================================
