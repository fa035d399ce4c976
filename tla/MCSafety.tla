------------------------------ MODULE MCSafety ------------------------------
(***************************************************************************)
(* The components whose promises are invariants and action properties,     *)
(* each on a small instance.  They share no state with each other, so one  *)
(* run looks at each of them alone: part is the component that moves, the  *)
(* others stay as they begin.                                              *)
(***************************************************************************)
EXTENDS AgentPrompt, PromptCache, AgentTools, ProviderFallback, Credentials, Heartbeat, SessionBackends, LogView,
        Routing, PicoSockets, ChannelIntake, ChannelSend, AdapterCaches, QQReplies, ChannelPresence, MCMessageSplit
VARIABLE part   \* the component that moves
-----------------------------------------------------------------------------
\* ProviderFallback: two providers, one with two models; a timeout, an error that a rate limit and a
\* billing problem share, and one that no other provider would answer either
Fault(is, status, words) == [is |-> is, status |-> status, words |-> words]
MCModelConfigs == {<< <<"gpt", "a">>, <<"", "b">> >>}
MCErrors == {Fault("deadline", 0, {}), Fault("text", 402, {"rate"}), Fault("text", 0, {"image"})}
\* Credentials: two entries of one provider
MCModelList == <<"openai", "openai">>
\* SessionBackends
MCKeys == <<"a", "b">>
\* Routing: direct chats, a group, a thread of it, and messages whose peer is to be guessed
Msg(channel, account, kind, peer, parent, guild) ==
    [channel |-> channel, account |-> account, kind |-> kind, peer |-> peer, sender |-> <<channel, "u1">>,
     chat |-> <<"", "g">>, parent |-> parent, guild |-> guild, team |-> ""]
MCInbound ==
    {Msg("tg", "", "direct", <<"", "u1">>, NoPeer, ""), Msg("dc", "", "direct", <<"", "u2">>, NoPeer, ""),
     Msg("dc", "acc", "direct", <<"", "u1">>, NoPeer, ""), Msg("tg", "", "group", <<"", "g">>, NoPeer, ""),
     Msg("dc", "", "group", <<"", "g">>, NoPeer, "guild"),
     Msg("dc", "", "channel", NoId, <<"group", <<"", "g">> >>, ""), Msg("tg", "", "direct", NoId, NoPeer, ""),
     Msg("tg", "", "", NoId, NoPeer, "")}
Bound(agent, channel, account, peer, guild) ==
    [agent |-> agent, channel |-> channel, account |-> account, peer |-> peer, guild |-> guild, team |-> ""]
MCBindings ==
    {<<>>,
     <<Bound("b", "dc", "*", NoPeer, ""), Bound("a", "dc", "", NoPeer, "guild"),
       Bound("ghost", "tg", "", <<"group", <<"", "g">> >>, "")>>,
     <<Bound("a", "dc", "ACC", NoPeer, ""), Bound("a", "dc", "", <<"group", <<"", "g">> >>, "")>>}
MCTwo    == {<<[id |-> "a", isDefault |-> FALSE], [id |-> "b", isDefault |-> TRUE]>>}
MCScopes == {"main", "per-peer", "per-channel-peer", "per-account-channel-peer"}
MCRoutes == [agents : {<<>>}, bindings : {<<>>}, scope : MCScopes] \cup [agents : MCTwo, bindings : MCBindings, scope : MCScopes]
MCLinks  == [ann |-> {<<"tg", "u1">>, <<"", "u2">>}]
MCLower(id) == id
\* what is proved of the sessions is about what this instance has
ASSUME MCClear == ClearRouting
ASSUME MCLined == LinedMessages
-----------------------------------------------------------------------------
Components == {"prompt", "prompt cache", "registry", "chain", "credentials", "heartbeat",
               "backends", "log", "routing", "pico", "intake", "send", "tables", "qq", "presence",
               "split"}
AnyEvent   == CHOOSE e \in Events : TRUE
AnySession == CHOOSE s \in Sessions : TRUE
\* What rests is in one of its initial states; a splitter at rest is done with an empty text.
SafetyInit ==
    /\ part \in Components
    /\ HeartbeatInit /\ (part # "heartbeat" => oldStateFile = "" /\ todo = "missing")
    /\ RoutingInit   /\ (part # "routing" => routes.agents = <<>> /\ routes.scope = "main")
    /\ PicoInit      /\ (part # "pico" => \A c \in Conns : session[c] = AnySession)
    /\ PresenceInit  /\ (part # "presence" => adapter = "per_call")
    /\ SendInit      /\ (part # "send" => message.by = "discord" /\ message.lane = "text")
    /\ willAnswer = Nothing /\ IF part = "intake" THEN IntakeInit ELSE event = AnyEvent
    /\ IF part = "split" THEN SplitInit
       ELSE content = <<>> /\ maxLen = 0 /\ rest = <<>> /\ chunks = <<>> /\ splitting = FALSE
    /\ PromptInit /\ CacheInit /\ ToolsInit /\ ChainInit /\ CredInit /\ BackendsInit /\ LogInit /\ CachesInit
    /\ RepliesInit
SafetyNext ==
    /\ UNCHANGED part
    /\ IF part = "prompt" THEN PromptNext ELSE UNCHANGED promptVars
    /\ IF part = "prompt cache" THEN CacheNext ELSE UNCHANGED cacheVars
    /\ IF part = "registry" THEN RegistryNext ELSE UNCHANGED toolVars
    /\ IF part = "chain" THEN ChainNext ELSE UNCHANGED chainVars
    /\ IF part = "credentials" THEN CredNext ELSE UNCHANGED credVars
    /\ IF part = "heartbeat" THEN HeartbeatNext ELSE UNCHANGED stateVars
    /\ IF part = "backends" THEN BackendsNext ELSE UNCHANGED backendVars
    /\ IF part = "log" THEN LogNext ELSE UNCHANGED logVars
    /\ IF part = "routing" THEN RoutingNext ELSE UNCHANGED routingVars
    /\ IF part = "pico" THEN PicoNext ELSE UNCHANGED picoVars
    /\ IF part = "intake" THEN IntakeNext ELSE UNCHANGED intakeVars
    /\ IF part = "send" THEN SendNext ELSE UNCHANGED sendVars
    /\ IF part = "tables" THEN CachesNext ELSE UNCHANGED tableVars
    /\ IF part = "qq" THEN RepliesNext ELSE UNCHANGED repliesVars
    /\ IF part = "presence" THEN PresenceNext ELSE UNCHANGED presenceVars
    /\ IF part = "split" THEN SplitStep ELSE UNCHANGED splitVars
safetyVars == <<part, promptVars, cacheVars, toolVars, chainVars, credVars, stateVars, backendVars,
                logVars, routingVars, picoVars, intakeVars, sendVars, tableVars, repliesVars,
                presenceVars, splitVars>>
SafetySpec == SafetyInit /\ [][SafetyNext]_safetyVars
=============================================================================
